----------------------- MODULE BookingLifecycle_proofs -----------------------
(* Proofs about BookingLifecycle for any users, slots, bookings and workers. *)
EXTENDS BookingLifecycle, TLAPS

LEMMA RowTypes ==
  ASSUME TypeOK
  PROVE  /\ NoRow \in Row /\ Idle \in Request
         /\ \A b \in Bookings : booking[b] \in Row
         /\ \A w \in Workers : request[w] \in Request /\ request[w].row \in Row
BY ConstantsAssumption DEF TypeOK, Row, NoRow, Idle, Request, Statuses

LEMMA NewRowType ==
  ASSUME TypeOK, NEW u \in Users, NEW kind
  PROVE  /\ NewRow(u, kind) \in Row
         /\ NewRow(u, kind).status \in {"HOLD", "BOOKED", "PENDING_PAYMENT"}
<1>1. wallet[u] \in Nat
  BY DEF TypeOK
<1>2. Charge \in Nat
  BY ConstantsAssumption
<1> QED
  BY <1>1, <1>2 DEF NewRow, Row, Statuses

(* What Begin, Continue and Finish leave in the workers. *)
LEMMA BeginType ==
  ASSUME TypeOK, NEW w \in Workers, NEW kind \in AllKinds, NEW b \in Bookings \cup {Free},
         NEW row \in Row, NEW ids \in SUBSET Slots, NEW flag \in BOOLEAN,
         Begin(w, kind, b, row, ids, flag)
  PROVE  request' \in [Workers -> Request]
BY DEF TypeOK, Begin, Request

LEMMA ContinueType ==
  ASSUME TypeOK, NEW w \in Workers, NEW ids \in SUBSET Slots, NEW flag \in BOOLEAN,
         Continue(w, ids, flag)
  PROVE  request' \in [Workers -> Request]
<1>1. request[w] \in Request
  BY RowTypes
<1>2. [kind |-> request[w].kind, step |-> "collected", b |-> request[w].b,
       row |-> request[w].row, ids |-> ids, flag |-> flag] \in Request
  BY <1>1 DEF Request
<1> QED
  BY <1>2 DEF TypeOK, Continue

LEMMA FinishType ==
  ASSUME TypeOK, NEW w \in Workers, Finish(w)
  PROVE  request' \in [Workers -> Request]
BY RowTypes DEF TypeOK, Finish

LEMMA SetSlotsType ==
  ASSUME TypeOK, NEW S, NEW b \in Bookings \cup {Free}, NEW status \in SlotStatuses,
         SetSlots(S, b, status)
  PROVE  /\ slotBooking' \in [Slots -> Bookings \cup {Free}]
         /\ slotStatus' \in [Slots -> SlotStatuses]
BY DEF TypeOK, SetSlots

(* An addition to one element of a function into the naturals. *)
LEMMA AddType ==
  ASSUME NEW S, NEW f \in [S -> Nat], NEW x, NEW n \in Int, x \in S => f[x] + n \in Nat
  PROVE  [f EXCEPT ![x] = @ + n] \in [S -> Nat]
<1>1. CASE x \in S
  BY <1>1
<1>2. CASE x \notin S
  <2>1. [f EXCEPT ![x] = @ + n] = f
    BY <1>2
  <2> QED
    BY <2>1
<1> QED
  BY <1>1, <1>2

LEMMA DebitType ==
  ASSUME TypeOK, NEW u, NEW b, NEW amount \in Nat, Debit(u, b, amount)
  PROVE  wallet' \in [Users -> Nat] /\ paid' \in [Bookings -> Nat]
<1>1. wallet \in [Users -> Nat] /\ paid \in [Bookings -> Nat]
  BY DEF TypeOK
<1>2. paid' \in [Bookings -> Nat]
  <2>1. b \in Bookings => paid[b] + amount \in Nat
    BY <1>1
  <2>2. paid \in [Bookings -> Nat] /\ amount \in Int
    BY <1>1
  <2>3. [paid EXCEPT ![b] = @ + amount] \in [Bookings -> Nat]
    BY ONLY <2>1, <2>2, AddType
  <2> QED
    BY <2>3 DEF Debit
<1>3. wallet' \in [Users -> Nat]
  <2>1. u \in Users => wallet[u] - amount \in Nat
    BY <1>1 DEF Debit
  <2>2. CASE u \in Users
    BY <1>1, <2>1, <2>2 DEF Debit
  <2>3. CASE u \notin Users
    <3>1. wallet' = wallet
      BY <1>1, <2>3 DEF Debit
    <3> QED
      BY <1>1, <3>1
  <2> QED
    BY <2>2, <2>3
<1> QED
  BY <1>2, <1>3

LEMMA CreditType ==
  ASSUME TypeOK, NEW u, NEW b, NEW amount \in Nat, Credit(u, b, amount)
  PROVE  wallet' \in [Users -> Nat]
<1>1. wallet \in [Users -> Nat]
  BY DEF TypeOK
<1>2. u \in Users => wallet[u] + amount \in Nat
  BY <1>1
<1>3. [wallet EXCEPT ![u] = @ + amount] \in [Users -> Nat]
  BY <1>1, <1>2, AddType
<1> QED
  BY <1>3 DEF Credit

LEMMA TypeInit == Init => TypeOK
BY ConstantsAssumption, RowTypes
   DEF Init, TypeOK, Row, NoRow, Request, Idle, Statuses, SlotStatuses, OrderStatuses

(* A handler that reads without a lock only remembers something. *)
LEMMA TypeStarts ==
  ASSUME TypeOK, NEW w \in Workers, Starts(w)
  PROVE  TypeOK'
<1>1. ASSUME NEW kind \in {"book", "hold", "adminBook"}, BookLoad(w, kind)
      PROVE  TypeOK'
  <2>1. PICK u \in Users, S \in (SUBSET Bookable(kind)) \ {{}} :
          Begin(w, kind, Free, NewRow(u, kind), S, FALSE)
    BY <1>1 DEF BookLoad
  <2>2. S \in SUBSET Slots /\ kind \in AllKinds
    BY <1>1, <2>1 DEF Bookable, Available, AllKinds
  <2>3. request' \in [Workers -> Request]
    BY <2>1, <2>2, NewRowType, BeginType
  <2> QED
    BY <1>1, <2>3 DEF BookLoad, TypeOK
<1>2. ASSUME NEW b \in Bookings, NEW kind \in {"confirm", "release"}, HoldLoad(w, kind, b)
      PROVE  TypeOK'
  <2>1. kind \in AllKinds /\ booking[b] \in Row
    BY RowTypes DEF AllKinds
  <2>2. request' \in [Workers -> Request]
    BY <1>2, <2>1, BeginType DEF HoldLoad
  <2> QED
    BY <1>2, <2>2 DEF HoldLoad, TypeOK
<1>3. ASSUME NEW b \in Bookings, NEW kind \in {"cancel", "adminCancel"}, CancelLoad(w, kind, b)
      PROVE  TypeOK'
  <2>1. PICK refund \in BOOLEAN : Begin(w, kind, b, booking[b], {}, refund)
    BY <1>3 DEF CancelLoad
  <2>2. kind \in AllKinds /\ booking[b] \in Row
    BY RowTypes DEF AllKinds
  <2>3. request' \in [Workers -> Request]
    BY <2>1, <2>2, BeginType
  <2> QED
    BY <1>3, <2>3 DEF CancelLoad, TypeOK
<1>4. ASSUME NEW b \in Bookings, RefundLoad(w, b) \/ AbsentLoad(w, b) \/ RestoreLoad(w, b)
      PROVE  TypeOK'
  <2>1. {"refund", "absent", "restore"} \subseteq AllKinds /\ booking[b] \in Row
    BY RowTypes DEF AllKinds
  <2>2. request' \in [Workers -> Request]
    BY <1>4, <2>1, BeginType DEF RefundLoad, AbsentLoad, RestoreLoad
  <2> QED
    BY <1>4, <2>2 DEF RefundLoad, AbsentLoad, RestoreLoad, TypeOK
<1>5. ASSUME NEW b \in Bookings, RescheduleLoad(w, b)
      PROVE  TypeOK'
  <2>1. PICK window \in SUBSET Slots : Begin(w, "reschedule", b, booking[b], window, FALSE)
    BY <1>5 DEF RescheduleLoad
  <2>2. "reschedule" \in AllKinds /\ booking[b] \in Row
    BY RowTypes DEF AllKinds
  <2>3. request' \in [Workers -> Request]
    BY <2>1, <2>2, BeginType
  <2> QED
    BY <1>5, <2>3 DEF RescheduleLoad, TypeOK
<1> QED
  BY <1>1, <1>2, <1>3, <1>4, <1>5 DEF Starts

LEMMA TypeEnds ==
  ASSUME TypeOK, NEW w \in Workers, Ends(w)
  PROVE  TypeOK'
<1>0. /\ request[w] \in Request /\ request[w].row \in Row
      /\ request[w].b \in Bookings \cup {Free} /\ request[w].ids \in SUBSET Slots
      /\ request[w].flag \in BOOLEAN /\ Charge \in Nat
  BY RowTypes, ConstantsAssumption DEF Request
<1>1. request[w].row.applied \in Nat /\ Charge - request[w].row.applied \in Nat
  BY <1>0 DEF Row
<1>2. ASSUME NEW b \in Bookings, BookCommit(w, b)
      PROVE  TypeOK'
  <2>1. PICK S \in LockedSlots(request[w].kind, request[w].ids) :
          /\ Debit(request[w].row.user, b, request[w].row.applied)
          /\ booking' = [booking EXCEPT ![b] = request[w].row]
          /\ SetSlots(S, b, "BOOKED")
    BY <1>2 DEF BookCommit
  <2>2. wallet' \in [Users -> Nat] /\ paid' \in [Bookings -> Nat]
    BY <1>1, <2>1, DebitType
  <2>3. slotBooking' \in [Slots -> Bookings \cup {Free}] /\ slotStatus' \in [Slots -> SlotStatuses]
    BY <2>1, SetSlotsType DEF SlotStatuses
  <2>4. booking' \in [Bookings -> Row]
    BY <1>0, <2>1 DEF TypeOK
  <2>5. request' \in [Workers -> Request] /\ UNCHANGED <<order, refunded>>
    BY <1>2, FinishType DEF BookCommit
  <2> QED
    BY <2>2, <2>3, <2>4, <2>5 DEF TypeOK
<1>3. CASE ConfirmCommit(w)
  <2>1. wallet' \in [Users -> Nat] /\ paid' \in [Bookings -> Nat]
    BY <1>0, <1>3, DebitType DEF ConfirmCommit
  <2>2. booking' \in [Bookings -> Row]
    BY ZenonT(90), <1>3 DEF ConfirmCommit, TypeOK, Row, Statuses
  <2>3. request' \in [Workers -> Request]
    BY <1>3, FinishType DEF ConfirmCommit
  <2> QED
    BY <1>3, <2>1, <2>2, <2>3 DEF ConfirmCommit, TypeOK
<1>4. CASE ReleaseCommit(w)
  <2>1. slotBooking' \in [Slots -> Bookings \cup {Free}] /\ slotStatus' \in [Slots -> SlotStatuses]
    BY <1>4, SetSlotsType DEF ReleaseCommit, SlotStatuses
  <2>2. booking' \in [Bookings -> Row]
    BY ZenonT(90), <1>4 DEF ReleaseCommit, TypeOK, Row, Statuses
  <2>3. request' \in [Workers -> Request]
    BY <1>4, FinishType DEF ReleaseCommit
  <2> QED
    BY <1>4, <2>1, <2>2, <2>3 DEF ReleaseCommit, TypeOK
<1>5. CASE CancelCollect(w)
  <2>1. Owned(request[w].b) \in SUBSET Slots
    BY DEF Owned
  <2>2. request' \in [Workers -> Request]
    BY <1>0, <1>5, <2>1, ContinueType DEF CancelCollect
  <2> QED
    BY <1>5, <2>2 DEF CancelCollect, TypeOK
<1>6. CASE CancelCommit(w)
  <2> DEFINE b == request[w].b
             row == request[w].row
             amount == IF request[w].flag THEN Charge ELSE 0
  <2>1. amount \in Nat
    BY <1>0
  <2>2. FreedStatus(row) \in SlotStatuses
    BY DEF FreedStatus, SlotStatuses
  <2>3. slotBooking' \in [Slots -> Bookings \cup {Free}] /\ slotStatus' \in [Slots -> SlotStatuses]
    BY <1>6, <2>2, SetSlotsType DEF CancelCommit, ReleaseIds
  <2>4. wallet' \in [Users -> Nat]
    BY <1>6, <2>1, CreditType DEF CancelCommit
  <2>5. refunded' \in [Bookings -> Nat]
    <3>1. refunded \in [Bookings -> Nat] /\ (b \in Bookings => refunded[b] + amount \in Nat)
      BY <2>1 DEF TypeOK
    <3>2. refunded' = [refunded EXCEPT ![b] = @ + amount]
      BY <1>6 DEF CancelCommit
    <3> HIDE DEF amount
    <3> QED
      BY ZenonT(90), <2>1, <3>1, <3>2, AddType
  <2>6. booking' \in [Bookings -> Row]
    <3>1. [row EXCEPT !.status = CancelledStatus(row, request[w].flag)] \in Row
      BY <1>0 DEF CancelledStatus, Row, Statuses
    <3> QED
      BY <1>6, <3>1 DEF CancelCommit, TypeOK
  <2>7. request' \in [Workers -> Request]
    BY <1>6, FinishType DEF CancelCommit
  <2> QED
    BY <1>6, <2>3, <2>4, <2>5, <2>6, <2>7 DEF CancelCommit, TypeOK
<1>7. CASE RefundLookup(w)
  <2>1. request' \in [Workers -> Request]
    BY <1>7, ContinueType DEF RefundLookup
  <2> QED
    BY <1>7, <2>1 DEF RefundLookup, TypeOK
<1>8. CASE RefundCommit(w)
  <2> DEFINE b == request[w].b
             row == request[w].row
             credit == IF request[w].flag THEN row.applied ELSE Charge
  <2>1. credit \in Nat /\ GatewayRefund(w) \in Nat
    BY <1>0, <1>1 DEF GatewayRefund
  <2>2. slotBooking' \in [Slots -> Bookings \cup {Free}] /\ slotStatus' \in [Slots -> SlotStatuses]
    BY <1>8, SetSlotsType DEF RefundCommit, SlotStatuses
  <2>3. wallet' \in [Users -> Nat]
    BY <1>8, <2>1, CreditType DEF RefundCommit
  <2>4. refunded' \in [Bookings -> Nat]
    <3>1. refunded' = [refunded EXCEPT ![b] = @ + (credit + GatewayRefund(w))]
      BY <1>8 DEF RefundCommit
    <3>2. refunded \in [Bookings -> Nat]
      BY DEF TypeOK
    <3>3. b \in Bookings => refunded[b] + (credit + GatewayRefund(w)) \in Nat
      BY <2>1, <3>2
    <3> HIDE DEF credit
    <3>4. credit + GatewayRefund(w) \in Int
      BY <2>1
    <3> QED
      BY <3>1, <3>2, <3>3, <3>4, AddType
  <2>5. order' \in [Bookings -> OrderStatuses]
    BY <1>8 DEF RefundCommit, TypeOK, OrderStatuses
  <2>6. booking' \in [Bookings -> Row]
    BY ZenonT(90), <1>8 DEF RefundCommit, TypeOK, Row, Statuses
  <2>7. request' \in [Workers -> Request]
    BY <1>8, FinishType DEF RefundCommit
  <2> QED
    BY <1>8, <2>2, <2>3, <2>4, <2>5, <2>6, <2>7 DEF RefundCommit, TypeOK
<1>9. CASE AbsentCommit(w)
  <2>1. booking' \in [Bookings -> Row]
    BY ZenonT(90), <1>9 DEF AbsentCommit, TypeOK, Row, Statuses
  <2>2. request' \in [Workers -> Request]
    BY <1>9, FinishType DEF AbsentCommit
  <2> QED
    BY <1>9, <2>1, <2>2 DEF AbsentCommit, TypeOK
<1>10. CASE RescheduleCollect(w)
  <2>1. PICK S \in SUBSET Slots : Continue(w, S, FALSE)
    BY <1>0, <1>10 DEF RescheduleCollect
  <2>2. request' \in [Workers -> Request]
    BY <2>1, ContinueType
  <2> QED
    BY <1>10, <2>2 DEF RescheduleCollect, TypeOK
<1>11. CASE RescheduleCommit(w)
  <2>1. slotBooking' \in [Slots -> Bookings \cup {Free}]
    BY <1>0, <1>11 DEF RescheduleCommit, TypeOK
  <2>2. slotStatus' \in [Slots -> SlotStatuses]
    BY <1>11 DEF RescheduleCommit, TypeOK, FreedStatus, SlotStatuses
  <2>3. booking' \in [Bookings -> Row]
    BY <1>0, <1>11 DEF RescheduleCommit, TypeOK, Row, Statuses
  <2>4. request' \in [Workers -> Request]
    BY <1>11, FinishType DEF RescheduleCommit
  <2> QED
    BY <1>11, <2>1, <2>2, <2>3, <2>4 DEF RescheduleCommit, TypeOK
<1>12. CASE Abandon(w)
  <2>1. request' \in [Workers -> Request]
    BY <1>12, FinishType DEF Abandon
  <2> QED
    BY <1>12, <2>1 DEF Abandon, TypeOK
<1>13. CASE RestoreCommit(w)
  <2>1. slotBooking' \in [Slots -> Bookings \cup {Free}] /\ slotStatus' \in [Slots -> SlotStatuses]
    BY <1>0, <1>13, SetSlotsType DEF RestoreCommit, SlotStatuses
  <2>2. booking' \in [Bookings -> Row]
    BY ZenonT(90), <1>13 DEF RestoreCommit, TypeOK, Row, Statuses
  <2>3. request' \in [Workers -> Request]
    BY <1>13, FinishType DEF RestoreCommit
  <2> QED
    BY <1>13, <2>1, <2>2, <2>3 DEF RestoreCommit, TypeOK
<1> QED
  BY <1>2, <1>3, <1>4, <1>5, <1>6, <1>7, <1>8, <1>9, <1>10, <1>11, <1>12, <1>13 DEF Ends

LEMMA TypeLocked ==
  ASSUME TypeOK, NEW w \in Workers, NEW b \in Bookings, LockedHandlers(w, b)
  PROVE  TypeOK'
<1>0. /\ booking[b] \in Row /\ Charge \in Nat /\ Charge - booking[b].applied \in Nat
      /\ paid \in [Bookings -> Nat] /\ refunded \in [Bookings -> Nat]
  BY RowTypes, ConstantsAssumption DEF Row, TypeOK
<1>1. CASE AutoCancel(w, b)
  <2>1. slotBooking' \in [Slots -> Bookings \cup {Free}] /\ slotStatus' \in [Slots -> SlotStatuses]
    BY <1>1, SetSlotsType DEF AutoCancel, SlotStatuses
  <2>2. wallet' \in [Users -> Nat]
    BY <1>0, <1>1, CreditType DEF AutoCancel
  <2>3. refunded' \in [Bookings -> Nat]
    BY <1>0, <1>1, AddType DEF AutoCancel
  <2>4. booking' \in [Bookings -> Row]
    BY <1>1 DEF AutoCancel, TypeOK, Row, Statuses
  <2> QED
    BY <1>1, <2>1, <2>2, <2>3, <2>4 DEF AutoCancel, TypeOK
<1>2. CASE Complete(w, b)
  BY SMTT(30), <1>2 DEF Complete, TypeOK, Row, Statuses
<1>3. CASE NotUtilized(w, b)
  <2>1. slotBooking' \in [Slots -> Bookings \cup {Free}] /\ slotStatus' \in [Slots -> SlotStatuses]
    BY <1>3, SetSlotsType DEF NotUtilized, SlotStatuses
  <2>2. booking' \in [Bookings -> Row]
    BY SMTT(30), <1>3 DEF NotUtilized, TypeOK, Row, Statuses
  <2> QED
    BY <1>3, <2>1, <2>2 DEF NotUtilized, TypeOK
<1>4. CASE OpenOrder(w, b)
  BY <1>4 DEF OpenOrder, TypeOK, OrderStatuses
<1>5. CASE Settle(w, b)
  <2>1. paid' \in [Bookings -> Nat]
    BY <1>0, <1>5, AddType DEF Settle
  <2>2. booking' \in [Bookings -> Row]
    BY <1>0, <1>5 DEF Settle, TypeOK, Row, Statuses
  <2> QED
    BY <1>5, <2>1, <2>2 DEF Settle, TypeOK, OrderStatuses
<1>6. CASE CaptureAgain(w, b)
  <2>1. paid' \in [Bookings -> Nat]
    BY <1>0, <1>6, AddType DEF CaptureAgain
  <2> QED
    BY <1>6, <2>1 DEF CaptureAgain, TypeOK, OrderStatuses
<1>7. CASE LateReport(w, b)
  BY <1>7 DEF LateReport, TypeOK, OrderStatuses
<1> QED
  BY <1>1, <1>2, <1>3, <1>4, <1>5, <1>6, <1>7 DEF LockedHandlers

(* Every column keeps its type, in particular no sub-wallet gets below zero *)
(* (SubWallet.debit), however requests overlap.                             *)
THEOREM TypeCorrect == Spec => []TypeOK
<1>1. Init => TypeOK
  BY TypeInit
<1>2. TypeOK /\ [Next]_vars => TypeOK'
  <2> SUFFICES ASSUME TypeOK, [Next]_vars PROVE TypeOK'
    OBVIOUS
  <2>1. CASE Next
    BY <2>1, TypeStarts, TypeEnds, TypeLocked DEF Next
  <2>2. CASE UNCHANGED vars
    BY <2>2 DEF vars, TypeOK
  <2> QED
    BY <2>1, <2>2
<1> QED
  BY <1>1, <1>2, PTL DEF Spec

-----------------------------------------------------------------------------
(* The two columns of a slot, for every set of operations.                  *)

Creating == {"book", "hold", "adminBook"}

(* What a worker remembers of its booking; the part of CopiesSound that any *)
(* set of operations keeps.                                                 *)
Remembered(q) ==
  /\ q.kind \in Kinds \cup {"idle"}
  /\ q.kind \in Creating => q.row.status \notin Closed \cup {"NONE"} /\ q.ids # {}
  /\ q.kind \notin Creating \cup {"idle"} => q.b \in Bookings /\ booking[q.b].status # "NONE"

PairingInv ==
  /\ TypeOK
  /\ SlotPairing
  /\ \A w \in Workers : Remembered(request[w])

(* No row is ever deleted. *)
RowsStay == \A b \in Bookings : booking[b].status # "NONE" => booking'[b].status # "NONE"

Unslotted == UNCHANGED <<slotStatus, slotBooking>>

LEMMA PairingUnslotted ==
  ASSUME TypeOK, SlotPairing, RowsStay, Unslotted
  PROVE  SlotPairing'
BY DEF TypeOK, SlotPairing, RowsStay, Unslotted

LEMMA PairingFreed ==
  ASSUME TypeOK, SlotPairing, RowsStay, NEW S, NEW status \in {"AVAILABLE", "OPERATOR_ABSENT"},
         SetSlots(S, Free, status)
  PROVE  SlotPairing'
BY DEF TypeOK, SlotPairing, RowsStay, SetSlots

LEMMA PairingTaken ==
  ASSUME TypeOK, SlotPairing, RowsStay, NEW S, NEW status \in {"BOOKED", "BOOKING_NOT_UTILIZED"},
         NEW b \in Bookings, booking'[b].status # "NONE", SetSlots(S, b, status)
  PROVE  SlotPairing'
BY ConstantsAssumption DEF TypeOK, SlotPairing, RowsStay, SetSlots

(* Changing the row of one booking to one that is created keeps all rows.   *)
LEMMA RowsStayOne ==
  ASSUME TypeOK, NEW b, NEW row, row.status # "NONE", booking' = [booking EXCEPT ![b] = row]
  PROVE  RowsStay /\ (b \in Bookings => booking'[b].status # "NONE")
BY DEF TypeOK, RowsStay

LEMMA RowsStayStatus ==
  ASSUME TypeOK, NEW b, NEW status, status # "NONE",
         booking' = [booking EXCEPT ![b].status = status]
  PROVE  RowsStay /\ (b \in Bookings => booking'[b].status # "NONE")
BY DEF TypeOK, RowsStay, Row

LEMMA RowsStaySame ==
  ASSUME booking' = booking
  PROVE  RowsStay
BY DEF RowsStay

(* Every step keeps the rows, the pairing and what the other workers know.  *)
LEMMA StartsKeep ==
  ASSUME NEW w \in Workers, Starts(w)
  PROVE  /\ booking' = booking /\ Unslotted
         /\ UNCHANGED <<wallet, order, paid, refunded>>
BY DEF Starts, BookLoad, HoldLoad, CancelLoad, RefundLoad, AbsentLoad, RescheduleLoad, RestoreLoad,
       Unslotted

LEMMA StartsRemember ==
  ASSUME PairingInv, NEW w \in Workers, Starts(w)
  PROVE  \A v \in Workers : Remembered(request[v])'
<1>0. TypeOK /\ booking' = booking /\ \A v \in Workers : Remembered(request[v])
  BY StartsKeep DEF PairingInv
<1>1. ASSUME NEW kind, NEW b, NEW row, NEW ids, NEW flag,
             Idling(w, kind), Begin(w, kind, b, row, ids, flag), kind # "idle",
             kind \in Creating => row.status \notin Closed \cup {"NONE"} /\ ids # {},
             kind \notin Creating => b \in Bookings /\ booking[b].status # "NONE"
      PROVE  \A v \in Workers : Remembered(request[v])'
  <2>1. request' = [request EXCEPT ![w] = [kind |-> kind, step |-> "loaded", b |-> b,
                                           row |-> row, ids |-> ids, flag |-> flag]]
    BY <1>1 DEF Begin
  <2>2. ASSUME NEW v \in Workers, v # w
        PROVE  Remembered(request[v])'
    BY <1>0, <2>1, <2>2 DEF Remembered, TypeOK
  <2>3. Remembered(request[w])'
    BY <1>0, <1>1, <2>1 DEF Remembered, TypeOK, Idling
  <2> QED
    BY <2>2, <2>3
<1>2. ASSUME NEW kind \in Creating, BookLoad(w, kind)
      PROVE  \A v \in Workers : Remembered(request[v])'
  <2>1. PICK u \in Users, S \in (SUBSET Bookable(kind)) \ {{}} :
          Begin(w, kind, Free, NewRow(u, kind), S, FALSE)
    BY <1>2 DEF BookLoad
  <2>2. NewRow(u, kind).status \notin Closed \cup {"NONE"}
    BY <1>0, NewRowType DEF Closed
  <2>3. kind # "idle" /\ Idling(w, kind)
    BY <1>2 DEF Creating, BookLoad
  <2> QED
    BY <1>1, <2>1, <2>2, <2>3
<1>3. ASSUME NEW b \in Bookings, NEW kind \in {"confirm", "release"}, HoldLoad(w, kind, b)
      PROVE  \A v \in Workers : Remembered(request[v])'
  BY <1>1, <1>3 DEF HoldLoad, Creating
<1>4. ASSUME NEW b \in Bookings, NEW kind \in {"cancel", "adminCancel"}, CancelLoad(w, kind, b)
      PROVE  \A v \in Workers : Remembered(request[v])'
  <2>1. PICK refund \in BOOLEAN : Begin(w, kind, b, booking[b], {}, refund)
    BY <1>4 DEF CancelLoad
  <2>2. Idling(w, kind) /\ booking[b].status # "NONE" /\ kind # "idle" /\ kind \notin Creating
    BY <1>4 DEF CancelLoad, Cancellable, Creating
  <2> QED
    BY <1>1, <2>1, <2>2
<1>5. ASSUME NEW b \in Bookings, RefundLoad(w, b) \/ AbsentLoad(w, b) \/ RestoreLoad(w, b)
      PROVE  \A v \in Workers : Remembered(request[v])'
  BY <1>1, <1>5 DEF RefundLoad, AbsentLoad, RestoreLoad, Creating
<1>6. ASSUME NEW b \in Bookings, RescheduleLoad(w, b)
      PROVE  \A v \in Workers : Remembered(request[v])'
  <2>1. PICK window \in SUBSET Slots : Begin(w, "reschedule", b, booking[b], window, FALSE)
    BY <1>6 DEF RescheduleLoad
  <2>2. Idling(w, "reschedule") /\ booking[b].status # "NONE" /\ "reschedule" \notin Creating
    BY <1>6 DEF RescheduleLoad, Creating
  <2> QED
    BY <1>1, <2>1, <2>2
<1> QED
  BY <1>2, <1>3, <1>4, <1>5, <1>6 DEF Starts, Creating

LEMMA FinishRemembers ==
  ASSUME TypeOK, RowsStay, \A v \in Workers : Remembered(request[v]), NEW w \in Workers, Finish(w)
  PROVE  \A v \in Workers : Remembered(request[v])'
BY DEF TypeOK, RowsStay, Remembered, Finish, Idle, Creating

LEMMA ContinueRemembers ==
  ASSUME TypeOK, RowsStay, \A v \in Workers : Remembered(request[v]), NEW w \in Workers,
         NEW ids, NEW flag, request[w].kind \notin Creating, Continue(w, ids, flag)
  PROVE  \A v \in Workers : Remembered(request[v])'
BY DEF TypeOK, RowsStay, Remembered, Continue

LEMMA SameRemembers ==
  ASSUME RowsStay, \A v \in Workers : Remembered(request[v]), request' = request
  PROVE  \A v \in Workers : Remembered(request[v])'
BY DEF RowsStay, Remembered

LEMMA EndsPairing ==
  ASSUME PairingInv, NEW w \in Workers, Ends(w)
  PROVE  RowsStay /\ SlotPairing' /\ \A v \in Workers : Remembered(request[v])'
<1>0. /\ TypeOK /\ SlotPairing /\ \A v \in Workers : Remembered(request[v])
      /\ Remembered(request[w])
  BY DEF PairingInv
<1>1. ASSUME NEW b \in Bookings, BookCommit(w, b)
      PROVE  RowsStay /\ SlotPairing' /\ \A v \in Workers : Remembered(request[v])'
  <2>1. booking' = [booking EXCEPT ![b] = request[w].row] /\ request[w].row.status # "NONE"
    BY <1>0, <1>1 DEF BookCommit, At, Remembered, Creating
  <2>2. RowsStay /\ booking'[b].status # "NONE"
    BY <1>0, <2>1, RowsStayOne
  <2>3. PICK S \in LockedSlots(request[w].kind, request[w].ids) : SetSlots(S, b, "BOOKED")
    BY <1>1 DEF BookCommit
  <2>4. SlotPairing'
    BY <1>0, <2>2, <2>3, PairingTaken
  <2>5. \A v \in Workers : Remembered(request[v])'
    BY <1>0, <1>1, <2>2, FinishRemembers DEF BookCommit
  <2> QED
    BY <2>2, <2>4, <2>5
<1>2. CASE ConfirmCommit(w)
  <2>1. RowsStay
    BY <1>0, <1>2, RowsStayStatus DEF ConfirmCommit
  <2> QED
    BY <1>0, <1>2, <2>1, PairingUnslotted, FinishRemembers DEF ConfirmCommit, Unslotted
<1>3. CASE ReleaseCommit(w)
  <2>1. RowsStay
    BY <1>0, <1>3, RowsStayStatus DEF ReleaseCommit
  <2>2. SlotPairing'
    BY <1>0, <1>3, <2>1, PairingFreed DEF ReleaseCommit
  <2> QED
    BY <1>0, <1>3, <2>1, <2>2, FinishRemembers DEF ReleaseCommit
<1>4. CASE CancelCollect(w)
  <2>1. RowsStay
    BY <1>4, RowsStaySame DEF CancelCollect
  <2>2. SlotPairing'
    BY <1>0, <1>4, <2>1, PairingUnslotted DEF CancelCollect, Unslotted
  <2> QED
    BY <1>0, <1>4, <2>1, <2>2, ContinueRemembers DEF CancelCollect, At, Creating
<1>5. CASE CancelCommit(w)
  <2> DEFINE row == request[w].row
             new == [row EXCEPT !.status = CancelledStatus(row, request[w].flag)]
  <2>1. new.status # "NONE"
    BY <1>0, RowTypes DEF CancelledStatus, Row
  <2>2. RowsStay
    <3>1. booking' = [booking EXCEPT ![request[w].b] = new]
      BY <1>5 DEF CancelCommit
    <3> HIDE DEF new
    <3> QED
      BY <1>0, <2>1, <3>1, RowsStayOne
  <2>3. SlotPairing'
    <3>1. FreedStatus(row) \in {"AVAILABLE", "OPERATOR_ABSENT"}
      BY DEF FreedStatus
    <3> QED
      BY <1>0, <1>5, <2>2, <3>1, PairingFreed DEF CancelCommit, ReleaseIds
  <2> QED
    BY <1>0, <1>5, <2>2, <2>3, FinishRemembers DEF CancelCommit
<1>6. CASE RefundLookup(w)
  <2>1. RowsStay
    BY <1>6, RowsStaySame DEF RefundLookup
  <2>2. SlotPairing'
    BY <1>0, <1>6, <2>1, PairingUnslotted DEF RefundLookup, Unslotted
  <2> QED
    BY <1>0, <1>6, <2>1, <2>2, ContinueRemembers DEF RefundLookup, At, Creating
<1>7. CASE RefundCommit(w)
  <2>1. RowsStay
    BY <1>0, <1>7, RowsStayStatus DEF RefundCommit
  <2>2. SlotPairing'
    BY <1>0, <1>7, <2>1, PairingFreed DEF RefundCommit
  <2> QED
    BY <1>0, <1>7, <2>1, <2>2, FinishRemembers DEF RefundCommit
<1>8. CASE AbsentCommit(w)
  <2>1. RowsStay
    BY <1>0, <1>8, RowsStayStatus DEF AbsentCommit
  <2> QED
    BY <1>0, <1>8, <2>1, PairingUnslotted, FinishRemembers DEF AbsentCommit, Unslotted
<1>9. CASE RescheduleCollect(w)
  <2>1. RowsStay
    BY <1>9, RowsStaySame DEF RescheduleCollect
  <2>2. SlotPairing'
    BY <1>0, <1>9, <2>1, PairingUnslotted DEF RescheduleCollect, Unslotted
  <2> QED
    BY <1>0, <1>9, <2>1, <2>2, ContinueRemembers DEF RescheduleCollect, At, Creating
<1>10. CASE RescheduleCommit(w)
  <2> DEFINE b == request[w].b
             row == request[w].row
             new == [row EXCEPT !.status = "BOOKED"]
  <2>1. b \in Bookings
    BY <1>0, <1>10 DEF RescheduleCommit, At, Remembered, Creating
  <2>2. RowsStay /\ booking'[b].status # "NONE"
    <3>1. booking' = [booking EXCEPT ![b] = new] /\ new.status # "NONE"
      BY <1>0, <1>10, RowTypes DEF RescheduleCommit, Row
    <3> HIDE DEF new
    <3> QED
      BY <1>0, <2>1, <3>1, RowsStayOne
  <2>3. SlotPairing'
    <3>1. FreedStatus(row) \in {"AVAILABLE", "OPERATOR_ABSENT"} /\ b # Free
      BY <2>1, ConstantsAssumption DEF FreedStatus
    <3> QED
      BY <1>0, <1>10, <2>1, <2>2, <3>1 DEF RescheduleCommit, SlotPairing, RowsStay, TypeOK
  <2> QED
    BY <1>0, <1>10, <2>2, <2>3, FinishRemembers DEF RescheduleCommit
<1>11. CASE Abandon(w)
  <2>1. RowsStay
    BY <1>11, RowsStaySame DEF Abandon
  <2> QED
    BY <1>0, <1>11, <2>1, PairingUnslotted, FinishRemembers DEF Abandon, Unslotted
<1>12. CASE RestoreCommit(w)
  <2>1. RowsStay /\ (request[w].b \in Bookings => booking'[request[w].b].status # "NONE")
    BY <1>0, <1>12, RowsStayStatus DEF RestoreCommit
  <2>2. request[w].b \in Bookings
    BY <1>0, <1>12 DEF RestoreCommit, At, Remembered, Creating
  <2>3. SlotPairing'
    BY <1>0, <1>12, <2>1, <2>2, PairingTaken DEF RestoreCommit
  <2> QED
    BY <1>0, <1>12, <2>1, <2>3, FinishRemembers DEF RestoreCommit
<1> QED
  BY <1>1, <1>2, <1>3, <1>4, <1>5, <1>6, <1>7, <1>8, <1>9, <1>10, <1>11, <1>12 DEF Ends

LEMMA LockedPairing ==
  ASSUME PairingInv, NEW w \in Workers, NEW b \in Bookings, LockedHandlers(w, b)
  PROVE  RowsStay /\ SlotPairing' /\ \A v \in Workers : Remembered(request[v])'
<1>0. TypeOK /\ SlotPairing /\ \A v \in Workers : Remembered(request[v])
  BY DEF PairingInv
<1>1. RowsStay
  <2>1. CASE OpenOrder(w, b) \/ CaptureAgain(w, b) \/ LateReport(w, b)
    BY <2>1, RowsStaySame DEF OpenOrder, CaptureAgain, LateReport
  <2>2. CASE Settle(w, b)
    BY <1>0, <2>2 DEF Settle, RowsStay, TypeOK
  <2>3. CASE AutoCancel(w, b) \/ Complete(w, b) \/ NotUtilized(w, b)
    BY <1>0, <2>3, RowsStayStatus DEF AutoCancel, Complete, NotUtilized
  <2> QED
    BY <2>1, <2>2, <2>3 DEF LockedHandlers
<1>2. \A v \in Workers : Remembered(request[v])'
  BY <1>0, <1>1, SameRemembers
     DEF LockedHandlers, AutoCancel, Complete, NotUtilized, OpenOrder, Settle, CaptureAgain, LateReport
<1>3. SlotPairing'
  <2>1. CASE AutoCancel(w, b)
    BY <1>0, <1>1, <2>1, PairingFreed DEF AutoCancel
  <2>2. CASE NotUtilized(w, b)
    <3>1. booking'[b].status # "NONE"
      BY <1>0, <2>2, RowsStayStatus DEF NotUtilized
    <3> QED
      BY <1>0, <1>1, <2>2, <3>1, PairingTaken DEF NotUtilized
  <2>3. CASE \/ Complete(w, b) \/ OpenOrder(w, b) \/ Settle(w, b)
             \/ CaptureAgain(w, b) \/ LateReport(w, b)
    BY <1>0, <1>1, <2>3, PairingUnslotted
       DEF Complete, OpenOrder, Settle, CaptureAgain, LateReport, Unslotted
  <2> QED
    BY <2>1, <2>2, <2>3 DEF LockedHandlers
<1> QED
  BY <1>1, <1>2, <1>3

(* Slot columns agree and every owned slot has a created owner, for any set *)
(* of operations, moves and bookings over others included.                  *)
LEMMA PairingInductive ==
  /\ Init => PairingInv
  /\ PairingInv /\ [Next]_vars => PairingInv'
<1>1. Init => PairingInv
  <2> SUFFICES ASSUME Init PROVE PairingInv
    OBVIOUS
  <2>1. TypeOK
    BY TypeInit
  <2>2. SlotPairing
    BY DEF Init, SlotPairing
  <2>3. \A w \in Workers : Remembered(request[w])
    BY DEF Init, Remembered, Idle, Creating
  <2> QED
    BY <2>1, <2>2, <2>3 DEF PairingInv
<1>2. PairingInv /\ [Next]_vars => PairingInv'
  <2> SUFFICES ASSUME PairingInv, [Next]_vars PROVE PairingInv'
    OBVIOUS
  <2>0. TypeOK'
    BY TypeStarts, TypeEnds, TypeLocked DEF PairingInv, Next, vars, TypeOK
  <2>1. ASSUME NEW w \in Workers, Starts(w)
        PROVE  PairingInv'
    <3>1. SlotPairing'
      BY <2>1, StartsKeep, RowsStaySame, PairingUnslotted DEF PairingInv
    <3> QED
      BY <2>0, <2>1, <3>1, StartsRemember DEF PairingInv
  <2>2. ASSUME NEW w \in Workers, Ends(w)
        PROVE  PairingInv'
    BY <2>0, <2>2, EndsPairing DEF PairingInv
  <2>3. ASSUME NEW w \in Workers, NEW b \in Bookings, LockedHandlers(w, b)
        PROVE  PairingInv'
    BY <2>0, <2>3, LockedPairing DEF PairingInv
  <2>4. CASE UNCHANGED vars
    <3>1. SlotPairing'
      BY <2>4 DEF vars, PairingInv, SlotPairing
    <3>2. \A v \in Workers : Remembered(request[v])'
      BY <2>4 DEF vars, PairingInv, Remembered
    <3> QED
      BY <2>0, <3>1, <3>2 DEF PairingInv
  <2> QED
    BY <2>1, <2>2, <2>3, <2>4 DEF Next
<1> QED
  BY <1>1, <1>2

(* A slot is marked as booked exactly while a created booking owns it.      *)
THEOREM PairingCorrect == Spec => []SlotPairing
<1>1. Spec => []PairingInv
  BY PairingInductive, PTL DEF Spec
<1>2. PairingInv => SlotPairing
  BY DEF PairingInv
<1> QED
  BY <1>1, <1>2, PTL

-----------------------------------------------------------------------------
(* The calendar, when nothing moves a booking or books over another.        *)

NeverMoved == "reschedule" \notin Kinds /\ "adminBook" \notin Kinds

(* A cancellation's collected slots, see CopiesSound. *)
Collected(q) ==
  q.kind \in {"cancel", "adminCancel"} /\ q.step = "collected"
    => q.ids = Owned(q.b) \/ Owned(q.b) = {}

CalendarInv ==
  /\ PairingInv
  /\ ClosedHoldsNothing
  /\ \A w \in Workers : Collected(request[w])

(* What a step does to the owners of the slots: nothing, ... *)
Quiet == slotBooking' = slotBooking

(* ... it takes all its slots from b, ... *)
Releases(b) ==
  slotBooking' = [s \in Slots |-> IF slotBooking[s] = b THEN Free ELSE slotBooking[s]]

(* ... or it gives free slots to the new booking b. *)
Claims(b) ==
  \E S \in (SUBSET Owned(Free)) \ {{}} :
    slotBooking' = [s \in Slots |-> IF s \in S THEN b ELSE slotBooking[s]]

Created(b) == booking[b].status # "NONE"

LEMMA QuietOwned ==
  ASSUME Quiet, NEW c
  PROVE  Owned(c)' = Owned(c)
BY DEF Quiet, Owned

LEMMA ReleasesOwned ==
  ASSUME NEW b \in Bookings, Releases(b)
  PROVE  Owned(b)' = {} /\ \A c \in Bookings \ {b} : Owned(c)' = Owned(c)
BY ConstantsAssumption DEF Releases, Owned

LEMMA ClaimsOwned ==
  ASSUME NEW b \in Bookings, Claims(b)
  PROVE  Owned(b)' # {} /\ \A c \in Bookings \ {b} : Owned(c)' = Owned(c)
BY ConstantsAssumption DEF Claims, Owned

(* A step is quiet, releases or claims, and closes a booking only with all  *)
(* its slots.                                                               *)
SoundStep ==
  \/ /\ Quiet
     /\ \A c \in Bookings : Created(c)' = Created(c)
     /\ \A c \in Bookings : booking'[c].status \in Closed => booking[c].status \in Closed
  \/ \E b \in Bookings :
       /\ Releases(b) /\ Created(b) /\ booking'[b].status \in Closed
       /\ \A c \in Bookings : Created(c)' = Created(c)
       /\ \A c \in Bookings \ {b} : booking'[c] = booking[c]
  \/ \E b \in Bookings :
       /\ Claims(b) /\ ~Created(b) /\ booking'[b].status \notin Closed \cup {"NONE"}
       /\ \A c \in Bookings \ {b} : booking'[c] = booking[c]

LEMMA FreedReleases ==
  ASSUME TypeOK, NEW b, NEW status, SetSlots(Owned(b), Free, status)
  PROVE  Releases(b)
BY DEF TypeOK, SetSlots, Owned, Releases

LEMMA KeptQuiet ==
  ASSUME TypeOK, NEW b, NEW S \in SUBSET Owned(b), NEW status, SetSlots(S, b, status)
  PROVE  Quiet
BY DEF TypeOK, SetSlots, Owned, Quiet

LEMMA SoundStarts ==
  ASSUME CalendarInv, NEW w \in Workers, Starts(w)
  PROVE  SoundStep
BY StartsKeep DEF SoundStep, Quiet, Unslotted, Created

LEMMA SoundEnds ==
  ASSUME CalendarInv, "adminBook" \notin Kinds, NEW w \in Workers, Ends(w)
  PROVE  SoundStep \/ RescheduleCommit(w)
<1>0. /\ TypeOK /\ SlotPairing /\ Remembered(request[w]) /\ Collected(request[w])
      /\ request[w] \in Request /\ request[w].row \in Row
  BY RowTypes DEF CalendarInv, PairingInv
<1>1. ASSUME NEW b \in Bookings, BookCommit(w, b)
      PROVE  SoundStep
  <2>1. request[w].kind \in {"book", "hold"} /\ ~Created(b)
    BY <1>0, <1>1 DEF BookCommit, At, Remembered, Created
  <2>2. PICK S \in LockedSlots(request[w].kind, request[w].ids) : SetSlots(S, b, "BOOKED")
    BY <1>1 DEF BookCommit
  <2>3. S \in (SUBSET Available) \ {{}}
    BY <1>0, <2>1, <2>2 DEF LockedSlots, Bookable, Remembered, Creating
  <2>4. Available \subseteq Owned(Free)
    BY <1>0 DEF Available, Owned, SlotPairing
  <2>5. Claims(b)
    BY <2>2, <2>3, <2>4 DEF Claims, SetSlots
  <2>6. /\ booking'[b].status \notin Closed \cup {"NONE"}
        /\ \A c \in Bookings \ {b} : booking'[c] = booking[c]
    BY <1>0, <1>1, <2>1 DEF BookCommit, Remembered, Creating, TypeOK
  <2> QED
    BY <2>1, <2>5, <2>6 DEF SoundStep
<1>2. ASSUME NEW status, status \in Statuses \ ({"NONE"} \cup Closed), Quiet, Remembered(request[w]),
             request[w].kind \notin Creating \cup {"idle"},
             booking' = [booking EXCEPT ![request[w].b].status = status]
      PROVE  SoundStep
  BY <1>0, <1>2 DEF SoundStep, Created, Remembered, TypeOK, Row
<1>3. ASSUME request[w].kind \notin Creating \cup {"idle"}, Releases(request[w].b),
             NEW row, row.status \in Closed, booking' = [booking EXCEPT ![request[w].b] = row]
      PROVE  SoundStep
  <2>1. request[w].b \in Bookings /\ Created(request[w].b)
    BY <1>0, <1>3 DEF Remembered, Created
  <2>2. /\ \A c \in Bookings : Created(c)' = Created(c)
        /\ \A c \in Bookings \ {request[w].b} : booking'[c] = booking[c]
        /\ booking'[request[w].b].status \in Closed
    BY <1>0, <1>3, <2>1 DEF Created, TypeOK, Closed
  <2> QED
    BY <1>3, <2>1, <2>2 DEF SoundStep
<1>4. CASE ConfirmCommit(w)
  <2>1. /\ request[w].kind \notin Creating \cup {"idle"} /\ Quiet
        /\ booking' = [booking EXCEPT ![request[w].b].status = "BOOKED"]
    BY <1>4 DEF ConfirmCommit, At, Creating, Quiet
  <2>2. "BOOKED" \in Statuses \ ({"NONE"} \cup Closed)
    BY DEF Statuses, Closed
  <2> QED
    BY <1>0, <1>2, <2>1, <2>2
<1>5. CASE AbsentCommit(w)
  <2>1. /\ request[w].kind \notin Creating \cup {"idle"} /\ Quiet
        /\ booking' = [booking EXCEPT ![request[w].b].status = "DISRUPTION_PENDING"]
    BY <1>5 DEF AbsentCommit, At, Creating, Quiet
  <2>2. "DISRUPTION_PENDING" \in Statuses \ ({"NONE"} \cup Closed)
    BY DEF Statuses, Closed
  <2> QED
    BY <1>0, <1>2, <2>1, <2>2
<1>6. CASE ReleaseCommit(w)
  <2>1. Releases(request[w].b)
    BY <1>0, <1>6, FreedReleases DEF ReleaseCommit
  <2>2. [booking[request[w].b] EXCEPT !.status = "CANCELLED"].status \in Closed
    BY <1>0, <1>6 DEF ReleaseCommit, At, Remembered, Creating, TypeOK, Row, Closed
  <2> QED
    BY <1>3, <1>6, <2>1, <2>2 DEF ReleaseCommit, At, Creating
<1>7. CASE RefundCommit(w)
  <2>1. Releases(request[w].b)
    BY <1>0, <1>7, FreedReleases DEF RefundCommit
  <2>2. [booking[request[w].b] EXCEPT !.status = "REFUNDED"].status \in Closed
    BY <1>0, <1>7 DEF RefundCommit, At, Remembered, Creating, TypeOK, Row, Closed
  <2> QED
    BY <1>3, <1>7, <2>1, <2>2 DEF RefundCommit, At, Creating
<1>8. CASE CancelCommit(w)
  <2> DEFINE b == request[w].b
             new == [request[w].row EXCEPT
                       !.status = CancelledStatus(request[w].row, request[w].flag)]
  <2>1. request[w].ids \cap Owned(b) = Owned(b)
    BY <1>0, <1>8 DEF CancelCommit, At, Collected
  <2>2. Releases(b)
    BY <1>0, <1>8, <2>1, FreedReleases DEF CancelCommit, ReleaseIds
  <2>3. new.status \in Closed
    BY <1>0 DEF CancelledStatus, Row, Closed
  <2>4. booking' = [booking EXCEPT ![request[w].b] = new]
    BY <1>8 DEF CancelCommit
  <2>5. request[w].kind \notin Creating \cup {"idle"}
    BY <1>8 DEF CancelCommit, At, Creating
  <2> HIDE DEF new
  <2> QED
    BY <1>3, <2>2, <2>3, <2>4, <2>5
<1>9. CASE CancelCollect(w) \/ RefundLookup(w) \/ RescheduleCollect(w) \/ Abandon(w)
  BY <1>9 DEF CancelCollect, RefundLookup, RescheduleCollect, Abandon, SoundStep, Quiet, Created
<1>10. CASE RestoreCommit(w)
  <2>1. Quiet
    BY <1>0, <1>10, KeptQuiet DEF RestoreCommit
  <2>2. /\ request[w].kind \notin Creating \cup {"idle"}
        /\ booking' = [booking EXCEPT ![request[w].b].status = "BOOKED"]
    BY <1>10 DEF RestoreCommit, At, Creating
  <2>3. "BOOKED" \in Statuses \ ({"NONE"} \cup Closed)
    BY DEF Statuses, Closed
  <2> QED
    BY <1>0, <1>2, <2>1, <2>2, <2>3
<1> QED
  BY <1>1, <1>4, <1>5, <1>6, <1>7, <1>8, <1>9, <1>10 DEF Ends

LEMMA SoundLocked ==
  ASSUME CalendarInv, NEW w \in Workers, NEW b \in Bookings, LockedHandlers(w, b)
  PROVE  SoundStep
<1>0. TypeOK
  BY DEF CalendarInv, PairingInv
<1>1. CASE AutoCancel(w, b)
  <2>1. Releases(b)
    BY <1>0, <1>1, FreedReleases DEF AutoCancel
  <2>2. /\ Created(b) /\ \A c \in Bookings : Created(c)' = Created(c)
        /\ \A c \in Bookings \ {b} : booking'[c] = booking[c]
        /\ booking'[b].status \in Closed
    BY <1>0, <1>1 DEF AutoCancel, Created, TypeOK, Row, Closed
  <2> QED
    BY <2>1, <2>2 DEF SoundStep
<1>2. CASE NotUtilized(w, b)
  <2>1. Quiet
    BY <1>0, <1>2, KeptQuiet DEF NotUtilized
  <2>2. booking' = [booking EXCEPT ![b].status = "BOOKING_NOT_UTILIZED"]
    BY <1>2 DEF NotUtilized
  <2>3. Created(b)
    BY <1>2 DEF NotUtilized, Created
  <2>4. \A c \in Bookings :
          booking'[c].status = IF c = b THEN "BOOKING_NOT_UTILIZED" ELSE booking[c].status
    BY <1>0, <2>2 DEF TypeOK, Row
  <2> QED
    BY <2>1, <2>3, <2>4 DEF SoundStep, Created, Closed
<1>3. CASE Complete(w, b)
  BY <1>0, <1>3 DEF Complete, SoundStep, Quiet, Created, Closed, TypeOK, Row
<1>4. CASE OpenOrder(w, b) \/ CaptureAgain(w, b) \/ LateReport(w, b)
  BY <1>4 DEF OpenOrder, CaptureAgain, LateReport, SoundStep, Quiet, Created
<1>5. CASE Settle(w, b)
  BY <1>0, <1>5 DEF Settle, SoundStep, Quiet, Created, Closed, TypeOK
<1> QED
  BY <1>1, <1>2, <1>3, <1>4, <1>5 DEF LockedHandlers

LEMMA SoundNext ==
  ASSUME CalendarInv, NeverMoved, [Next]_vars
  PROVE  SoundStep
<1>1. CASE UNCHANGED vars
  BY <1>1 DEF vars, SoundStep, Quiet, Created
<1>2. ASSUME NEW w \in Workers, Ends(w)
      PROVE  SoundStep
  <2>1. ~RescheduleCommit(w)
    BY DEF RescheduleCommit, At, CalendarInv, PairingInv, Remembered, NeverMoved
  <2> QED
    BY <1>2, <2>1, SoundEnds DEF NeverMoved
<1> QED
  BY <1>1, <1>2, SoundStarts, SoundLocked DEF Next

LEMMA SoundOwned ==
  ASSUME SoundStep, ConstantsAssumption, NEW b \in Bookings
  PROVE  \/ Owned(b)' = Owned(b)
         \/ Owned(b)' = {}
         \/ Owned(b)' # {} /\ ~Created(b) /\ booking'[b].status \notin Closed
<1>1. CASE Quiet
  BY <1>1, QuietOwned
<1>2. ASSUME NEW c \in Bookings, Releases(c)
      PROVE  Owned(b)' \in {Owned(b), {}}
  BY <1>2, ReleasesOwned
<1>3. ASSUME NEW c \in Bookings, Claims(c)
      PROVE  IF c = b THEN Owned(b)' # {} ELSE Owned(b)' = Owned(b)
  BY <1>3, ClaimsOwned
<1> QED
  BY <1>1, <1>2, <1>3 DEF SoundStep

LEMMA ClosedStep ==
  ASSUME CalendarInv, SoundStep
  PROVE  ClosedHoldsNothing'
<1> SUFFICES ASSUME NEW b \in Bookings, booking'[b].status \in Closed
             PROVE  Owned(b)' = {}
  BY DEF ClosedHoldsNothing
<1>0. booking[b].status \in Closed => Owned(b) = {}
  BY DEF CalendarInv, ClosedHoldsNothing
<1>1. CASE Quiet /\ booking[b].status \in Closed
  BY <1>0, <1>1, QuietOwned
<1>2. ASSUME NEW c \in Bookings, Releases(c), c = b \/ booking'[b] = booking[b]
      PROVE  Owned(b)' = {}
  BY <1>0, <1>2, ReleasesOwned
<1>3. ASSUME NEW c \in Bookings, Claims(c), c # b, booking'[b] = booking[b]
      PROVE  Owned(b)' = {}
  BY <1>0, <1>3, ClaimsOwned
<1> QED
  BY <1>1, <1>2, <1>3 DEF SoundStep

(* Collected slots go stale only by being released by somebody else: a      *)
(* booking a worker remembers has been created, so it claims none.          *)
LEMMA CollectedStays ==
  ASSUME CalendarInv, SoundStep, NEW w \in Workers, request'[w] = request[w]
  PROVE  Collected(request[w])'
<1> DEFINE q == request[w]
<1>1. SUFFICES ASSUME q.kind \in {"cancel", "adminCancel"}, q.step = "collected"
               PROVE  q.ids = Owned(q.b)' \/ Owned(q.b)' = {}
  BY DEF Collected, Owned
<1>2. q.ids = Owned(q.b) \/ Owned(q.b) = {}
  BY <1>1 DEF CalendarInv, Collected
<1>3. q.b \in Bookings /\ Created(q.b)
  BY <1>1 DEF CalendarInv, PairingInv, Remembered, Creating, Created
<1> QED
  BY <1>2, <1>3, SoundOwned, ConstantsAssumption

LEMMA CollectedNext ==
  ASSUME CalendarInv, SoundStep, [Next]_vars, NEW v \in Workers
  PROVE  Collected(request[v])'
<1>0. request \in [Workers -> Request]
  BY DEF CalendarInv, PairingInv, TypeOK
<1>1. CASE request'[v] = request[v]
  BY <1>1, CollectedStays
<1>2. CASE request'[v] = Idle
  BY <1>2 DEF Collected, Idle
<1>3. CASE request'[v].step = "loaded"
  BY <1>3 DEF Collected
<1>4. CASE request'[v].kind \notin {"cancel", "adminCancel"}
  BY <1>4 DEF Collected
<1>5. CASE request'[v].ids = Owned(request[v].b) /\ request'[v].b = request[v].b /\ Quiet
  BY <1>5, QuietOwned DEF Collected, Quiet, Owned
<1>6. ASSUME NEW w \in Workers, Starts(w)
      PROVE  request'[v] = request[v] \/ request'[v].step = "loaded"
  BY <1>0, <1>6 DEF Starts, BookLoad, HoldLoad, CancelLoad, RefundLoad, AbsentLoad,
                    RescheduleLoad, RestoreLoad, Begin
<1>7. ASSUME NEW w \in Workers, CancelCollect(w)
      PROVE  \/ request'[v] = request[v]
             \/ request'[v].ids = Owned(request[v].b) /\ request'[v].b = request[v].b /\ Quiet
  BY <1>0, <1>7 DEF CancelCollect, Continue, Quiet
<1>8. ASSUME NEW w \in Workers, RefundLookup(w) \/ RescheduleCollect(w)
      PROVE  request'[v] = request[v] \/ request'[v].kind \notin {"cancel", "adminCancel"}
  BY <1>0, <1>8 DEF RefundLookup, RescheduleCollect, Continue, At
<1>9. ASSUME NEW w \in Workers, Finish(w)
      PROVE  request'[v] = request[v] \/ request'[v] = Idle
  BY <1>0, <1>9 DEF Finish
<1>10. ASSUME NEW w \in Workers, NEW b \in Bookings, LockedHandlers(w, b)
       PROVE  request'[v] = request[v]
  BY <1>10 DEF LockedHandlers, AutoCancel, Complete, NotUtilized, OpenOrder, Settle, CaptureAgain,
               LateReport
<1>11. ASSUME NEW w \in Workers, Ends(w)
       PROVE  CancelCollect(w) \/ RefundLookup(w) \/ RescheduleCollect(w) \/ Finish(w)
  BY <1>11 DEF Ends, BookCommit, ConfirmCommit, ReleaseCommit, CancelCommit, RefundCommit,
               AbsentCommit, RescheduleCommit, RestoreCommit, Abandon
<1>12. CASE UNCHANGED vars
  BY <1>1, <1>12 DEF vars
<1> QED
  BY <1>1, <1>2, <1>3, <1>4, <1>5, <1>6, <1>7, <1>8, <1>9, <1>10, <1>11, <1>12 DEF Next

LEMMA CalendarInductive ==
  /\ Init => CalendarInv
  /\ CalendarInv /\ NeverMoved /\ [Next]_vars => CalendarInv' /\ SoundStep
<1>1. Init => CalendarInv
  <2> SUFFICES ASSUME Init PROVE CalendarInv
    OBVIOUS
  <2>1. ClosedHoldsNothing
    BY DEF Init, ClosedHoldsNothing, NoRow, Closed
  <2>2. \A w \in Workers : Collected(request[w])
    BY DEF Init, Collected, Idle
  <2> QED
    BY <2>1, <2>2, PairingInductive DEF CalendarInv
<1>2. CalendarInv /\ NeverMoved /\ [Next]_vars => CalendarInv' /\ SoundStep
  <2> SUFFICES ASSUME CalendarInv, NeverMoved, [Next]_vars
               PROVE  CalendarInv' /\ SoundStep
    OBVIOUS
  <2>1. SoundStep
    BY SoundNext
  <2>2. PairingInv'
    BY PairingInductive DEF CalendarInv
  <2> QED
    BY <2>1, <2>2, ClosedStep, CollectedNext DEF CalendarInv
<1> QED
  BY <1>1, <1>2

(* Where nothing moves a booking or books over another, a cancelled,        *)
(* refunded or absent booking owns no slot, although a cancellation         *)
(* releases slots it read before other commits.                             *)
THEOREM ClosedCorrect == NeverMoved => (Spec => []ClosedHoldsNothing)
<1> SUFFICES ASSUME NeverMoved PROVE Spec => []ClosedHoldsNothing
  OBVIOUS
<1>1. Init => CalendarInv
  BY CalendarInductive
<1>2. CalendarInv /\ [Next]_vars => CalendarInv'
  BY CalendarInductive
<1>3. CalendarInv => ClosedHoldsNothing
  BY DEF CalendarInv
<1> QED
  BY <1>1, <1>2, <1>3, PTL DEF Spec

(* What a worker remembers of rows it does not lock is good enough to act   *)
(* on: the booking exists, and the collected slots of a cancellation are    *)
(* all its slots or it has none left.                                       *)
THEOREM CopiesCorrect == NeverMoved => (Spec => []CopiesSound)
<1> SUFFICES ASSUME NeverMoved PROVE Spec => []CopiesSound
  OBVIOUS
<1>1. Init => CalendarInv
  BY CalendarInductive
<1>2. CalendarInv /\ [Next]_vars => CalendarInv'
  BY CalendarInductive
<1>3. CalendarInv => CopiesSound
  BY DEF CalendarInv, PairingInv, CopiesSound, Remembered, Creating, Collected, At
<1> QED
  BY <1>1, <1>2, <1>3, PTL DEF Spec

LEMMA CalendarStep ==
  ASSUME CalendarInv, SoundStep
  PROVE  [Calendar!Next]_(Calendar!vars)
<1> DEFINE stage == [b \in Bookings |-> Stage(b)]
<1>0. slotBooking \in [Slots -> Bookings \cup {Free}]
  BY DEF CalendarInv, PairingInv, TypeOK
<1>1. ASSUME Quiet, \A c \in Bookings : Created(c)' = Created(c)
      PROVE  UNCHANGED Calendar!vars
  <2>1. \A c \in Bookings : Stage(c)' = Stage(c)
    BY <1>1, QuietOwned DEF Stage, Created
  <2> QED
    BY <1>1, <2>1 DEF Calendar!vars, Quiet
<1>2. ASSUME NEW b \in Bookings, Releases(b), Created(b), Owned(b) = {},
             \A c \in Bookings : Created(c)' = Created(c)
      PROVE  UNCHANGED Calendar!vars
  <2>1. Quiet
    BY <1>0, <1>2 DEF Releases, Owned, Quiet
  <2> QED
    BY <1>1, <1>2, <2>1
<1>3. ASSUME NEW b \in Bookings, Releases(b), Created(b), Owned(b) # {},
             \A c \in Bookings : Created(c)' = Created(c)
      PROVE  Calendar!Release(b)
  <2>1. Stage(b) = "holding"
    BY <1>3 DEF Stage, Created
  <2>2. \A c \in Bookings : Stage(c)' = IF c = b THEN "released" ELSE Stage(c)
    BY <1>3, ReleasesOwned DEF Stage, Created
  <2>3. stage' = [stage EXCEPT ![b] = "released"]
    BY <2>2
  <2>4. stage[b] = "holding"
    BY <2>1
  <2> QED
    BY <1>3, <2>3, <2>4 DEF Calendar!Release, Releases
<1>4. ASSUME NEW b \in Bookings, Claims(b), ~Created(b), Created(b)',
             \A c \in Bookings \ {b} : booking'[c] = booking[c]
      PROVE  Calendar!Claim(b)
  <2>1. Stage(b) = "fresh"
    BY <1>4 DEF Stage, Created
  <2>2. \A c \in Bookings : Stage(c)' = IF c = b THEN "holding" ELSE Stage(c)
    BY <1>4, ClaimsOwned DEF Stage, Created
  <2>3. stage' = [stage EXCEPT ![b] = "holding"]
    BY <2>2
  <2>4. stage[b] = "fresh"
    BY <2>1
  <2> QED
    BY <1>4, <2>3, <2>4 DEF Calendar!Claim, Calendar!FreeSlots, Claims, Owned
<1> QED
  BY <1>1, <1>2, <1>3, <1>4 DEF SoundStep, Calendar!Next, Created

(* Where nothing moves a booking or books over another, the interleaved     *)
(* requests implement the calendar: every booking takes free slots in one   *)
(* step, keeps them, and gives all of them back in one step, for good.      *)
THEOREM CalendarRefinement == NeverMoved => (Spec => ImplementsCalendar)
<1> SUFFICES ASSUME NeverMoved PROVE Spec => ImplementsCalendar
  OBVIOUS
<1>1. Init => CalendarInv /\ Calendar!Init
  <2>1. Init => Calendar!Init
    BY DEF Init, Calendar!Init, Stage, NoRow
  <2> QED
    BY <2>1, CalendarInductive
<1>2. CalendarInv /\ [Next]_vars => CalendarInv' /\ [Calendar!Next]_(Calendar!vars)
  BY CalendarInductive, CalendarStep
<1> QED
  BY <1>1, <1>2, PTL DEF Spec, ImplementsCalendar, Calendar!Spec
=============================================================================
