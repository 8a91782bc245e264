------------------------------ MODULE MCBooking ------------------------------
(* Small instances of BookingLifecycle: two daily slots, two booking rows,   *)
(* one internal and one external user who can pay one booking, not two.      *)
EXTENDS BookingLifecycle, TLC

CONSTANTS s1, s2, s3, b1, b2, student, company, w1, w2

MCUsers == {student, company}
MCExternal == {company}
CompanyOnly == {company}
MCSlots == {s1, s2}
ThreeSlots == {s1, s2, s3}
MCBookings == {b1, b2}
OneWorker == {w1}
TwoWorkers == {w1, w2}

(* Slots, rows and workers are interchangeable. *)
Symmetry == Permutations(MCSlots) \cup Permutations(MCBookings) \cup Permutations(TwoWorkers)

(* One request at a time: everything but staff booking over others and     *)
(* second captures, which do not keep each booking's slots and money.       *)
SequentialKinds == AllKinds \ {"adminBook", "payAgain"}

(* Overlapping requests that end bookings, and the ones they race with.      *)
(* Staff can cancel whatever a user can; late payments are in the next one.  *)
OverlapKinds == {"book", "hold", "confirm", "release", "adminCancel", "refund",
                 "absent", "autoCancel"}

(* Staff at work while users book and pay. *)
StaffKinds == {"book", "adminBook", "pay", "payAgain", "adminCancel", "refund", "complete",
               "notUtilized", "restore"}

(* A user books while another moves a booking. *)
MoveKinds == {"book", "reschedule"}

(* A user's own cancellations. *)
CancelKinds == {"book", "cancel"}
=============================================================================
