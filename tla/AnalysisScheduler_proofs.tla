---------------------- MODULE AnalysisScheduler_proofs ----------------------
(***************************************************************************)
(* The analysis PCs, their queue and their desktops, for any number of     *)
(* reservations, PCs, sessions and workers.                                *)
(***************************************************************************)
EXTENDS AnalysisScheduler, InductionLemmas

(* The tables as the services take and return them. *)
Row == [status : Holding \cup Terminal \cup {"NONE", "QUEUED"}, pc : Pcs \cup {NoPc},
        timer : {"off", "running", "due"}, missed : Nat]

EntryStatus == {"NONE", "WAITING", "RESERVED", "EXPIRED", "CANCELLED"}

TableSet == [res : [Reservations -> Row], entry : [Reservations -> EntryStatus],
             order : Seq(Reservations), pc : [Pcs -> PcStatuses]]

SomePc == Pcs \cup {NoPc}

(* What every service keeps: no PC becomes OFFLINE, nobody leaves the       *)
(* order, nobody waits outside of it.                                       *)
Frame(t, u) ==
  /\ u \in TableSet
  /\ \A w \in Pcs : u.pc[w] = "OFFLINE" => t.pc[w] = "OFFLINE"
  /\ Elems(t.order) \subseteq Elems(u.order)
  /\ \A o \in Reservations : u.entry[o] = "WAITING" => t.entry[o] = "WAITING" \/ o \in Elems(u.order)

(* ... and of the rows it leaves alone. *)
RowsKept(t, u, S) == \A o \in S : u.res[o] = t.res[o] /\ u.entry[o] = t.entry[o]

LEMMA FrameRefl == ASSUME NEW t \in TableSet PROVE Frame(t, t)
BY DEF Frame

LEMMA FrameTrans ==
  ASSUME NEW t, NEW u, NEW v, Frame(t, u), Frame(u, v)
  PROVE  Frame(t, v)
BY DEF Frame

LEMMA ContainsElems == ASSUME NEW q, NEW e PROVE Contains(q, e) <=> e \in Elems(q)
BY DEF Contains, Elems

LEMMA EnqueueRow ==
  ASSUME NEW t \in TableSet, NEW r \in Reservations, NEW b \in BOOLEAN
  PROVE  /\ Frame(t, Enqueue(t, r, b)) /\ RowsKept(t, Enqueue(t, r, b), Reservations \ {r})
         /\ Enqueue(t, r, b).res = t.res /\ Enqueue(t, r, b).pc = t.pc
         /\ Enqueue(t, r, b).entry[r] = "WAITING" /\ r \in Elems(Enqueue(t, r, b).order)
         /\ ~b /\ r \in Elems(t.order) => Enqueue(t, r, b).order = t.order
<1> DEFINE order1 == IF ~Contains(t.order, r) THEN Append(t.order, r)
                     ELSE IF b THEN Append(Kept(t.order, Reservations \ {r}), r)
                     ELSE t.order
           kept == Kept(t.order, Reservations \ {r})
<1>1. t.order \in Seq(Reservations) /\ Elems(t.order) \subseteq Reservations
  <2>1. t.order \in Seq(Reservations)
    BY DEF TableSet
  <2> QED
    BY <2>1, ElementOfSeq DEF Elems
<1>2. kept \in Seq(Reservations) /\ Elems(kept) = Elems(t.order) \cap (Reservations \ {r})
  BY <1>1, KeptElems
<1>3. /\ order1 \in Seq(Reservations) /\ Elems(t.order) \subseteq Elems(order1)
      /\ r \in Elems(order1)
      /\ ~b /\ r \in Elems(t.order) => order1 = t.order
  <2>1. CASE ~Contains(t.order, r)
    BY <2>1, <1>1, AppendElems, ContainsElems
  <2>2. CASE Contains(t.order, r) /\ b
    <3>1. order1 = Append(kept, r)
      BY <2>2
    <3> HIDE DEF kept, order1
    <3>2. /\ Append(kept, r) \in Seq(Reservations)
          /\ Elems(Append(kept, r)) = Elems(kept) \cup {r}
      BY <1>2, AppendElems
    <3>3. order1 \in Seq(Reservations) /\ r \in Elems(order1)
      BY <3>1, <3>2
    <3>4. Elems(t.order) \subseteq Elems(order1)
      BY <3>1, <3>2, <1>1, <1>2
    <3> QED
      BY <2>2, <3>3, <3>4
  <2>3. CASE Contains(t.order, r) /\ ~b
    BY <2>3, <1>1, ContainsElems
  <2> QED
    BY <2>1, <2>2, <2>3
<1>4. Enqueue(t, r, b) = [t EXCEPT !.entry[r] = "WAITING", !.order = order1]
  BY DEF Enqueue
<1> HIDE DEF order1, kept
<1>5. /\ Enqueue(t, r, b) \in TableSet
      /\ Enqueue(t, r, b).res = t.res /\ Enqueue(t, r, b).pc = t.pc
      /\ Enqueue(t, r, b).entry = [t.entry EXCEPT ![r] = "WAITING"]
      /\ Enqueue(t, r, b).order = order1
  <2> DEFINE entry1 == [t.entry EXCEPT ![r] = "WAITING"]
  <2>1. entry1 \in [Reservations -> EntryStatus]
    BY DEF TableSet, EntryStatus
  <2>2. Enqueue(t, r, b) = [t EXCEPT !.entry = entry1, !.order = order1]
    BY <1>4 DEF TableSet
  <2> HIDE DEF entry1
  <2>3. /\ [t EXCEPT !.entry = entry1, !.order = order1] \in TableSet
        /\ [t EXCEPT !.entry = entry1, !.order = order1].res = t.res
        /\ [t EXCEPT !.entry = entry1, !.order = order1].pc = t.pc
        /\ [t EXCEPT !.entry = entry1, !.order = order1].entry = entry1
        /\ [t EXCEPT !.entry = entry1, !.order = order1].order = order1
    BY <1>3, <2>1 DEF TableSet
  <2> QED
    BY <2>2, <2>3 DEF entry1
<1> QED
  BY <1>3, <1>5 DEF Frame, RowsKept, TableSet

LEMMA DequeueRow ==
  ASSUME NEW t \in TableSet, NEW r \in Reservations, NEW st \in EntryStatus \ {"NONE", "WAITING"}
  PROVE  /\ Frame(t, Dequeue(t, r, st)) /\ RowsKept(t, Dequeue(t, r, st), Reservations \ {r})
         /\ Dequeue(t, r, st).res = t.res /\ Dequeue(t, r, st).pc = t.pc
         /\ Dequeue(t, r, st).order = t.order
         /\ Dequeue(t, r, st).entry[r] # "WAITING"
<1>1. /\ Dequeue(t, r, st) \in TableSet
      /\ Dequeue(t, r, st).res = t.res /\ Dequeue(t, r, st).pc = t.pc
      /\ Dequeue(t, r, st).entry = [t.entry EXCEPT ![r] = IF @ = "NONE" THEN @ ELSE st]
      /\ Dequeue(t, r, st).order = t.order
  BY DEF Dequeue, TableSet, EntryStatus
<1> QED
  BY <1>1 DEF Frame, RowsKept, TableSet

LEMMA FreePcRow ==
  ASSUME NEW t \in TableSet, NEW r \in Reservations, NEW w \in SomePc, NEW seen
  PROVE  /\ Frame(t, FreePc(t, r, w, seen)) /\ RowsKept(t, FreePc(t, r, w, seen), Reservations)
         /\ FreePc(t, r, w, seen).res = t.res /\ FreePc(t, r, w, seen).order = t.order
         /\ FreePc(t, r, w, seen).entry = t.entry
         /\ w = NoPc => FreePc(t, r, w, seen) = t
<1>1. CASE FreePc(t, r, w, seen) = t
  BY <1>1 DEF Frame, RowsKept
<1>2. CASE w # NoPc /\ FreePc(t, r, w, seen) = [t EXCEPT !.pc[w] = "AVAILABLE"]
  <2>1. /\ FreePc(t, r, w, seen) \in TableSet
        /\ FreePc(t, r, w, seen).res = t.res /\ FreePc(t, r, w, seen).entry = t.entry
        /\ FreePc(t, r, w, seen).order = t.order /\ FreePc(t, r, w, seen).pc = [t.pc EXCEPT ![w] = "AVAILABLE"]
    BY <1>2 DEF TableSet, PcStatuses, SomePc
  <2> QED
    BY <1>2, <2>1 DEF Frame, RowsKept, TableSet
<1> QED
  BY <1>1, <1>2 DEF FreePc

(* A table with a new row for r.                                            *)
LEMMA SetRow ==
  ASSUME NEW t \in TableSet, NEW r \in Reservations, NEW row \in Row
  PROVE  /\ Frame(t, [t EXCEPT !.res[r] = row])
         /\ RowsKept(t, [t EXCEPT !.res[r] = row], Reservations \ {r})
         /\ [t EXCEPT !.res[r] = row].res[r] = row
         /\ [t EXCEPT !.res[r] = row].entry = t.entry
         /\ [t EXCEPT !.res[r] = row].pc = t.pc
         /\ [t EXCEPT !.res[r] = row].order = t.order
<1>1. /\ [t EXCEPT !.res[r] = row] \in TableSet
      /\ [t EXCEPT !.res[r] = row].res = [t.res EXCEPT ![r] = row]
      /\ [t EXCEPT !.res[r] = row].entry = t.entry
      /\ [t EXCEPT !.res[r] = row].pc = t.pc
      /\ [t EXCEPT !.res[r] = row].order = t.order
  BY DEF TableSet
<1> QED
  BY <1>1 DEF Frame, RowsKept, TableSet

Status == Holding \cup Terminal \cup {"NONE", "QUEUED"}

LEMMA SetStatus ==
  ASSUME NEW t \in TableSet, NEW r \in Reservations, NEW st \in Status
  PROVE  /\ [t.res[r] EXCEPT !.status = st] \in Row
         /\ [t EXCEPT !.res[r].status = st] = [t EXCEPT !.res[r] = [t.res[r] EXCEPT !.status = st]]
         /\ [t.res[r] EXCEPT !.status = st].status = st
         /\ [t.res[r] EXCEPT !.status = st].pc = t.res[r].pc
         /\ [t.res[r] EXCEPT !.status = st].missed = t.res[r].missed
BY DEF TableSet, Row, Status

(* What a decision about r leaves of it: cancelled, expired, queued, or     *)
(* holding w.                                                               *)
Decided(t, u, r, w) ==
  /\ Frame(t, u) /\ RowsKept(t, u, Reservations \ {r})
  /\ u.res[r].status \in {"CANCELLED", "EXPIRED", "QUEUED", "AWAITING_CHECKIN"}
  /\ u.res[r].status = "QUEUED" <=> u.entry[r] = "WAITING"
  /\ u.res[r].status = "AWAITING_CHECKIN" => w \in Pcs /\ u.res[r].pc = w
  /\ u.res[r].status # "AWAITING_CHECKIN" => u.res[r].pc = t.res[r].pc
  /\ u.res[r].status = "QUEUED" => w = NoPc
  /\ u.res[r].missed = t.res[r].missed
  /\ r \in Elems(t.order) => u.order = t.order
  /\ w = NoPc /\ t.res[r].pc = NoPc => u.pc = t.pc
  /\ t.res[r].pc = NoPc => \A v \in Pcs : u.pc[v] = "AVAILABLE" => t.pc[v] = "AVAILABLE"

LEMMA CancelHoldRow ==
  ASSUME NEW t \in TableSet, NEW r \in Reservations, NEW w \in SomePc, t.res[r].pc = w, NEW seen, NEW c
  PROVE  Decided(t, CancelHold(t, r, w, seen), r, c)
<1> DEFINE row == [t.res[r] EXCEPT !.status = "CANCELLED"]
           t1 == [t EXCEPT !.res[r].status = "CANCELLED"]
           t2 == Dequeue(t1, r, "CANCELLED")
           t3 == FreePc(t2, r, w, seen)
<1>1. CancelHold(t, r, w, seen) = t3
  BY DEF CancelHold
<1>2. /\ Frame(t, t1) /\ RowsKept(t, t1, Reservations \ {r})
      /\ t1.res[r] = row /\ t1.entry = t.entry /\ t1.pc = t.pc /\ t1.order = t.order
      /\ row.status = "CANCELLED" /\ row.pc = w /\ row.missed = t.res[r].missed
  <2>1. "CANCELLED" \in Status
    BY DEF Status, Terminal
  <2>2. /\ row \in Row /\ t1 = [t EXCEPT !.res[r] = row]
        /\ row.status = "CANCELLED" /\ row.pc = w /\ row.missed = t.res[r].missed
    BY <2>1, SetStatus
  <2> HIDE DEF row, t1
  <2> QED
    BY <2>2, SetRow
<1> HIDE DEF row, t1
<1>3. /\ Frame(t1, t2) /\ RowsKept(t1, t2, Reservations \ {r})
      /\ t2.res = t1.res /\ t2.pc = t1.pc /\ t2.order = t1.order /\ t2.entry[r] # "WAITING"
  <2>1. t1 \in TableSet /\ "CANCELLED" \in EntryStatus \ {"NONE", "WAITING"}
    BY <1>2 DEF Frame, EntryStatus
  <2> QED
    BY <2>1, DequeueRow
<1> HIDE DEF t2
<1>4. /\ Frame(t2, t3) /\ RowsKept(t2, t3, Reservations)
      /\ t3.res = t2.res /\ t3.order = t2.order /\ t3.entry = t2.entry
      /\ w = NoPc => t3 = t2
  <2>1. t2 \in TableSet
    BY <1>3 DEF Frame
  <2> QED
    BY <2>1, FreePcRow
<1> HIDE DEF t3
<1>5. Frame(t, t3)
  BY <1>2, <1>3, <1>4, FrameTrans
<1>6. RowsKept(t, t3, Reservations \ {r})
  BY <1>2, <1>3, <1>4 DEF RowsKept
<1> QED
  BY <1>1, <1>2, <1>3, <1>4, <1>5, <1>6 DEF Decided

(* The three other outcomes of allocate. *)
LEMMA ExpireRow ==
  ASSUME NEW t \in TableSet, NEW r \in Reservations, NEW w
  PROVE  Decided(t, Dequeue([t EXCEPT !.res[r].status = "EXPIRED"], r, "EXPIRED"), r, w)
<1> DEFINE row == [t.res[r] EXCEPT !.status = "EXPIRED"]
           t1 == [t EXCEPT !.res[r].status = "EXPIRED"]
           t2 == Dequeue(t1, r, "EXPIRED")
<1>1. /\ Frame(t, t1) /\ RowsKept(t, t1, Reservations \ {r})
      /\ t1.res[r] = row /\ t1.entry = t.entry /\ t1.pc = t.pc /\ t1.order = t.order
      /\ row.status = "EXPIRED" /\ row.pc = t.res[r].pc /\ row.missed = t.res[r].missed
  <2>1. "EXPIRED" \in Status
    BY DEF Status, Terminal
  <2>2. /\ row \in Row /\ t1 = [t EXCEPT !.res[r] = row]
        /\ row.status = "EXPIRED" /\ row.pc = t.res[r].pc /\ row.missed = t.res[r].missed
    BY <2>1, SetStatus
  <2> HIDE DEF row, t1
  <2> QED
    BY <2>2, SetRow
<1> HIDE DEF row, t1
<1>2. /\ Frame(t1, t2) /\ RowsKept(t1, t2, Reservations \ {r})
      /\ t2.res = t1.res /\ t2.pc = t1.pc /\ t2.order = t1.order /\ t2.entry[r] # "WAITING"
  <2>1. t1 \in TableSet /\ "EXPIRED" \in EntryStatus \ {"NONE", "WAITING"}
    BY <1>1 DEF Frame, EntryStatus
  <2> QED
    BY <2>1, DequeueRow
<1> HIDE DEF t2
<1>3. Frame(t, t2) /\ RowsKept(t, t2, Reservations \ {r})
  BY <1>1, <1>2, FrameTrans DEF RowsKept
<1>4. Decided(t, t2, r, w)
  BY <1>1, <1>2, <1>3 DEF Decided
<1> QED
  BY <1>4 DEF t1, t2

LEMMA QueueRow ==
  ASSUME NEW t \in TableSet, NEW r \in Reservations
  PROVE  Decided(t, Enqueue([t EXCEPT !.res[r].status = "QUEUED"], r, FALSE), r, NoPc)
<1> DEFINE row == [t.res[r] EXCEPT !.status = "QUEUED"]
           t1 == [t EXCEPT !.res[r].status = "QUEUED"]
<1> PICK b \in BOOLEAN : b = FALSE
  OBVIOUS
<1> DEFINE t2 == Enqueue(t1, r, b)
<1>1. /\ Frame(t, t1) /\ RowsKept(t, t1, Reservations \ {r})
      /\ t1.res[r] = row /\ t1.entry = t.entry /\ t1.pc = t.pc /\ t1.order = t.order
      /\ row.status = "QUEUED" /\ row.pc = t.res[r].pc /\ row.missed = t.res[r].missed
  <2>1. "QUEUED" \in Status
    BY DEF Status
  <2>2. /\ row \in Row /\ t1 = [t EXCEPT !.res[r] = row]
        /\ row.status = "QUEUED" /\ row.pc = t.res[r].pc /\ row.missed = t.res[r].missed
    BY <2>1, SetStatus
  <2> HIDE DEF row, t1
  <2> QED
    BY SMTT(30), <2>2, SetRow
<1> HIDE DEF row, t1
<1>2. /\ Frame(t1, t2) /\ RowsKept(t1, t2, Reservations \ {r})
      /\ t2.res = t1.res /\ t2.pc = t1.pc /\ t2.entry[r] = "WAITING"
      /\ ~b /\ r \in Elems(t1.order) => t2.order = t1.order
  <2>1. t1 \in TableSet
    BY <1>1 DEF Frame
  <2> QED
    BY <2>1, EnqueueRow
<1>3. t2 = Enqueue(t1, r, FALSE)
  OBVIOUS
<1> HIDE DEF t2
<1>4. Frame(t, t2) /\ RowsKept(t, t2, Reservations \ {r})
  BY <1>1, <1>2, FrameTrans DEF RowsKept
<1>5. Decided(t, t2, r, NoPc)
  BY <1>1, <1>2, <1>4 DEF Decided
<1> QED
  BY <1>3, <1>5 DEF t1

LEMMA HoldRow ==
  ASSUME NEW t \in TableSet, NEW r \in Reservations, NEW w \in Pcs
  PROVE  Decided(t, Dequeue([t EXCEPT !.res[r] = [@ EXCEPT !.status = "AWAITING_CHECKIN",
                                                  !.pc = w, !.timer = "running"],
                                      !.pc[w] = "RESERVED"], r, "RESERVED"), r, w)
<1> DEFINE row == [t.res[r] EXCEPT !.status = "AWAITING_CHECKIN", !.pc = w, !.timer = "running"]
           t1 == [t EXCEPT !.res[r] = row, !.pc[w] = "RESERVED"]
           t2 == Dequeue(t1, r, "RESERVED")
<1>0. t1 = [t EXCEPT !.res[r] = [@ EXCEPT !.status = "AWAITING_CHECKIN", !.pc = w,
                                          !.timer = "running"],
                     !.pc[w] = "RESERVED"]
  OBVIOUS
<1>1. /\ row \in Row /\ row.status = "AWAITING_CHECKIN" /\ row.pc = w
      /\ row.missed = t.res[r].missed
  BY DEF TableSet, Row, Holding
<1> HIDE DEF row
<1>2. /\ t1 \in TableSet /\ t1.res = [t.res EXCEPT ![r] = row]
      /\ t1.entry = t.entry /\ t1.pc = [t.pc EXCEPT ![w] = "RESERVED"] /\ t1.order = t.order
  <2> DEFINE res1 == [t.res EXCEPT ![r] = row]
             pc1 == [t.pc EXCEPT ![w] = "RESERVED"]
  <2>1. res1 \in [Reservations -> Row] /\ pc1 \in [Pcs -> PcStatuses]
    BY <1>1 DEF TableSet, PcStatuses, Sticky
  <2>2. t1 = [t EXCEPT !.res = res1, !.pc = pc1]
    BY DEF TableSet
  <2> HIDE DEF res1, pc1
  <2>3. /\ [t EXCEPT !.res = res1, !.pc = pc1] \in TableSet
        /\ [t EXCEPT !.res = res1, !.pc = pc1].res = res1
        /\ [t EXCEPT !.res = res1, !.pc = pc1].entry = t.entry
        /\ [t EXCEPT !.res = res1, !.pc = pc1].pc = pc1
        /\ [t EXCEPT !.res = res1, !.pc = pc1].order = t.order
    BY <2>1 DEF TableSet
  <2> QED
    BY <2>2, <2>3 DEF res1, pc1
<1>3. /\ Frame(t, t1) /\ RowsKept(t, t1, Reservations \ {r})
      /\ t1.res[r] = row
      /\ \A v \in Pcs : t1.pc[v] = "AVAILABLE" => t.pc[v] = "AVAILABLE"
  BY <1>2 DEF Frame, RowsKept, TableSet
<1>4. /\ Frame(t1, t2) /\ RowsKept(t1, t2, Reservations \ {r})
      /\ t2.res = t1.res /\ t2.pc = t1.pc /\ t2.order = t1.order /\ t2.entry[r] # "WAITING"
  <2>1. "RESERVED" \in EntryStatus \ {"NONE", "WAITING"}
    BY DEF EntryStatus
  <2> HIDE DEF t1
  <2> QED
    BY <1>2, <2>1, DequeueRow
<1>5. t2 = Dequeue([t EXCEPT !.res[r] = [@ EXCEPT !.status = "AWAITING_CHECKIN", !.pc = w,
                                                !.timer = "running"],
                           !.pc[w] = "RESERVED"], r, "RESERVED")
  BY <1>0
<1> HIDE DEF t1, t2
<1>6. Frame(t, t2) /\ RowsKept(t, t2, Reservations \ {r})
  BY <1>3, <1>4, FrameTrans DEF RowsKept
<1>7. Decided(t, t2, r, w)
  <2>1. w # NoPc
    BY SchedulerAssumption
  <2> QED
    BY <1>1, <1>2, <1>3, <1>4, <1>6, <2>1 DEF Decided
<1> QED
  BY <1>5, <1>7

LEMMA AllocateRow ==
  ASSUME NEW t \in TableSet, NEW r \in Reservations, NEW w \in SomePc
  PROVE  Decided(t, Allocate(t, r, w), r, w)
<1>1. CASE IneligibleHold(r, t.res[r].status)
  <2>1. t.res[r].pc \in SomePc /\ Allocate(t, r, w) = CancelHold(t, r, t.res[r].pc, t.pc)
    BY <1>1 DEF TableSet, Row, SomePc, Allocate
  <2> QED
    BY <2>1, CancelHoldRow
<1>2. CASE ~IneligibleHold(r, t.res[r].status) /\ booking[r].time = "over"
  <2>1. Allocate(t, r, w) = Dequeue([t EXCEPT !.res[r].status = "EXPIRED"], r, "EXPIRED")
    BY <1>2 DEF Allocate
  <2> QED
    BY <2>1, ExpireRow
<1>3. CASE ~IneligibleHold(r, t.res[r].status) /\ booking[r].time # "over" /\ w = NoPc
  <2>1. Allocate(t, r, w) = Enqueue([t EXCEPT !.res[r].status = "QUEUED"], r, FALSE)
    BY <1>3 DEF Allocate
  <2> QED
    BY <1>3, <2>1, QueueRow
<1>4. CASE ~IneligibleHold(r, t.res[r].status) /\ booking[r].time # "over" /\ w # NoPc
  <2>1. Allocate(t, r, w)
        = Dequeue([t EXCEPT !.res[r] = [@ EXCEPT !.status = "AWAITING_CHECKIN", !.pc = w,
                                                !.timer = "running"],
                            !.pc[w] = "RESERVED"], r, "RESERVED")
    BY <1>4 DEF Allocate
  <2> QED
    BY <1>4, <2>1, HoldRow DEF SomePc
<1> QED
  BY <1>1, <1>2, <1>3, <1>4

-----------------------------------------------------------------------------
(* The end of a hold, by its timer or its user: it is queued last, or       *)
(* cancelled.                                                               *)
LastIn(u, t, r) ==
  u.order = IF r \in Elems(t.order) THEN Append(Kept(t.order, Reservations \ {r}), r)
            ELSE Append(t.order, r)

Ended(t, u, r) ==
  /\ Frame(t, u) /\ RowsKept(t, u, Reservations \ {r})
  /\ u.res[r].status \in {"QUEUED", "CANCELLED"} /\ u.res[r].pc = NoPc
  /\ u.res[r].status = "QUEUED" => u.entry[r] = "WAITING" /\ LastIn(u, t, r)
  /\ u.res[r].status = "CANCELLED" => u.entry[r] = t.entry[r] /\ u.order = t.order

LEMMA EndedRow ==
  ASSUME NEW t \in TableSet, NEW r \in Reservations, NEW missed \in BOOLEAN
  PROVE  Ended(t, ReleaseHold(t, r, missed), r)
<1> DEFINE w == t.res[r].pc
           n == t.res[r].missed + (IF missed THEN 1 ELSE 0)
           pc1 == [v \in Pcs |-> IF v = w /\ t.pc[v] = "RESERVED" THEN "AVAILABLE" ELSE t.pc[v]]
           row(st) == [status |-> st, pc |-> NoPc, timer |-> "off", missed |-> n]
           freed == [t EXCEPT !.pc = pc1, !.res[r] = row("QUEUED")]
           ended == [freed EXCEPT !.res[r].status = "CANCELLED"]
<1>1. ReleaseHold(t, r, missed) = IF missed /\ n >= MissedLimit THEN ended
                                  ELSE Enqueue(freed, r, TRUE)
  BY DEF ReleaseHold
<1>2. /\ n \in Nat /\ row("QUEUED") \in Row /\ row("CANCELLED") \in Row
  BY DEF TableSet, Row, Terminal
<1>3. pc1 \in [Pcs -> PcStatuses] /\ \A v \in Pcs : pc1[v] = "OFFLINE" => t.pc[v] = "OFFLINE"
  BY DEF TableSet, PcStatuses
<1> HIDE DEF n, w, pc1
<1>4. /\ freed \in TableSet /\ freed.res = [t.res EXCEPT ![r] = row("QUEUED")]
      /\ freed.entry = t.entry /\ freed.order = t.order /\ freed.pc = pc1
  BY <1>2, <1>3 DEF TableSet
<1>5. /\ ended \in TableSet /\ ended.res = [t.res EXCEPT ![r] = row("CANCELLED")]
      /\ ended.entry = t.entry /\ ended.order = t.order /\ ended.pc = pc1
  <2>1. freed.res[r] = row("QUEUED") /\ "CANCELLED" \in Status
    BY <1>4 DEF TableSet, Status, Terminal
  <2>2. [row("QUEUED") EXCEPT !.status = "CANCELLED"] = row("CANCELLED")
    OBVIOUS
  <2> HIDE DEF freed, row
  <2>3. ended = [freed EXCEPT !.res[r] = row("CANCELLED")]
    BY <1>4, <2>1, <2>2, SetStatus
  <2> HIDE DEF ended
  <2> QED
    BY <1>2, <1>4, <2>3 DEF TableSet
<1>6. row("QUEUED").status = "QUEUED" /\ row("CANCELLED").status = "CANCELLED"
      /\ row("QUEUED").pc = NoPc /\ row("CANCELLED").pc = NoPc
  OBVIOUS
<1> HIDE DEF ended, freed, row
<1>7. CASE ReleaseHold(t, r, missed) = ended
  <2>1. Ended(t, ended, r)
    BY <1>3, <1>5, <1>6 DEF Ended, Frame, RowsKept, TableSet
  <2> QED
    BY <1>7, <2>1
<1>8. CASE ReleaseHold(t, r, missed) = Enqueue(freed, r, TRUE)
  <2> PICK b \in BOOLEAN : b = TRUE
    OBVIOUS
  <2> DEFINE u == Enqueue(freed, r, b)
  <2>1. /\ Frame(freed, u) /\ RowsKept(freed, u, Reservations \ {r})
        /\ u.res = freed.res /\ u.pc = freed.pc /\ u.entry[r] = "WAITING"
    BY <1>4, EnqueueRow
  <2>2. LastIn(u, t, r)
    <3> DEFINE order1 == IF ~Contains(freed.order, r) THEN Append(freed.order, r)
                         ELSE IF b THEN Append(Kept(freed.order, Reservations \ {r}), r)
                         ELSE freed.order
    <3>1. u = [freed EXCEPT !.entry[r] = "WAITING", !.order = order1]
      BY DEF Enqueue
    <3>2. order1 = IF r \in Elems(t.order) THEN Append(Kept(t.order, Reservations \ {r}), r)
                   ELSE Append(t.order, r)
      BY <1>4, ContainsElems
    <3> HIDE DEF order1
    <3>3. u.order = order1
      BY <1>4, <3>1 DEF TableSet
    <3> QED
      BY <3>2, <3>3 DEF LastIn
  <2>3. ReleaseHold(t, r, missed) = u
    BY <1>8
  <2> HIDE DEF u
  <2>4. Frame(t, freed) /\ RowsKept(t, freed, Reservations \ {r})
    BY <1>3, <1>4 DEF Frame, RowsKept, TableSet
  <2>5. Frame(t, u) /\ RowsKept(t, u, Reservations \ {r})
    BY <2>1, <2>4, FrameTrans DEF RowsKept
  <2>6. u.res[r] = row("QUEUED")
    BY <1>4, <2>1 DEF TableSet
  <2>7. Ended(t, u, r)
    BY <1>6, <2>1, <2>2, <2>5, <2>6 DEF Ended
  <2> QED
    BY <2>3, <2>7
<1> QED
  BY <1>1, <1>7, <1>8

-----------------------------------------------------------------------------
(* The job that serves the queue. *)

LEMMA BestPc ==
  ASSUME NEW t \in TableSet, NEW r \in Reservations
  PROVE  /\ Best(t, r) \in SomePc
         /\ Best(t, r) # NoPc =>
               /\ t.pc[Best(t, r)] = "AVAILABLE"
               /\ \A o \in Holders(t, Best(t, r)) \ {r} : booking[o].time = "over"
<1> DEFINE free == {w \in Pcs : /\ t.pc[w] = "AVAILABLE"
                                /\ \A o \in Holders(t, w) \ {r} : booking[o].time = "over"}
<1>1. Best(t, r) = IF free = {} THEN NoPc ELSE CHOOSE w \in free : TRUE
  BY DEF Best
<1>2. free # {} => Best(t, r) \in free
  BY <1>1
<1> QED
  BY <1>1, <1>2 DEF SomePc

(* What the service of r does: nothing, the end of its entry, or a decision.*)
Closes(t, u, r) ==
  /\ Frame(t, u) /\ RowsKept(t, u, Reservations \ {r})
  /\ u.res = t.res /\ u.pc = t.pc /\ u.order = t.order /\ u.entry[r] # "WAITING"

LEMMA ServeRow ==
  ASSUME NEW t \in TableSet, NEW r \in Reservations
  PROVE  \/ t.entry[r] # "WAITING" /\ Serve(t, r) = t
         \/ t.res[r].status \in Terminal /\ Closes(t, Serve(t, r), r)
         \/ /\ t.res[r].status \notin Terminal /\ t.entry[r] = "WAITING"
            /\ Decided(t, Serve(t, r), r, Best(t, r))
<1>1. CASE t.entry[r] # "WAITING"
  BY <1>1 DEF Serve
<1>2. CASE t.entry[r] = "WAITING" /\ t.res[r].status \in Terminal
  <2>1. "CANCELLED" \in EntryStatus \ {"NONE", "WAITING"}
    BY DEF EntryStatus
  <2>2. Serve(t, r) = Dequeue(t, r, "CANCELLED")
    BY <1>2 DEF Serve
  <2> QED
    BY <1>2, <2>1, <2>2, DequeueRow DEF Closes
<1>3. CASE t.entry[r] = "WAITING" /\ t.res[r].status \notin Terminal
  <2>1. Serve(t, r) = Allocate(t, r, Best(t, r)) /\ Best(t, r) \in SomePc
    BY <1>3, BestPc DEF Serve
  <2> QED
    BY <1>3, <2>1, AllocateRow
<1> QED
  BY <1>1, <1>2, <1>3

LEMMA ServeFrame ==
  ASSUME NEW t \in TableSet, NEW r \in Reservations
  PROVE  Frame(t, Serve(t, r)) /\ RowsKept(t, Serve(t, r), Reservations \ {r})
<1> HIDE DEF Serve
<1>1. Frame(t, t) /\ RowsKept(t, t, Reservations \ {r})
  BY FrameRefl DEF RowsKept
<1> QED
  BY <1>1, ServeRow DEF Closes, Decided

(* What the function in ServeAll is, entry by entry; it exists. *)
ServedFrom(f, t, list) ==
  /\ f \in [0..Len(list) -> TableSet] /\ f[0] = t
  /\ \A i \in 1..Len(list) : f[i] = Serve(f[i - 1], list[i])

LEMMA WaitingList ==
  ASSUME NEW t \in TableSet
  PROVE  /\ Waiting(t) \in Seq(Reservations)
         /\ Elems(Waiting(t)) = Elems(t.order) \cap {r \in Reservations : t.entry[r] = "WAITING"}
BY KeptElems DEF Waiting, TableSet

LEMMA ServedEntries ==
  ASSUME NEW t \in TableSet
  PROVE  \E f : ServedFrom(f, t, Waiting(t)) /\ ServeAll(t) = f[Len(Waiting(t))]
<1> DEFINE q == Waiting(t)
           n == Len(q)
           V == TableSet
           next(i, v) == Serve(v, q[i])
           step == [i \in 1..n |-> [v \in V |-> next(i, v)]]
           Is(f) == f = [i \in 0..n |-> IF i = 0 THEN t ELSE next(i, f[i - 1])]
           g == CHOOSE f : Is(f)
<1>1. n \in Nat /\ t \in V /\ \A i \in 1..n : q[i] \in Reservations
  BY WaitingList, ElementOfSeq, LenProperties
<1>2. \A i \in 1..n, v \in V : next(i, v) \in V
  BY <1>1, ServeFrame DEF Frame
<1>3. ServeAll(t) = g[n]
  BY DEF ServeAll
<1> HIDE DEF n, V, q, next
<1>4. \A i \in 1..n, v \in V : step[i][v] \in V
  BY <1>2
<1>5. PICK f \in [0..n -> V] : f[0] = t /\ \A i \in 1..n : f[i] = step[i][f[i - 1]]
  <2> HIDE DEF step
  <2>1. \E f : Stepwise(f, n, V, t, step)
    BY <1>1, <1>4, StepwiseFunction
  <2> QED
    BY <2>1 DEF Stepwise
<1>6. ASSUME NEW i \in 1..n PROVE f[i] = next(i, f[i - 1])
  <2>1. i - 1 \in 0..n /\ f[i - 1] \in V
    BY <1>1, <1>5
  <2> QED
    BY <1>5, <2>1
<1>7. f = [i \in 0..n |-> IF i = 0 THEN t ELSE next(i, f[i - 1])]
  BY <1>1, <1>5, <1>6
<1>8. Is(g)
  <2>1. Is(f)
    BY <1>7
  <2> HIDE DEF Is
  <2> QED
    BY <2>1
<1>9. /\ g = [i \in 0..n |-> g[i]] /\ g[0] = t
      /\ \A i \in 1..n : g[i] = next(i, g[i - 1])
  <2> HIDE DEF g
  <2>1. g = [i \in 0..n |-> IF i = 0 THEN t ELSE next(i, g[i - 1])]
    BY <1>8
  <2>2. 0 \in 0..n /\ \A i \in 1..n : i \in 0..n /\ i # 0
    BY <1>1
  <2> QED
    BY <2>1, <2>2
<1> HIDE DEF g
<1>10. g \in [0..n -> V]
  <2> DEFINE T == {i \in 0..n : g[i] \in V}
  <2>1. 0 \in T
    BY <1>1, <1>9
  <2>2. ASSUME NEW i \in 1..n, i - 1 \in T PROVE i \in T
    <3>1. g[i - 1] \in V
      BY <2>2
    <3>2. g[i] \in V
      BY <1>2, <1>9, <3>1
    <3> QED
      BY <1>1, <3>2
  <2> HIDE DEF T
  <2>3. 0..n \subseteq T
    BY <1>1, <2>1, <2>2, UpTo
  <2> QED
    BY <1>9, <2>3 DEF T
<1> QED
  BY <1>3, <1>9, <1>10 DEF n, V, q, next, ServedFrom

(* ... and the one in ReleaseAll. *)
ReleasedFrom(f, t, q) ==
  /\ f \in [0..Len(q) -> TableSet] /\ f[0] = t
  /\ \A i \in 1..Len(q) : Ended(f[i - 1], f[i], q[i])

LEMMA ReleasedHolds ==
  ASSUME NEW t \in TableSet, NEW q \in Seq(Reservations)
  PROVE  \E f : ReleasedFrom(f, t, q) /\ ReleaseAll(t, q) = f[Len(q)]
<1> DEFINE n == Len(q)
           V == TableSet
           next(i, v) == ReleaseHold(v, q[i], TRUE)
           step == [i \in 1..n |-> [v \in V |-> next(i, v)]]
           Is(f) == f = [i \in 0..n |-> IF i = 0 THEN t ELSE next(i, f[i - 1])]
           g == CHOOSE f : Is(f)
<1>1. n \in Nat /\ t \in V /\ \A i \in 1..n : q[i] \in Reservations
  BY ElementOfSeq, LenProperties
<1>2. \A i \in 1..n, v \in V : next(i, v) \in V /\ Ended(v, next(i, v), q[i])
  <2> SUFFICES ASSUME NEW i \in 1..n, NEW v \in V
               PROVE  next(i, v) \in V /\ Ended(v, next(i, v), q[i])
    OBVIOUS
  <2>1. PICK b \in BOOLEAN : b = TRUE
    OBVIOUS
  <2>2. Ended(v, ReleaseHold(v, q[i], b), q[i])
    BY <1>1, EndedRow
  <2>3. next(i, v) = ReleaseHold(v, q[i], b)
    BY <2>1
  <2> QED
    BY <2>2, <2>3 DEF Ended, Frame
<1>3. ReleaseAll(t, q) = g[n]
  BY DEF ReleaseAll
<1> HIDE DEF n, V, next
<1>4. \A i \in 1..n, v \in V : step[i][v] \in V
  BY <1>2
<1>5. PICK f \in [0..n -> V] : f[0] = t /\ \A i \in 1..n : f[i] = step[i][f[i - 1]]
  <2> HIDE DEF step
  <2>1. \E f : Stepwise(f, n, V, t, step)
    BY <1>1, <1>4, StepwiseFunction
  <2> QED
    BY <2>1 DEF Stepwise
<1>6. ASSUME NEW i \in 1..n PROVE f[i] = next(i, f[i - 1])
  <2>1. i - 1 \in 0..n /\ f[i - 1] \in V
    BY <1>1, <1>5
  <2> QED
    BY <1>5, <2>1
<1>7. f = [i \in 0..n |-> IF i = 0 THEN t ELSE next(i, f[i - 1])]
  BY <1>1, <1>5, <1>6
<1>8. Is(g)
  <2>1. Is(f)
    BY <1>7
  <2> HIDE DEF Is
  <2> QED
    BY <2>1
<1>9. /\ g = [i \in 0..n |-> g[i]] /\ g[0] = t
      /\ \A i \in 1..n : g[i] = next(i, g[i - 1])
  <2> HIDE DEF g
  <2>1. g = [i \in 0..n |-> IF i = 0 THEN t ELSE next(i, g[i - 1])]
    BY <1>8
  <2>2. 0 \in 0..n /\ \A i \in 1..n : i \in 0..n /\ i # 0
    BY <1>1
  <2> QED
    BY <2>1, <2>2
<1> HIDE DEF g
<1>10. g \in [0..n -> V]
  <2> DEFINE T == {i \in 0..n : g[i] \in V}
  <2>1. 0 \in T
    BY <1>1, <1>9
  <2>2. ASSUME NEW i \in 1..n, i - 1 \in T PROVE i \in T
    <3>1. g[i - 1] \in V
      BY <2>2
    <3>2. g[i] \in V
      BY <1>2, <1>9, <3>1
    <3> QED
      BY <1>1, <3>2
  <2> HIDE DEF T
  <2>3. 0..n \subseteq T
    BY <1>1, <2>1, <2>2, UpTo
  <2> QED
    BY <1>9, <2>3 DEF T
<1>11. \A i \in 1..n : i - 1 \in 0..n
  BY <1>1
<1>12. \A i \in 1..n : Ended(g[i - 1], g[i], q[i])
  BY <1>2, <1>9, <1>10, <1>11
<1> QED
  BY <1>3, <1>9, <1>10, <1>12 DEF n, V, ReleasedFrom

(* Whatever every service keeps, the list of them keeps.                    *)
LEMMA ServeAllKeeps ==
  ASSUME NEW t \in TableSet, NEW S, t \in S,
         \A v \in S \cap TableSet, r \in Reservations : Serve(v, r) \in S
  PROVE  ServeAll(t) \in S \cap TableSet
<1> PICK f : ServedFrom(f, t, Waiting(t)) /\ ServeAll(t) = f[Len(Waiting(t))]
  BY ServedEntries
<1> DEFINE n == Len(Waiting(t))
           T == {i \in 0..n : f[i] \in S}
<1>1. /\ n \in Nat /\ \A i \in 1..n : i \in 0..n /\ i - 1 \in 0..n /\ Waiting(t)[i] \in Reservations
      /\ f \in [0..n -> TableSet] /\ f[0] = t /\ ServeAll(t) = f[n]
      /\ \A i \in 1..n : f[i] = Serve(f[i - 1], Waiting(t)[i])
  <2>1. n \in Nat /\ \A i \in 1..n : Waiting(t)[i] \in Reservations
    BY WaitingList, ElementOfSeq, LenProperties
  <2> QED
    BY <2>1 DEF ServedFrom
<1> HIDE DEF n
<1>2. 0 \in T
  BY <1>1
<1>3. ASSUME NEW i \in 1..n, i - 1 \in T PROVE i \in T
  BY <1>1, <1>3
<1> HIDE DEF T
<1>4. 0..n \subseteq T
  BY <1>1, <1>2, <1>3, UpTo
<1>5. n \in T
  BY <1>1, <1>4
<1> QED
  BY <1>1, <1>5 DEF T

LEMMA ReleaseAllKeeps ==
  ASSUME NEW t \in TableSet, NEW q \in Seq(Reservations), NEW S, t \in S,
         \A v \in S \cap TableSet, u \in TableSet, i \in 1..Len(q) : Ended(v, u, q[i]) => u \in S
  PROVE  ReleaseAll(t, q) \in S \cap TableSet
<1> PICK f : ReleasedFrom(f, t, q) /\ ReleaseAll(t, q) = f[Len(q)]
  BY ReleasedHolds
<1> DEFINE n == Len(q)
           T == {i \in 0..n : f[i] \in S}
<1>1. /\ n \in Nat /\ \A i \in 1..n : i \in 0..n /\ i - 1 \in 0..n
      /\ f \in [0..n -> TableSet] /\ f[0] = t /\ ReleaseAll(t, q) = f[n]
      /\ \A i \in 1..n : Ended(f[i - 1], f[i], q[i])
  BY LenProperties DEF ReleasedFrom
<1>2. 0 \in T
  BY <1>1
<1>3. ASSUME NEW i \in 1..n, i - 1 \in T PROVE i \in T
  <2>1. f[i - 1] \in S \cap TableSet /\ f[i] \in TableSet /\ Ended(f[i - 1], f[i], q[i])
    BY <1>1, <1>3
  <2>2. f[i] \in S
    BY <2>1
  <2> QED
    BY <1>1, <2>2
<1> HIDE DEF T, n
<1>4. 0..n \subseteq T
  BY <1>1, <1>2, <1>3, UpTo
<1>5. n \in T
  BY <1>1, <1>4
<1> QED
  BY <1>1, <1>5 DEF T

(* Every QUEUED reservation waits; no service starts one. *)
Waits(t) == \A o \in Reservations : t.res[o].status = "QUEUED" => t.entry[o] = "WAITING"

NoneStarts(t, u) ==
  \A o \in Reservations : u.res[o].status \in Started => u.res[o] = t.res[o]

Harmless(t, u) == Frame(t, u) /\ NoneStarts(t, u) /\ (Waits(t) => Waits(u))

LEMMA HarmlessRefl == ASSUME NEW t \in TableSet PROVE Harmless(t, t)
BY FrameRefl DEF Harmless, NoneStarts

LEMMA HarmlessTrans ==
  ASSUME NEW t, NEW u, NEW v, Harmless(t, u), Harmless(u, v)
  PROVE  Harmless(t, v)
<1>1. Frame(t, v)
  BY FrameTrans DEF Harmless
<1>2. NoneStarts(t, v)
  BY DEF Harmless, NoneStarts
<1> QED
  BY <1>1, <1>2 DEF Harmless

LEMMA DecidedHarmless ==
  ASSUME NEW t \in TableSet, NEW u, NEW r \in Reservations, NEW w, Decided(t, u, r, w)
  PROVE  Harmless(t, u)
BY DEF Decided, Harmless, NoneStarts, Waits, RowsKept, Started

LEMMA EndedHarmless ==
  ASSUME NEW t \in TableSet, NEW u, NEW r \in Reservations, Ended(t, u, r)
  PROVE  Harmless(t, u)
BY DEF Ended, Harmless, NoneStarts, Waits, RowsKept, Started

LEMMA ServeHarmless ==
  ASSUME NEW t \in TableSet, NEW r \in Reservations
  PROVE  Harmless(t, Serve(t, r))
<1> DEFINE u == Serve(t, r)
<1> HIDE DEF u
<1>1. ASSUME u = t PROVE Harmless(t, u)
  BY <1>1, HarmlessRefl
<1>2. ASSUME t.res[r].status \in Terminal, Closes(t, u, r) PROVE Harmless(t, u)
  <2>1. Waits(t) => Waits(u)
    BY <1>2 DEF Closes, Waits, RowsKept, Terminal
  <2> QED
    BY <1>2, <2>1 DEF Closes, Harmless, NoneStarts
<1>3. ASSUME Decided(t, u, r, Best(t, r)) PROVE Harmless(t, u)
  BY <1>3, DecidedHarmless
<1>4. u = t \/ (t.res[r].status \in Terminal /\ Closes(t, u, r)) \/ Decided(t, u, r, Best(t, r))
  BY ServeRow DEF u
<1> QED
  BY <1>1, <1>2, <1>3, <1>4 DEF u

LEMMA ServeAllHarmless ==
  ASSUME NEW t \in TableSet
  PROVE  Harmless(t, ServeAll(t))
<1> DEFINE S == {v \in TableSet : Harmless(t, v)}
<1>1. t \in S
  BY HarmlessRefl
<1>2. ASSUME NEW v \in S \cap TableSet, NEW r \in Reservations PROVE Serve(v, r) \in S
  <2>1. Harmless(v, Serve(v, r)) /\ Harmless(t, v)
    BY ServeHarmless
  <2>2. Harmless(t, Serve(v, r))
    BY <2>1, HarmlessTrans
  <2> QED
    BY <2>2 DEF Harmless, Frame
<1> HIDE DEF S
<1>3. ServeAll(t) \in S
  BY <1>1, <1>2, ServeAllKeeps
<1> QED
  BY <1>3 DEF S

LEMMA ReleaseAllHarmless ==
  ASSUME NEW t \in TableSet, NEW q \in Seq(Reservations)
  PROVE  Harmless(t, ReleaseAll(t, q))
<1> DEFINE S == {v \in TableSet : Harmless(t, v)}
<1>1. t \in S
  BY HarmlessRefl
<1>2. ASSUME NEW v \in S \cap TableSet, NEW u \in TableSet, NEW i \in 1..Len(q), Ended(v, u, q[i])
      PROVE  u \in S
  <2>1. q[i] \in Reservations
    BY ElementOfSeq
  <2>2. Harmless(v, u) /\ Harmless(t, v)
    BY <1>2, <2>1, EndedHarmless
  <2>3. Harmless(t, u)
    BY <2>2, HarmlessTrans
  <2> QED
    BY <2>3
<1> HIDE DEF S
<1>3. ReleaseAll(t, q) \in S
  BY <1>1, <1>2, ReleaseAllKeeps
<1> QED
  BY <1>3 DEF S

-----------------------------------------------------------------------------
(* Types. *)

TablesOK == Tables \in TableSet

SessionsOK ==
  /\ session \in [Sessions -> [status : Open \union {"NONE", "CLOSED"},
                               reservation : Reservations \union {NoReservation},
                               pc : Pcs \union {NoPc}]]
  /\ \A s \in Sessions : session[s].status \in Open =>
        session[s].pc \in Pcs /\ session[s].reservation \in Reservations

OthersOK ==
  /\ cleans \subseteq Pcs /\ collecting \subseteq Pcs
  /\ booking \in [Reservations -> [eligible : BOOLEAN, time : {"early", "late", "over"}]]

TaskOK(t) == t \in Tasks /\ (t.op = "queue" => t.list # <<>>)

TasksOK == task \in [Workers -> Tasks] /\ \A p \in Workers : TaskOK(task[p])

(* TypeOK, with what keeps it: an open desktop is one of a reservation on a *)
(* PC, and a queue job has an entry to serve.                               *)
TInv == TablesOK /\ SessionsOK /\ OthersOK /\ TasksOK

LEMMA TypesOK == TInv => TypeOK
BY DEF TInv, TablesOK, SessionsOK, OthersOK, TasksOK, TypeOK, Tables, TableSet, Row,
       EntryStatus, PcStatuses

LEMMA TaskTypes ==
  ASSUME NEW t, TaskOK(t)
  PROVE  /\ t.op = "request" => t.r \in Reservations /\ t.pc \in SomePc
         /\ t.op = "launch" => t.r \in Reservations /\ t.pc \in Pcs /\ t.checkin \in BOOLEAN
                              /\ t.open \in BOOLEAN
         /\ t.op = "queue" => t.list \in Seq(Reservations) /\ t.list # <<>>
         /\ t.op = "serve" => t.r \in Reservations /\ t.pc \in SomePc /\ t.list \in Seq(Reservations)
         /\ t.op = "due" => t.rs \in SUBSET Reservations
         /\ t.op = "sweep" => t.r \in Reservations /\ t.why \in Reasons /\ t.pc \in SomePc
                             /\ t.seen \in [Pcs -> PcStatuses]
         /\ t.op = "status" => t.pc \in Pcs /\ t.to \in PcStatuses
BY DEF TaskOK, Tasks, Idle, SomePc, PcStatuses

LEMMA TaskSet ==
  ASSUME TasksOK, NEW p \in Workers, NEW t, TaskOK(t), Becomes(p, t)
  PROVE  /\ TasksOK' /\ task'[p] = t
         /\ \A q \in Workers \ {p} : task'[q] = task[q]
<1>1. task' \in [Workers -> Tasks] /\ \A q \in Workers : task'[q] = IF q = p THEN t ELSE task[q]
  BY DEF TasksOK, TaskOK, Becomes
<1>2. \A q \in Workers : TaskOK(task[q])'
  BY <1>1 DEF TasksOK, TaskOK
<1> QED
  BY <1>1, <1>2 DEF TasksOK

LEMMA IdleOK == TaskOK(Idle)
BY DEF TaskOK, Tasks, Idle

LEMMA Saved ==
  ASSUME NEW t \in TableSet, Save(t)
  PROVE  Tables' = t
<1>1. t = [res |-> t.res, entry |-> t.entry, order |-> t.order, pc |-> t.pc]
  BY DEF TableSet
<1>2. Tables' = [res |-> reservation', entry |-> entry', order |-> order', pc |-> pc']
  BY DEF Tables
<1> QED
  BY <1>1, <1>2 DEF Save

LEMMA TablesParts ==
  /\ Tables.res = reservation /\ Tables.entry = entry /\ Tables.order = order /\ Tables.pc = pc
  /\ Tables'.res = reservation' /\ Tables'.entry = entry' /\ Tables'.order = order' /\ Tables'.pc = pc'
BY DEF Tables

LEMMA TablesTypes ==
  ASSUME TablesOK
  PROVE  /\ reservation \in [Reservations -> Row] /\ entry \in [Reservations -> EntryStatus]
         /\ order \in Seq(Reservations) /\ pc \in [Pcs -> PcStatuses]
BY DEF TablesOK, Tables, TableSet

LEMMA TablesTyped ==
  ASSUME reservation' \in [Reservations -> Row], entry' \in [Reservations -> EntryStatus],
         order' \in Seq(Reservations), pc' \in [Pcs -> PcStatuses]
  PROVE  TablesOK'
BY DEF TablesOK, Tables, TableSet

(* The row of r is closed; its entry may still wait. *)
Closing(t, u, r) ==
  /\ Frame(t, u) /\ RowsKept(t, u, Reservations \ {r}) /\ u.order = t.order
  /\ u.res[r].status \in Terminal /\ u.res[r].missed = t.res[r].missed
  /\ u.entry[r] = t.entry[r] \/ u.entry[r] # "WAITING"

LEMMA ClosingHarmless ==
  ASSUME NEW t, NEW u, NEW r \in Reservations, Closing(t, u, r)
  PROVE  Harmless(t, u)
BY DEF Closing, Harmless, NoneStarts, Waits, RowsKept, Terminal, Started

LEMMA CloseRow ==
  ASSUME NEW t \in TableSet, NEW r \in Reservations, NEW st \in Terminal
  PROVE  /\ Closing(t, [t EXCEPT !.res[r].status = st], r)
         /\ [t EXCEPT !.res[r].status = st].entry = t.entry
<1> DEFINE row == [t.res[r] EXCEPT !.status = st]
           u == [t EXCEPT !.res[r].status = st]
<1>1. row \in Row /\ u = [t EXCEPT !.res[r] = row] /\ row.status = st /\ row.missed = t.res[r].missed
  BY SetStatus DEF Status
<1> HIDE DEF row, u
<1>2. /\ Frame(t, u) /\ RowsKept(t, u, Reservations \ {r}) /\ u.res[r] = row
      /\ u.entry = t.entry /\ u.order = t.order
  BY <1>1, SetRow
<1>3. Closing(t, u, r)
  BY <1>1, <1>2 DEF Closing
<1> QED
  BY <1>2, <1>3 DEF u

LEMMA CloseDequeue ==
  ASSUME NEW t \in TableSet, NEW r \in Reservations, NEW st \in {"EXPIRED", "CANCELLED"}
  PROVE  /\ Closing(t, Dequeue([t EXCEPT !.res[r].status = st], r, st), r)
         /\ Dequeue([t EXCEPT !.res[r].status = st], r, st).entry[r] # "WAITING"
<1> DEFINE u == [t EXCEPT !.res[r].status = st]
           v == Dequeue(u, r, st)
<1>1. Closing(t, u, r)
  <2>1. st \in Terminal
    BY DEF Terminal
  <2> QED
    BY <2>1, CloseRow
<1> HIDE DEF u
<1>2. /\ Frame(u, v) /\ RowsKept(u, v, Reservations \ {r}) /\ v.res = u.res
      /\ v.order = u.order /\ v.entry[r] # "WAITING"
  <2>1. u \in TableSet /\ st \in EntryStatus \ {"NONE", "WAITING"}
    BY <1>1 DEF Closing, Frame, EntryStatus
  <2> QED
    BY <2>1, DequeueRow
<1> HIDE DEF v
<1>3. Frame(t, v)
  BY <1>1, <1>2, FrameTrans DEF Closing
<1>4. Closing(t, v, r)
  BY <1>1, <1>2, <1>3 DEF Closing, RowsKept
<1> QED
  BY <1>2, <1>4 DEF v, u

LEMMA CloseFree ==
  ASSUME NEW t, NEW u, NEW r \in Reservations, Closing(t, u, r), NEW w \in SomePc,
         NEW seen
  PROVE  Closing(t, FreePc(u, r, w, seen), r) /\ FreePc(u, r, w, seen).entry = u.entry
<1> DEFINE v == FreePc(u, r, w, seen)
<1>1. /\ Frame(u, v) /\ RowsKept(u, v, Reservations) /\ v.res = u.res
      /\ v.order = u.order /\ v.entry = u.entry
  <2>1. u \in TableSet
    BY DEF Closing, Frame
  <2> QED
    BY <2>1, FreePcRow
<1> HIDE DEF v
<1>2. Frame(t, v)
  BY <1>1, FrameTrans DEF Closing
<1>3. Closing(t, v, r)
  BY <1>1, <1>2 DEF Closing, RowsKept
<1> QED
  BY <1>1, <1>3 DEF v

LEMMA DequeueHarmless ==
  ASSUME NEW t \in TableSet, NEW r \in Reservations, t.res[r].status # "QUEUED"
  PROVE  Closes(t, Dequeue(t, r, "CANCELLED"), r) /\ Harmless(t, Dequeue(t, r, "CANCELLED"))
<1> DEFINE u == Dequeue(t, r, "CANCELLED")
<1>1. Closes(t, u, r)
  <2>1. "CANCELLED" \in EntryStatus \ {"NONE", "WAITING"}
    BY DEF EntryStatus
  <2> QED
    BY <2>1, DequeueRow DEF Closes
<1> HIDE DEF u
<1>2. Harmless(t, u)
  BY <1>1 DEF Harmless, NoneStarts, Waits, RowsKept, Closes
<1> QED
  BY <1>1, <1>2 DEF u

LEMMA NotBusyHarmless ==
  ASSUME NEW t \in TableSet, NEW w
  PROVE  Harmless(t, NotBusy(t, w)) /\ NotBusy(t, w).res = t.res /\ NotBusy(t, w).entry = t.entry
         /\ NotBusy(t, w).order = t.order
<1> DEFINE pc1 == [v \in Pcs |-> IF v = w /\ t.pc[v] = "BUSY" THEN "AVAILABLE" ELSE t.pc[v]]
<1>1. pc1 \in [Pcs -> PcStatuses] /\ \A v \in Pcs : pc1[v] = "OFFLINE" => t.pc[v] = "OFFLINE"
  BY DEF TableSet, PcStatuses
<1>2. NotBusy(t, w) = [t EXCEPT !.pc = pc1]
  BY DEF NotBusy
<1> HIDE DEF pc1
<1>3. /\ NotBusy(t, w) \in TableSet /\ NotBusy(t, w).res = t.res /\ NotBusy(t, w).entry = t.entry
      /\ NotBusy(t, w).order = t.order /\ NotBusy(t, w).pc = pc1
  BY <1>1, <1>2 DEF TableSet
<1> QED
  BY <1>1, <1>3 DEF Harmless, NoneStarts, Waits, Frame

LEMMA ReleasedHarmless ==
  ASSUME NEW t \in TableSet, NEW s \in Sessions, NEW final \in {"ENDED", "FAILED"}, NEW c \in BOOLEAN,
         session[s].pc \in Pcs, NEW r \in Reservations, r = session[s].reservation
  PROVE  /\ Harmless(t, Released(t, s, final, c))
         /\ \A o \in Reservations \ {r} : Released(t, s, final, c).res[o] = t.res[o]
         /\ Released(t, s, final, c).res[r].pc = t.res[r].pc
         /\ Released(t, s, final, c).res[r].missed = t.res[r].missed
         /\ \/ Released(t, s, final, c).res[r] = t.res[r]
            \/ /\ Released(t, s, final, c).res[r].status = "COMPLETED"
               /\ t.res[r].status \in Started /\ final = "ENDED"
         /\ Released(t, s, final, c).entry = t.entry /\ Released(t, s, final, c).order = t.order
<1> PICK w \in Pcs : w = session[s].pc
  OBVIOUS
<1> DEFINE row == [t.res[r] EXCEPT !.status = IF final = "ENDED" /\ @ \in Started THEN "COMPLETED" ELSE @]
           pc1 == [t.pc EXCEPT ![w] = IF c THEN "CLEANING" ELSE "AVAILABLE"]
           res1 == [t.res EXCEPT ![r] = row]
           u == Released(t, s, final, c)
<1>1. /\ row \in Row /\ row.pc = t.res[r].pc /\ row.missed = t.res[r].missed
      /\ \/ row = t.res[r]
         \/ row.status = "COMPLETED" /\ t.res[r].status \in Started /\ final = "ENDED"
  <2>1. t.res[r] \in Row
    BY DEF TableSet
  <2>2. CASE final = "ENDED" /\ t.res[r].status \in Started
    <3>1. row = [t.res[r] EXCEPT !.status = "COMPLETED"]
      BY <2>2
    <3> QED
      BY <2>1, <3>1 DEF Row, Terminal, Started
  <2>3. CASE ~(final = "ENDED" /\ t.res[r].status \in Started)
    <3>1. row = t.res[r]
      BY <2>1, <2>3 DEF Row
    <3> QED
      BY <2>1, <3>1
  <2> QED
    BY <2>2, <2>3
<1>2. pc1 \in [Pcs -> PcStatuses] /\ \A v \in Pcs : pc1[v] = "OFFLINE" => t.pc[v] = "OFFLINE"
  BY DEF TableSet, PcStatuses, Sticky
<1>3. u = [t EXCEPT !.pc = pc1, !.res = res1]
  BY DEF Released, TableSet
<1>4. res1 \in [Reservations -> Row] /\ res1[r] = row /\ \A o \in Reservations \ {r} : res1[o] = t.res[o]
  BY <1>1 DEF TableSet
<1> HIDE DEF pc1, res1, u, row
<1>5. u \in TableSet /\ u.res = res1 /\ u.entry = t.entry /\ u.order = t.order /\ u.pc = pc1
  BY <1>2, <1>3, <1>4 DEF TableSet
<1>6. Harmless(t, u)
  BY <1>1, <1>2, <1>4, <1>5 DEF Harmless, NoneStarts, Waits, Frame, Started
<1>7. /\ u.res[r] = row /\ \A o \in Reservations \ {r} : u.res[o] = t.res[o]
      /\ u.entry = t.entry /\ u.order = t.order
  BY <1>4, <1>5
<1> QED
  BY <1>1, <1>6, <1>7 DEF u

-----------------------------------------------------------------------------
(* What each action does to the tables. *)

LEMMA RequestTables ==
  ASSUME TInv, NEW p \in Workers, RequestCommit(p)
  PROVE  Decided(Tables, Tables', task[p].r, task[p].pc) /\ Harmless(Tables, Tables')
<1> DEFINE r == task[p].r
           w == task[p].pc
           u == Allocate(Tables, r, w)
<1>1. r \in Reservations /\ w \in SomePc
  BY TaskTypes DEF TInv, TasksOK, RequestCommit
<1>2. Save(u)
  BY DEF RequestCommit
<1>3. Tables \in TableSet
  BY DEF TInv, TablesOK
<1> HIDE DEF r, w
<1>4. Decided(Tables, u, r, w)
  BY <1>1, <1>3, AllocateRow
<1> HIDE DEF u
<1>5. Tables' = u
  BY <1>2, <1>4, Saved DEF Decided, Frame
<1>6. Harmless(Tables, u)
  BY <1>1, <1>3, <1>4, DecidedHarmless
<1> QED
  BY <1>4, <1>5, <1>6 DEF r, w

LEMMA QueueTables ==
  ASSUME TInv, NEW p \in Workers, QueueCommit(p)
  PROVE  /\ \/ reservation[task[p].r].status \in Terminal /\ Closes(Tables, Tables', task[p].r)
            \/ /\ reservation[task[p].r].status \notin Terminal
               /\ Decided(Tables, Tables', task[p].r, task[p].pc)
         /\ Harmless(Tables, Tables')
<1> PICK r \in Reservations : r = task[p].r
  BY TaskTypes DEF TInv, TasksOK, QueueCommit
<1> PICK w \in SomePc : w = task[p].pc
  BY TaskTypes DEF TInv, TasksOK, QueueCommit
<1>1. Tables \in TableSet /\ Tables.res = reservation
  BY DEF TInv, TablesOK, Tables
<1>2. CASE reservation[r].status \in Terminal
  <2> DEFINE u == Dequeue(Tables, r, "CANCELLED")
  <2>1. Save(u)
    BY <1>2 DEF QueueCommit
  <2>2. Closes(Tables, u, r) /\ Harmless(Tables, u)
    BY <1>1, <1>2, DequeueHarmless DEF Terminal
  <2> HIDE DEF u
  <2>3. Tables' = u
    BY <2>1, <2>2, Saved DEF Closes, Frame
  <2> QED
    BY <1>2, <2>2, <2>3
<1>3. CASE reservation[r].status \notin Terminal
  <2> DEFINE u == Allocate(Tables, r, w)
  <2>1. Save(u)
    BY <1>3 DEF QueueCommit
  <2>2. Decided(Tables, u, r, w)
    BY <1>1, AllocateRow
  <2> HIDE DEF u
  <2>3. Tables' = u
    BY <2>1, <2>2, Saved DEF Decided, Frame
  <2>4. Harmless(Tables, u)
    BY <1>1, <2>2, DecidedHarmless
  <2> QED
    BY <1>3, <2>2, <2>3, <2>4
<1> QED
  BY <1>2, <1>3

LEMMA DueTables ==
  ASSUME TInv, NEW p \in Workers, DueCommit(p)
  PROVE  /\ \E q \in SetToSeqs(task[p].rs) :
               /\ q \in Seq(Reservations) /\ Tables' = ServeAll(ReleaseAll(Tables, q))
               /\ \A i, j \in 1..Len(q) : i # j => q[i] # q[j]
               /\ \A i \in 1..Len(q) : q[i] \in task[p].rs
               /\ ReleaseAll(Tables, q) \in TableSet
         /\ Harmless(Tables, Tables')
<1>1. task[p].rs \in SUBSET Reservations
  BY TaskTypes DEF TInv, TasksOK, DueCommit
<1>2. PICK q \in SetToSeqs(task[p].rs) : Save(ServeAll(ReleaseAll(Tables, q)))
  BY DEF DueCommit
<1>3. /\ q \in Seq(Reservations)
      /\ \A i, j \in 1..Len(q) : i # j => q[i] # q[j]
      /\ \A i \in 1..Len(q) : q[i] \in task[p].rs
  <2>1. IsFiniteSet(task[p].rs)
    BY <1>1, FS_Subset, SchedulerAssumption
  <2>2. Cardinality(task[p].rs) \in Nat
    BY <2>1, FS_CardinalityType
  <2>3. /\ q \in [1..Cardinality(task[p].rs) -> task[p].rs]
        /\ \A i, j \in 1..Cardinality(task[p].rs) : i # j => q[i] # q[j]
    BY DEF SetToSeqs
  <2>4. q \in Seq(task[p].rs) /\ Len(q) = Cardinality(task[p].rs)
    BY <2>2, <2>3
  <2> QED
    BY <1>1, <2>3, <2>4
<1>4. Tables \in TableSet
  BY DEF TInv, TablesOK
<1> DEFINE t == ReleaseAll(Tables, q)
           u == ServeAll(t)
<1>5. Harmless(Tables, t)
  BY <1>3, <1>4, ReleaseAllHarmless
<1>6. t \in TableSet
  BY <1>5 DEF Harmless, Frame
<1>7. Save(u)
  BY <1>2
<1> HIDE DEF t
<1>8. Harmless(t, u)
  BY <1>6, ServeAllHarmless
<1> HIDE DEF u
<1>9. Tables' = u
  BY <1>7, <1>8, Saved DEF Harmless, Frame
<1>10. Harmless(Tables, u)
  BY <1>5, <1>8, HarmlessTrans
<1> QED
  BY <1>3, <1>6, <1>9, <1>10 DEF u, t

LEMMA SweepTables ==
  ASSUME TInv, NEW p \in Workers, SweepCommit(p)
  PROVE  /\ \/ Tables' = Tables
            \/ /\ Closing(Tables, Tables', task[p].r)
               /\ task[p].why = "ineligible" => OpenSessions(task[p].r) = {}
               /\ task[p].why # "ended" => Tables'.entry[task[p].r] # "WAITING"
         /\ Harmless(Tables, Tables')
<1> PICK r \in Reservations : r = task[p].r
  BY TaskTypes DEF TInv, TasksOK, SweepCommit
<1> PICK w \in SomePc : w = task[p].pc
  BY TaskTypes DEF TInv, TasksOK, SweepCommit
<1> PICK t \in TableSet : t = Tables
  BY DEF TInv, TablesOK
<1> PICK seen : seen = IF task[p].why \in {"ineligible", "offline"} THEN task[p].seen ELSE pc
  OBVIOUS
<1>1. ASSUME NEW u, Save(u), Closing(t, u, r)
      PROVE  Tables' = u /\ Harmless(Tables, Tables')
  <2>1. Tables' = u
    BY <1>1, Saved DEF Closing, Frame
  <2>2. Harmless(t, u)
    BY <1>1, ClosingHarmless
  <2> QED
    BY <2>1, <2>2
<1>2. CASE task[p].why = "ineligible" /\ OpenSessions(r) # {}
  <2>1. Save(t)
    BY <1>2 DEF SweepCommit
  <2>2. Tables' = t
    BY <2>1, Saved
  <2> QED
    BY <2>2, HarmlessRefl
<1>3. CASE task[p].why = "ineligible" /\ OpenSessions(r) = {}
  <2> DEFINE u == CancelHold(t, r, w, seen)
  <2>1. Save(u)
    BY <1>3 DEF SweepCommit
  <2>2. Closing(t, u, r) /\ u.entry[r] # "WAITING"
    <3> DEFINE v == Dequeue([t EXCEPT !.res[r].status = "CANCELLED"], r, "CANCELLED")
    <3>1. "CANCELLED" \in {"EXPIRED", "CANCELLED"}
      OBVIOUS
    <3>2. Closing(t, v, r) /\ v.entry[r] # "WAITING"
      BY <3>1, CloseDequeue
    <3>3. u = FreePc(v, r, w, seen)
      BY DEF CancelHold
    <3> HIDE DEF v, u
    <3> QED
      BY <3>2, <3>3, CloseFree
  <2> HIDE DEF u
  <2> QED
    BY <1>1, <1>3, <2>1, <2>2
<1>4. CASE task[p].why = "queued"
  <2> DEFINE u == Dequeue([t EXCEPT !.res[r].status = "EXPIRED"], r, "EXPIRED")
  <2>1. Save(u)
    BY <1>4 DEF SweepCommit
  <2>2. Closing(t, u, r) /\ u.entry[r] # "WAITING"
    <3>1. "EXPIRED" \in {"EXPIRED", "CANCELLED"}
      OBVIOUS
    <3> QED
      BY <3>1, CloseDequeue
  <2> HIDE DEF u
  <2> QED
    BY <1>1, <1>4, <2>1, <2>2
<1>5. CASE task[p].why \in {"missed", "offline"}
  <2> DEFINE u == FreePc(Dequeue([t EXCEPT !.res[r].status = "EXPIRED"], r, "EXPIRED"), r, w, seen)
  <2>1. Save(u)
    BY <1>5 DEF SweepCommit
  <2>2. Closing(t, u, r) /\ u.entry[r] # "WAITING"
    <3> DEFINE v == Dequeue([t EXCEPT !.res[r].status = "EXPIRED"], r, "EXPIRED")
    <3>1. "EXPIRED" \in {"EXPIRED", "CANCELLED"}
      OBVIOUS
    <3>2. Closing(t, v, r) /\ v.entry[r] # "WAITING"
      BY <3>1, CloseDequeue
    <3>3. u = FreePc(v, r, w, seen)
      OBVIOUS
    <3> HIDE DEF v, u
    <3> QED
      BY <3>2, <3>3, CloseFree
  <2> HIDE DEF u
  <2> QED
    BY <1>1, <1>5, <2>1, <2>2
<1>6. CASE task[p].why = "ended"
  <2> DEFINE u == FreePc([t EXCEPT !.res[r].status = "COMPLETED"], r, w, seen)
  <2>1. Save(u)
    BY <1>6 DEF SweepCommit
  <2>2. Closing(t, u, r)
    <3>1. "COMPLETED" \in Terminal
      BY DEF Terminal
    <3> QED
      BY <3>1, CloseRow, CloseFree
  <2> HIDE DEF u
  <2> QED
    BY <1>1, <1>6, <2>1, <2>2
<1>7. task[p].why \in Reasons
  BY TaskTypes DEF TInv, TasksOK, SweepCommit
<1> QED
  BY <1>2, <1>3, <1>4, <1>5, <1>6, <1>7 DEF Reasons

LEMMA ReleaseTables ==
  ASSUME TInv, NEW r \in Reservations, ReleaseByUser(r)
  PROVE  Ended(Tables, Tables', r) /\ Harmless(Tables, Tables')
<1> PICK b \in BOOLEAN : b = FALSE
  OBVIOUS
<1> DEFINE u == ReleaseHold(Tables, r, b)
<1>1. Tables \in TableSet
  BY DEF TInv, TablesOK
<1>2. Save(u)
  BY DEF ReleaseByUser
<1>3. Ended(Tables, u, r)
  BY <1>1, EndedRow
<1> HIDE DEF u
<1>4. Tables' = u
  BY <1>2, <1>3, Saved DEF Ended, Frame
<1>5. Harmless(Tables, u)
  BY <1>1, <1>3, EndedHarmless
<1> QED
  BY <1>3, <1>4, <1>5

LEMMA EndTables ==
  ASSUME TInv, NEW s \in Sessions, NEW c \in BOOLEAN, NEW final \in {"ENDED", "FAILED"},
         session[s].status \in Open, Save(Released(Tables, s, final, c))
  PROVE  Tables' = Released(Tables, s, final, c) /\ Harmless(Tables, Tables')
<1> DEFINE u == Released(Tables, s, final, c)
<1>1. Tables \in TableSet /\ session[s].pc \in Pcs /\ session[s].reservation \in Reservations
  BY DEF TInv, TablesOK, SessionsOK
<1>2. Save(u)
  OBVIOUS
<1>3. Harmless(Tables, u)
  BY <1>1, ReleasedHarmless
<1> HIDE DEF u
<1>4. Tables' = u
  BY <1>2, <1>3, Saved DEF Harmless, Frame
<1> QED
  BY <1>3, <1>4 DEF u

(* The analysis ends with its desktop, or without one. *)
LEMMA EndAnalysisTables ==
  ASSUME TInv, NEW r \in Reservations, NEW c \in BOOLEAN, EndAnalysis(r, c)
  PROVE  /\ \/ \E s \in OpenSessions(r) :
                  /\ Cleanup(s, "ENDED", c)
                  /\ Released(Tables, s, "ENDED", c) \in TableSet
                  /\ Tables' = ServeAll(Released(Tables, s, "ENDED", c))
            \/ /\ OpenSessions(r) = {} /\ reservation[r].status \in Holding \union {"QUEUED"}
               /\ UNCHANGED <<session, cleans, collecting, booking>>
               /\ \E t \in TableSet :
                     Closing(Tables, t, r) /\ t.entry = Tables.entry /\ Tables' = ServeAll(t)
         /\ Harmless(Tables, Tables')
<1>0. Tables \in TableSet
  BY DEF TInv, TablesOK
<1>1. CASE \E s \in OpenSessions(r) :
             /\ Cleanup(s, "ENDED", c)
             /\ Save(ServeAll(Released(Tables, s, "ENDED", c)))
  <2>1. PICK s \in OpenSessions(r) : /\ Cleanup(s, "ENDED", c)
                                    /\ Save(ServeAll(Released(Tables, s, "ENDED", c)))
    BY <1>1
  <2>2. s \in Sessions /\ session[s].pc \in Pcs /\ session[s].reservation \in Reservations
    BY DEF OpenSessions, TInv, SessionsOK
  <2> DEFINE t == Released(Tables, s, "ENDED", c)
             u == ServeAll(t)
  <2>3. Harmless(Tables, t)
    BY <1>0, <2>2, ReleasedHarmless
  <2>4. Save(u)
    BY <2>1
  <2> HIDE DEF t
  <2>5. Harmless(t, u) /\ t \in TableSet
    BY <2>3, ServeAllHarmless DEF Harmless, Frame
  <2> HIDE DEF u
  <2>6. Tables' = u
    BY <2>4, <2>5, Saved DEF Harmless, Frame
  <2>7. Harmless(Tables, u)
    BY <2>3, <2>5, HarmlessTrans
  <2> QED
    BY <2>1, <2>5, <2>6, <2>7 DEF t, u
<1>2. CASE /\ OpenSessions(r) = {} /\ reservation[r].status \in Holding \union {"QUEUED"}
           /\ Save(ServeAll(NotBusy(FreePc([Tables EXCEPT !.res[r].status = "COMPLETED"],
                                           r, reservation[r].pc, pc), reservation[r].pc)))
           /\ UNCHANGED <<session, cleans, collecting, booking>>
  <2> PICK w \in SomePc : w = reservation[r].pc
    BY TablesTypes DEF TInv, Row, SomePc
  <2> DEFINE t1 == [Tables EXCEPT !.res[r].status = "COMPLETED"]
             t2 == FreePc(t1, r, w, pc)
             t3 == NotBusy(t2, w)
             u == ServeAll(t3)
  <2>1. Closing(Tables, t1, r) /\ t1.entry = Tables.entry
    <3>1. "COMPLETED" \in Terminal
      BY DEF Terminal
    <3> QED
      BY <1>0, <3>1, CloseRow
  <2>2. Save(u)
    BY <1>2
  <2> HIDE DEF t1
  <2>3. Closing(Tables, t2, r) /\ t2.entry = t1.entry
    BY <2>1, CloseFree
  <2> HIDE DEF t2
  <2>4. Harmless(t2, t3) /\ t3.res = t2.res /\ t3.entry = t2.entry /\ t3.order = t2.order
    BY <2>3, NotBusyHarmless DEF Closing, Frame
  <2> HIDE DEF t3
  <2>5. Frame(Tables, t3)
    BY <2>3, <2>4, FrameTrans DEF Closing, Harmless
  <2>6. Closing(Tables, t3, r) /\ t3.entry = Tables.entry
    BY <2>1, <2>3, <2>4, <2>5 DEF Closing, RowsKept
  <2>7. t3 \in TableSet /\ Harmless(Tables, t3)
    BY <2>6, ClosingHarmless DEF Closing, Frame
  <2>8. Harmless(t3, u)
    BY <2>7, ServeAllHarmless
  <2> HIDE DEF u
  <2>9. Tables' = u
    BY <2>2, <2>8, Saved DEF Harmless, Frame
  <2>10. Harmless(Tables, u)
    BY <2>7, <2>8, HarmlessTrans
  <2> QED
    BY <1>2, <2>6, <2>7, <2>9, <2>10 DEF u
<1> QED
  BY <1>1, <1>2 DEF EndAnalysis

LEMMA CancelTables ==
  ASSUME TInv, NEW r \in Reservations, CancelByManager(r)
  PROVE  /\ Closing(Tables, Tables', r) /\ Tables'.entry[r] # "WAITING" /\ pc' = pc
         /\ Harmless(Tables, Tables')
<1> DEFINE u == Dequeue([Tables EXCEPT !.res[r].status = "CANCELLED"], r, "CANCELLED")
<1>1. Tables \in TableSet /\ "CANCELLED" \in {"EXPIRED", "CANCELLED"}
  BY DEF TInv, TablesOK
<1>2. Save(u)
  BY DEF CancelByManager
<1>3. Closing(Tables, u, r) /\ u.entry[r] # "WAITING"
  BY <1>1, CloseDequeue
<1>4. u.pc = pc
  <2>1. u.pc = Tables.pc
    BY <1>1 DEF Dequeue, TableSet
  <2> QED
    BY <2>1 DEF Tables
<1> HIDE DEF u
<1>5. Tables' = u
  BY <1>2, <1>3, Saved DEF Closing, Frame
<1>6. pc' = pc
  BY <1>4, <1>5 DEF Tables
<1> QED
  BY <1>3, <1>5, <1>6, ClosingHarmless

(* The steps that only change the status of one row. *)
LEMMA RestatusTables ==
  ASSUME TablesOK, NEW r \in Reservations, NEW st \in Status,
         reservation' = [reservation EXCEPT ![r].status = st],
         entry' = entry, order' = order, pc' \in [Pcs -> PcStatuses],
         st = "QUEUED" => reservation[r].status = "QUEUED"
  PROVE  /\ TablesOK' /\ (Waits(Tables) => Waits(Tables'))
         /\ reservation'[r] = [reservation[r] EXCEPT !.status = st]
         /\ \A o \in Reservations \ {r} : reservation'[o] = reservation[o]
<1>1. reservation \in [Reservations -> Row] /\ entry \in [Reservations -> EntryStatus]
      /\ order \in Seq(Reservations)
  BY TablesTypes
<1>2. [reservation[r] EXCEPT !.status = st] \in Row
      /\ [reservation[r] EXCEPT !.status = st].status = st
  BY <1>1 DEF Row, Status
<1>3. reservation' = [reservation EXCEPT ![r] = [reservation[r] EXCEPT !.status = st]]
  OBVIOUS
<1>4. /\ reservation' \in [Reservations -> Row]
      /\ reservation'[r] = [reservation[r] EXCEPT !.status = st]
      /\ \A o \in Reservations \ {r} : reservation'[o] = reservation[o]
  BY <1>1, <1>2, <1>3
<1>5. TablesOK'
  BY <1>1, <1>4, TablesTyped
<1>6. Waits(Tables) => Waits(Tables')
  BY <1>2, <1>4, TablesParts DEF Waits
<1> QED
  BY <1>4, <1>5, <1>6

LEMMA PcTables ==
  ASSUME TablesOK, reservation' = reservation, entry' = entry, order' = order,
         pc' \in [Pcs -> PcStatuses]
  PROVE  TablesOK' /\ (Waits(Tables) => Waits(Tables'))
<1>1. TablesOK'
  BY TablesTypes, TablesTyped
<1> QED
  BY <1>1, TablesParts DEF Waits

-----------------------------------------------------------------------------
(* Every step keeps the types, and every QUEUED reservation waiting. *)

Kind == TInv /\ Waits(Tables)

LEMMA KindInit == Init => Kind
<1> SUFFICES ASSUME Init PROVE Kind
  OBVIOUS
<1>1. TablesOK
  BY DEF Init, TablesOK, Tables, TableSet, Row, EntryStatus, PcStatuses
<1>2. SessionsOK
  BY DEF Init, SessionsOK, Open
<1>3. OthersOK
  BY DEF Init, OthersOK
<1>4. TasksOK
  BY IdleOK DEF Init, TasksOK, TaskOK
<1>5. Waits(Tables)
  BY DEF Init, Waits, Tables
<1> QED
  BY <1>1, <1>2, <1>3, <1>4, <1>5 DEF Kind, TInv

LEMMA SessionsSame == ASSUME SessionsOK, session' = session PROVE SessionsOK'
BY DEF SessionsOK

LEMMA OthersSame ==
  ASSUME OthersOK, UNCHANGED <<cleans, collecting, booking>> PROVE OthersOK'
BY DEF OthersOK

LEMMA TasksSame == ASSUME TasksOK, task' = task PROVE TasksOK'
BY DEF TasksOK

LEMMA HarmlessKind ==
  ASSUME Kind, Harmless(Tables, Tables'), SessionsOK', OthersOK', TasksOK'
  PROVE  Kind'
<1>1. TablesOK'
  BY DEF Harmless, Frame, TablesOK
<1>2. Waits(Tables')
  BY DEF Kind, Harmless
<1> QED
  BY <1>1, <1>2 DEF Kind, TInv

LEMMA LoadsTask ==
  ASSUME TInv, NEW p \in Workers, Loads(p)
  PROVE  /\ TasksOK' /\ \A q \in Workers \ {p} : task'[q] = task[q]
         /\ UNCHANGED <<reservation, entry, order, pc, session, cleans, collecting, booking>>
<1>0. /\ Tables \in TableSet /\ reservation \in [Reservations -> Row]
      /\ pc \in [Pcs -> PcStatuses] /\ TasksOK
  BY TablesTypes DEF TInv, TablesOK
<1>1. CASE \E r \in Reservations : RequestLoad(p, r)
  <2> PICK r \in Reservations : RequestLoad(p, r)
    BY <1>1
  <2> PICK w \in SomePc : w = Best(Tables, r)
    BY <1>0, BestPc
  <2>1. TaskOK([op |-> "request", r |-> r, pc |-> w])
    BY DEF TaskOK, Tasks, SomePc
  <2> QED
    BY <1>0, <2>1, TaskSet DEF RequestLoad
<1>2. CASE \E r \in Reservations : LaunchLoad(p, r)
  <2> PICK r \in Reservations : LaunchLoad(p, r)
    BY <1>2
  <2>0. reservation[r].pc \in Pcs
    BY <1>0 DEF LaunchLoad, Row
  <2> PICK w \in Pcs : w = reservation[r].pc
    BY <2>0
  <2> PICK c \in BOOLEAN : c = (reservation[r].status = "AWAITING_CHECKIN")
    OBVIOUS
  <2> PICK o \in BOOLEAN : o = (OpenSessions(r) # {})
    OBVIOUS
  <2>1. TaskOK([op |-> "launch", r |-> r, pc |-> w, checkin |-> c, open |-> o])
    BY DEF TaskOK, Tasks
  <2>2. Becomes(p, [op |-> "launch", r |-> r, pc |-> w, checkin |-> c, open |-> o])
    BY DEF LaunchLoad
  <2> QED
    BY <1>0, <2>1, <2>2, TaskSet DEF LaunchLoad
<1>3. CASE QueueLoad(p)
  <2> PICK q \in Seq(Reservations) : q = Waiting(Tables)
    BY <1>0, WaitingList
  <2>1. TaskOK([op |-> "queue", list |-> q])
    BY <1>3 DEF TaskOK, Tasks, QueueLoad
  <2> QED
    BY <1>0, <1>3, <2>1, TaskSet DEF QueueLoad
<1>4. CASE DueLoad(p)
  <2> PICK R \in SUBSET Reservations :
        R = {r \in Reservations : reservation[r].status = "AWAITING_CHECKIN" /\ reservation[r].timer = "due"}
    OBVIOUS
  <2>1. TaskOK([op |-> "due", rs |-> R])
    BY DEF TaskOK, Tasks
  <2>2. Becomes(p, [op |-> "due", rs |-> R])
    BY <1>4 DEF DueLoad
  <2> QED
    BY <1>0, <1>4, <2>1, <2>2, TaskSet DEF DueLoad
<1>5. CASE \E r \in Reservations, why \in Reasons : SweepLoad(p, r, why)
  <2> PICK r \in Reservations, why \in Reasons : SweepLoad(p, r, why)
    BY <1>5
  <2> PICK w \in SomePc : w = reservation[r].pc
    BY <1>0 DEF Row, SomePc
  <2>1. TaskOK([op |-> "sweep", r |-> r, why |-> why, pc |-> w, seen |-> pc])
    BY <1>0 DEF TaskOK, Tasks, SomePc
  <2> QED
    BY <1>0, <2>1, TaskSet DEF SweepLoad
<1>6. CASE \E w \in Pcs : OfflineLoad(p, w)
  <2> PICK w \in Pcs : OfflineLoad(p, w)
    BY <1>6
  <2>1. TaskOK([op |-> "status", pc |-> w, to |-> "OFFLINE"])
    BY DEF TaskOK, Tasks, PcStatuses
  <2> QED
    BY <1>0, <2>1, TaskSet DEF OfflineLoad
<1>7. CASE \E w \in Pcs, reported \in {"AVAILABLE", "BUSY"}, failed \in BOOLEAN :
               HeartbeatLoad(p, w, reported, failed)
  <2> PICK w \in Pcs, reported \in {"AVAILABLE", "BUSY"}, failed \in BOOLEAN :
        HeartbeatLoad(p, w, reported, failed)
    BY <1>7
  <2> PICK to \in PcStatuses : to = AfterBeat(w, reported, failed)
    BY <1>0 DEF AfterBeat, Blocked, PcStatuses, Sticky
  <2>2. TaskOK([op |-> "status", pc |-> w, to |-> to])
    BY DEF TaskOK, Tasks
  <2> QED
    BY <1>0, <2>2, TaskSet DEF HeartbeatLoad
<1> QED
  BY <1>1, <1>2, <1>3, <1>4, <1>5, <1>6, <1>7 DEF Loads

LEMMA LoadsKind ==
  ASSUME Kind, NEW p \in Workers, Loads(p)
  PROVE  Kind'
<1>1. /\ TasksOK'
      /\ UNCHANGED <<reservation, entry, order, pc, session, cleans, collecting, booking>>
  BY LoadsTask DEF Kind
<1>2. Tables' = Tables
  BY <1>1 DEF Tables
<1>3. SessionsOK' /\ OthersOK'
  BY <1>1, SessionsSame, OthersSame DEF Kind, TInv
<1> QED
  BY <1>1, <1>2, <1>3 DEF Kind, TInv, TablesOK

LEMMA BecomesIdle ==
  ASSUME TInv, NEW p \in Workers, Becomes(p, Idle)
  PROVE  TasksOK' /\ task'[p] = Idle /\ \A q \in Workers \ {p} : task'[q] = task[q]
BY IdleOK, TaskSet DEF TInv

LEMMA RequestKind ==
  ASSUME Kind, NEW p \in Workers, RequestCommit(p)
  PROVE  Kind'
<1>1. Harmless(Tables, Tables')
  BY RequestTables DEF Kind
<1>2. SessionsOK' /\ OthersOK' /\ TasksOK'
  BY SessionsSame, OthersSame, BecomesIdle DEF RequestCommit, Kind, TInv
<1> QED
  BY <1>1, <1>2, HarmlessKind

LEMMA LaunchReuseKind ==
  ASSUME Kind, NEW p \in Workers, LaunchReuse(p)
  PROVE  Kind'
<1> PICK r \in Reservations : r = task[p].r
  BY TaskTypes DEF Kind, TInv, TasksOK, LaunchReuse
<1> PICK st \in Status : st = IF task[p].checkin THEN "RESERVED" ELSE reservation[r].status
  BY TablesTypes DEF Kind, TInv, Status, Row, Holding, Started
<1>1. /\ reservation' = [reservation EXCEPT ![r].status = st]
      /\ st = "QUEUED" => reservation[r].status = "QUEUED"
  BY DEF LaunchReuse
<1>2. /\ UNCHANGED <<entry, order, pc, session, cleans, collecting, booking>> /\ Becomes(p, Idle)
      /\ pc' \in [Pcs -> PcStatuses]
  BY TablesTypes DEF LaunchReuse, Kind, TInv
<1>3. TablesOK' /\ Waits(Tables')
  BY <1>1, <1>2, RestatusTables DEF Kind, TInv
<1>4. SessionsOK' /\ OthersOK' /\ TasksOK'
  BY <1>2, SessionsSame, OthersSame, BecomesIdle DEF Kind, TInv
<1> QED
  BY <1>3, <1>4 DEF Kind, TInv

LEMMA LaunchRefusedKind ==
  ASSUME Kind, NEW p \in Workers, LaunchRefused(p)
  PROVE  Kind'
<1> PICK r \in Reservations : r = task[p].r
  BY TaskTypes DEF Kind, TInv, TasksOK, LaunchRefused
<1> PICK st \in Status : st = IF task[p].checkin THEN "AWAITING_CHECKIN" ELSE reservation[r].status
  BY TablesTypes DEF Kind, TInv, Status, Row, Holding
<1>1. /\ reservation' = [reservation EXCEPT ![r].status = st]
      /\ st = "QUEUED" => reservation[r].status = "QUEUED"
  BY DEF LaunchRefused
<1>2. /\ UNCHANGED <<entry, order, pc, session, cleans, collecting, booking>> /\ Becomes(p, Idle)
      /\ pc' \in [Pcs -> PcStatuses]
  BY TablesTypes DEF LaunchRefused, Kind, TInv
<1>3. TablesOK' /\ Waits(Tables')
  BY <1>1, <1>2, RestatusTables DEF Kind, TInv
<1>4. SessionsOK' /\ OthersOK' /\ TasksOK'
  BY <1>2, SessionsSame, OthersSame, BecomesIdle DEF Kind, TInv
<1> QED
  BY <1>3, <1>4 DEF Kind, TInv

LEMMA LaunchCreateKind ==
  ASSUME Kind, NEW p \in Workers, NEW s \in Sessions, LaunchCreate(p, s)
  PROVE  Kind'
<1> PICK r \in Reservations : r = task[p].r
  BY TaskTypes DEF Kind, TInv, TasksOK, LaunchCreate
<1> PICK w \in Pcs : w = task[p].pc
  BY TaskTypes DEF Kind, TInv, TasksOK, LaunchCreate
<1>1. /\ reservation' = [reservation EXCEPT ![r].status = "PREPARING"]
      /\ "PREPARING" \in Status
  BY DEF LaunchCreate, Status, Holding, Started
<1>2. /\ UNCHANGED <<entry, order, cleans, collecting, booking>> /\ Becomes(p, Idle)
      /\ pc' \in [Pcs -> PcStatuses]
  BY TablesTypes DEF LaunchCreate, Kind, TInv, PcStatuses, Sticky
<1>3. TablesOK' /\ Waits(Tables')
  BY <1>1, <1>2, RestatusTables DEF Kind, TInv
<1>4. SessionsOK'
  BY DEF LaunchCreate, Kind, TInv, SessionsOK, Open
<1>5. OthersOK' /\ TasksOK'
  BY <1>2, OthersSame, BecomesIdle DEF Kind, TInv
<1> QED
  BY <1>3, <1>4, <1>5 DEF Kind, TInv

LEMMA QueuePickKind ==
  ASSUME Kind, NEW p \in Workers, QueuePick(p)
  PROVE  Kind'
<1>1. /\ task[p].list \in Seq(Reservations) /\ task[p].list # <<>> /\ task[p].op = "queue"
      /\ task[p] \in Tasks /\ TasksOK
  BY TaskTypes DEF Kind, TInv, TasksOK, TaskOK, QueuePick
<1> PICK r \in Reservations : r = Head(task[p].list)
  BY <1>1, TailElems
<1> PICK q \in Seq(Reservations) : q = Tail(task[p].list)
  BY <1>1, TailElems
<1>2. TasksOK'
  <2>1. CASE entry[r] = "WAITING"
    <3> PICK w \in SomePc : w = Best(Tables, r)
      BY BestPc DEF Kind, TInv, TablesOK
    <3>1. TaskOK([op |-> "serve", r |-> r, pc |-> w, list |-> q])
      BY DEF TaskOK, Tasks, SomePc
    <3> QED
      BY <1>1, <2>1, <3>1, TaskSet DEF QueuePick
  <2>2. CASE entry[r] # "WAITING" /\ Len(task[p].list) = 1
    BY <2>2, BecomesIdle DEF QueuePick, Kind
  <2>3. CASE entry[r] # "WAITING" /\ Len(task[p].list) # 1
    <3>1. q # <<>>
      <4>1. Len(q) = Len(task[p].list) - 1 /\ Len(task[p].list) \in Nat
        BY <1>1, HeadTailProperties, LenProperties
      <4>2. q = <<>> => Len(q) = 0
        OBVIOUS
      <4> QED
        BY <2>3, <4>1, <4>2
    <3>4. TaskOK([op |-> "queue", list |-> q])
      BY <3>1 DEF TaskOK, Tasks
    <3>5. Becomes(p, [op |-> "queue", list |-> q])
      BY <2>3 DEF QueuePick
    <3> QED
      BY <1>1, <3>4, <3>5, TaskSet
  <2> QED
    BY <2>1, <2>2, <2>3
<1>3. UNCHANGED <<reservation, entry, order, pc, session, cleans, collecting, booking>>
  BY DEF QueuePick
<1>4. Tables' = Tables
  BY <1>3 DEF Tables
<1>5. SessionsOK' /\ OthersOK'
  BY <1>3, SessionsSame, OthersSame DEF Kind, TInv
<1> QED
  BY <1>2, <1>4, <1>5 DEF Kind, TInv, TablesOK

LEMMA QueueCommitKind ==
  ASSUME Kind, NEW p \in Workers, QueueCommit(p)
  PROVE  Kind'
<1>1. Harmless(Tables, Tables')
  BY QueueTables DEF Kind
<1>2. task[p].list \in Seq(Reservations)
  BY TaskTypes DEF Kind, TInv, TasksOK, QueueCommit
<1>3. TasksOK'
  <2>1. CASE task[p].list = <<>>
    BY <2>1, BecomesIdle DEF QueueCommit, Kind
  <2>2. CASE task[p].list # <<>>
    <3>1. TaskOK([op |-> "queue", list |-> task[p].list])
      BY <1>2, <2>2 DEF TaskOK, Tasks
    <3> QED
      BY <2>2, <3>1, TaskSet DEF QueueCommit, Kind, TInv
  <2> QED
    BY <2>1, <2>2
<1>4. SessionsOK' /\ OthersOK'
  BY SessionsSame, OthersSame DEF QueueCommit, Kind, TInv
<1> QED
  BY <1>1, <1>3, <1>4, HarmlessKind

LEMMA DueKind ==
  ASSUME Kind, NEW p \in Workers, DueCommit(p)
  PROVE  Kind'
<1>1. Harmless(Tables, Tables')
  BY DueTables DEF Kind
<1>2. SessionsOK' /\ OthersOK' /\ TasksOK'
  BY SessionsSame, OthersSame, BecomesIdle DEF DueCommit, Kind, TInv
<1> QED
  BY <1>1, <1>2, HarmlessKind

LEMMA SweepKind ==
  ASSUME Kind, NEW p \in Workers, SweepCommit(p)
  PROVE  Kind'
<1>1. Harmless(Tables, Tables')
  BY SweepTables DEF Kind
<1>2. SessionsOK' /\ OthersOK' /\ TasksOK'
  BY SessionsSame, OthersSame, BecomesIdle DEF SweepCommit, Kind, TInv
<1> QED
  BY <1>1, <1>2, HarmlessKind

LEMMA StatusKind ==
  ASSUME Kind, NEW p \in Workers, StatusCommit(p)
  PROVE  Kind'
<1>1. task[p].pc \in Pcs /\ task[p].to \in PcStatuses
  BY TaskTypes DEF Kind, TInv, TasksOK, StatusCommit
<1>2. TablesOK' /\ Waits(Tables')
  BY <1>1, TablesTypes, PcTables DEF StatusCommit, Kind, TInv
<1>3. SessionsOK' /\ OthersOK' /\ TasksOK'
  BY SessionsSame, OthersSame, BecomesIdle DEF StatusCommit, Kind, TInv
<1> QED
  BY <1>2, <1>3 DEF Kind, TInv

LEMMA CommitsKind ==
  ASSUME Kind, NEW p \in Workers, Commits(p)
  PROVE  Kind'
BY RequestKind, LaunchReuseKind, LaunchRefusedKind, LaunchCreateKind, QueuePickKind,
   QueueCommitKind, DueKind, SweepKind, StatusKind DEF Commits

(* Users, managers and agents. *)
LEMMA CleanupOK ==
  ASSUME TInv, NEW s \in Sessions, session[s].status \in Open, NEW final, NEW c \in BOOLEAN,
         Cleanup(s, final, c)
  PROVE  SessionsOK' /\ OthersOK'
<1> PICK w \in Pcs : w = session[s].pc
  BY DEF TInv, SessionsOK
<1> PICK r \in Reservations : r = session[s].reservation
  BY DEF TInv, SessionsOK
<1>1. SessionsOK'
  BY DEF TInv, SessionsOK, Cleanup, Closed, Open
<1>2. cleans' \subseteq Pcs /\ collecting' \subseteq Pcs
  BY DEF TInv, OthersOK, Cleanup
<1>3. booking' \in [Reservations -> [eligible : BOOLEAN, time : {"early", "late", "over"}]]
  <2> PICK b \in BOOLEAN : b = ~(final = "ENDED" /\ session[s].status = "ACTIVE")
    OBVIOUS
  <2>1. booking' = [booking EXCEPT ![r].eligible = @ /\ b]
    BY DEF Cleanup
  <2>2. booking[r] \in [eligible : BOOLEAN, time : {"early", "late", "over"}]
    BY DEF TInv, OthersOK
  <2> PICK e \in BOOLEAN : e = (booking[r].eligible /\ b)
    BY <2>2
  <2>3. booking' = [booking EXCEPT ![r] = [booking[r] EXCEPT !.eligible = e]]
    BY <2>1
  <2>4. [booking[r] EXCEPT !.eligible = e] \in [eligible : BOOLEAN, time : {"early", "late", "over"}]
    BY <2>2
  <2> QED
    BY <2>3, <2>4 DEF TInv, OthersOK
<1> QED
  BY <1>1, <1>2, <1>3 DEF OthersOK

LEMMA EndKind ==
  ASSUME Kind, NEW s \in Sessions, NEW c \in BOOLEAN, EndSession(s, c) \/ FailSession(s, c)
  PROVE  Kind'
<1>1. PICK final \in {"ENDED", "FAILED"} :
        /\ session[s].status \in Open /\ Cleanup(s, final, c) /\ task' = task
        /\ Save(Released(Tables, s, final, c))
  BY DEF EndSession, FailSession, Open
<1>2. Harmless(Tables, Tables')
  BY <1>1, EndTables DEF Kind
<1>3. SessionsOK' /\ OthersOK'
  BY <1>1, CleanupOK DEF Kind
<1> QED
  BY <1>1, <1>2, <1>3, TasksSame, HarmlessKind DEF Kind, TInv

LEMMA EndAnalysisKind ==
  ASSUME Kind, NEW r \in Reservations, NEW c \in BOOLEAN, EndAnalysis(r, c)
  PROVE  Kind'
<1>1. Harmless(Tables, Tables')
  BY EndAnalysisTables DEF Kind
<1>2. TasksOK'
  BY TasksSame DEF Kind, TInv, EndAnalysis
<1>3. SessionsOK' /\ OthersOK'
  <2>1. CASE \E s \in OpenSessions(r) : Cleanup(s, "ENDED", c)
    BY <2>1, CleanupOK DEF Kind, OpenSessions
  <2>2. CASE UNCHANGED <<session, cleans, collecting, booking>>
    BY <2>2, SessionsSame, OthersSame DEF Kind, TInv
  <2> QED
    BY <2>1, <2>2 DEF EndAnalysis
<1> QED
  BY <1>1, <1>2, <1>3, HarmlessKind

LEMMA HoldKind ==
  ASSUME Kind, NEW r \in Reservations, ReleaseByUser(r) \/ CancelByManager(r)
  PROVE  Kind'
<1>1. Harmless(Tables, Tables')
  BY ReleaseTables, CancelTables DEF Kind
<1>2. UNCHANGED <<session, cleans, collecting, booking, task>>
  BY DEF ReleaseByUser, CancelByManager
<1>3. SessionsOK' /\ OthersOK' /\ TasksOK'
  BY <1>2, SessionsSame, OthersSame, TasksSame DEF Kind, TInv
<1> QED
  BY <1>1, <1>3, HarmlessKind

LEMMA ConnectKind ==
  ASSUME Kind, NEW s \in Sessions, Connect(s) \/ Advance(s)
  PROVE  Kind'
<1> PICK r \in Reservations : r = session[s].reservation
  BY DEF Kind, TInv, SessionsOK, Connect, Advance, Open
<1>0. reservation[r].status \in Status
  BY TablesTypes DEF Kind, TInv, Row, Status
<1>1. PICK st \in Status : /\ reservation' = [reservation EXCEPT ![r].status = st]
                           /\ st = "QUEUED" => reservation[r].status = "QUEUED"
  <2>1. {"ACTIVE", "READY"} \subseteq Status
    BY DEF Status, Holding, Started
  <2>2. CASE Connect(s)
    <3> PICK st \in Status : st = IF reservation[r].status \in {"RESERVED", "PREPARING", "READY"}
                                 THEN "ACTIVE" ELSE reservation[r].status
      BY <1>0, <2>1
    <3> QED
      BY <2>2 DEF Connect
  <2>3. CASE Advance(s)
    <3> PICK st \in Status : st = IF reservation[r].status = "PREPARING"
                                 THEN "READY" ELSE reservation[r].status
      BY <1>0, <2>1
    <3> QED
      BY <2>3 DEF Advance
  <2> QED
    BY <2>2, <2>3
<1>2. /\ UNCHANGED <<entry, order, cleans, collecting, booking, task>>
      /\ pc' \in [Pcs -> PcStatuses]
  BY TablesTypes DEF Connect, Advance, Kind, TInv, PcStatuses, Sticky
<1>3. TablesOK' /\ Waits(Tables')
  BY <1>1, <1>2, RestatusTables DEF Kind, TInv
<1>4. SessionsOK'
  BY DEF Connect, Advance, Kind, TInv, SessionsOK, Open
<1>5. OthersOK' /\ TasksOK'
  BY <1>2, OthersSame, TasksSame DEF Kind, TInv
<1> QED
  BY <1>3, <1>4, <1>5 DEF Kind, TInv

LEMMA AgentKind ==
  ASSUME Kind, NEW w \in Pcs, NEW outcome \in Outcomes, Acknowledge(w) \/ CollectEnds(w, outcome)
  PROVE  Kind'
<1>1. /\ UNCHANGED <<reservation, entry, order, session, booking, task>>
      /\ pc' \in [Pcs -> PcStatuses]
  BY TablesTypes DEF Acknowledge, CollectEnds, Kind, TInv, PcStatuses, Sticky
<1>2. TablesOK' /\ Waits(Tables')
  BY <1>1, PcTables DEF Kind, TInv
<1>3. OthersOK'
  BY <1>1 DEF Acknowledge, CollectEnds, Kind, TInv, OthersOK
<1>4. SessionsOK' /\ TasksOK'
  BY <1>1, SessionsSame, TasksSame DEF Kind, TInv
<1> QED
  BY <1>2, <1>3, <1>4 DEF Kind, TInv

LEMMA TimeKind ==
  ASSUME Kind, NEW r \in Reservations, TimerExpires(r) \/ TimePasses(r) \/ LosesEligibility(r)
  PROVE  Kind'
<1>1. /\ UNCHANGED <<entry, order, pc, session, cleans, collecting, task>>
      /\ reservation' \in [Reservations -> Row]
      /\ \A o \in Reservations : reservation'[o].status = reservation[o].status
  BY ZenonT(90), TablesTypes DEF TimerExpires, TimePasses, LosesEligibility, Kind, TInv, Row
<1>2. TablesOK'
  BY <1>1, TablesTypes, TablesTyped DEF Kind, TInv
<1>3. Waits(Tables')
  BY <1>1, TablesParts DEF Kind, Waits
<1>4. OthersOK'
  BY ZenonT(90), <1>1 DEF TimerExpires, TimePasses, LosesEligibility, Kind, TInv, OthersOK
<1>5. SessionsOK' /\ TasksOK'
  BY <1>1, SessionsSame, TasksSame DEF Kind, TInv
<1> QED
  BY <1>2, <1>3, <1>4, <1>5 DEF Kind, TInv

LEMMA KindStep ==
  ASSUME Kind, [Next]_vars
  PROVE  Kind'
<1>1. CASE UNCHANGED vars
  <2>1. UNCHANGED <<reservation, entry, order, pc, session, cleans, collecting, booking, task>>
    BY <1>1 DEF vars
  <2>2. Tables' = Tables
    BY <2>1 DEF Tables
  <2> QED
    BY <2>1, <2>2, SessionsSame, OthersSame, TasksSame DEF Kind, TInv, TablesOK
<1>2. CASE Next
  BY <1>2, LoadsKind, CommitsKind, EndKind, EndAnalysisKind, HoldKind, ConnectKind,
     AgentKind, TimeKind DEF Next, Outcomes
<1> QED
  BY <1>1, <1>2

(* Every variable has its type, and a QUEUED reservation its entry in the   *)
(* queue, whatever users, managers, jobs and agents overlap.                *)
THEOREM TypeCorrect == Spec => []TypeOK
<1>1. Kind => TypeOK
  BY TypesOK DEF Kind
<1> QED
  BY <1>1, KindInit, KindStep, PTL DEF Spec

THEOREM NeverLost == Spec => []QueuedWaits
<1>1. Kind => QueuedWaits
  BY DEF Kind, Waits, Tables, QueuedWaits
<1> QED
  BY <1>1, KindInit, KindStep, PTL DEF Spec

-----------------------------------------------------------------------------
(* One desktop per reservation. *)

OneOpen == \A r \in Reservations : \A s1, s2 \in OpenSessions(r) : s1 = s2

LEMMA OneOpenCardinality == OneOpen => OneDesktop
<1> SUFFICES ASSUME OneOpen, NEW r \in Reservations PROVE Cardinality(OpenSessions(r)) <= 1
  BY DEF OneDesktop
<1>1. CASE OpenSessions(r) = {}
  BY <1>1, FS_EmptySet
<1>2. CASE OpenSessions(r) # {}
  <2>1. PICK s : OpenSessions(r) = {s}
    BY <1>2 DEF OneOpen
  <2>2. Cardinality({s}) = 1
    BY FS_Singleton
  <2> QED
    BY <2>1, <2>2
<1> QED
  BY <1>1, <1>2

LEMMA SessionsRead ==
  ASSUME session' = session PROVE \A r : OpenSessions(r)' = OpenSessions(r)
BY DEF OpenSessions

LEMMA ConnectOpen ==
  ASSUME TInv, NEW s \in Sessions, Connect(s) \/ Advance(s)
  PROVE  \A r : OpenSessions(r)' = OpenSessions(r)
<1>1. /\ session[s].status \in Open /\ session'[s].status \in Open
      /\ session'[s].reservation = session[s].reservation
      /\ \A v \in Sessions \ {s} : session'[v] = session[v]
  BY DEF Connect, Advance, Open, TInv, SessionsOK
<1> QED
  BY <1>1 DEF OpenSessions

LEMMA CreateOpen ==
  ASSUME TInv, NEW p \in Workers, NEW s \in Sessions, LaunchCreate(p, s),
         NEW r \in Reservations, r = task[p].r
  PROVE  /\ OpenSessions(r)' = OpenSessions(r) \cup {s}
         /\ \A o \in Reservations \ {r} : OpenSessions(o)' = OpenSessions(o)
<1>1. /\ session[s].status = "NONE" /\ session'[s].status = "PREPARING"
      /\ session'[s].reservation = r
      /\ \A v \in Sessions \ {s} : session'[v] = session[v]
  BY DEF LaunchCreate, TInv, SessionsOK
<1>2. OpenSessions(r)' = OpenSessions(r) \cup {s}
  BY <1>1 DEF OpenSessions, Open
<1>3. \A o \in Reservations \ {r} : OpenSessions(o)' = OpenSessions(o)
  BY <1>1 DEF OpenSessions, Open
<1> QED
  BY <1>2, <1>3

(* Where no desktop ends: who has started has a desktop, and a launch that  *)
(* is no check-in has seen it.                                              *)
NothingEnds == "end" \notin Operations /\ "fail" \notin Operations

LaunchSees(t) == t.op = "launch" /\ ~t.checkin => t.open /\ OpenSessions(t.r) # {}

DesktopInv ==
  /\ OneOpen
  /\ \A r \in Reservations : reservation[r].status \in Started => OpenSessions(r) # {}
  /\ \A p \in Workers : LaunchSees(task[p])

LEMMA DesktopInit == Init => DesktopInv
BY DEF Init, DesktopInv, OneOpen, OpenSessions, Open, Started, LaunchSees, Idle

(* A step that starts nothing new and leaves the desktops alone. *)
LEMMA DesktopKept ==
  ASSUME DesktopInv, \A r : OpenSessions(r)' = OpenSessions(r),
         \A r \in Reservations : reservation'[r].status \in Started =>
             reservation[r].status \in Started \/ OpenSessions(r) # {},
         \A p \in Workers : LaunchSees(task'[p]) \/ task'[p] = task[p]
  PROVE  DesktopInv'
<1>1. OneOpen'
  BY DEF DesktopInv, OneOpen
<1>2. \A r \in Reservations : reservation'[r].status \in Started => OpenSessions(r)' # {}
  BY DEF DesktopInv
<1>3. \A p \in Workers : LaunchSees(task[p])'
  BY DEF DesktopInv, LaunchSees
<1> QED
  BY <1>1, <1>2, <1>3 DEF DesktopInv

LEMMA HarmlessStarts ==
  ASSUME Harmless(Tables, Tables')
  PROVE  \A r \in Reservations : reservation'[r].status \in Started => reservation[r].status \in Started
BY TablesParts DEF Harmless, NoneStarts

LEMMA LoadsSee ==
  ASSUME TInv, NEW p \in Workers, Loads(p), DesktopInv
  PROVE  LaunchSees(task'[p])
<1>1. CASE \E r \in Reservations : LaunchLoad(p, r)
  <2> PICK r \in Reservations : LaunchLoad(p, r)
    BY <1>1
  <2>1. reservation[r].status = "AWAITING_CHECKIN" \/ OpenSessions(r) # {}
    BY DEF LaunchLoad, DesktopInv, Holding
  <2> PICK c \in BOOLEAN : c = (reservation[r].status = "AWAITING_CHECKIN")
    OBVIOUS
  <2> PICK o \in BOOLEAN : o = (OpenSessions(r) # {})
    OBVIOUS
  <2>2. Becomes(p, [op |-> "launch", r |-> r, pc |-> reservation[r].pc, checkin |-> c, open |-> o])
    BY DEF LaunchLoad
  <2>3. task'[p] = [op |-> "launch", r |-> r, pc |-> reservation[r].pc, checkin |-> c, open |-> o]
    BY <2>2 DEF Becomes, TInv, TasksOK
  <2>4. task'[p].r = r /\ task'[p].checkin = c /\ task'[p].open = o
    BY <2>3
  <2>5. ~c => o /\ OpenSessions(r) # {}
    BY <2>1
  <2> QED
    BY <2>4, <2>5 DEF LaunchSees
<1>2. CASE ~ \E r \in Reservations : LaunchLoad(p, r)
  <2>1. task'[p].op # "launch"
    BY <1>2 DEF Loads, RequestLoad, QueueLoad, DueLoad, SweepLoad, OfflineLoad, HeartbeatLoad,
                Becomes, TInv, TasksOK
  <2> QED
    BY <2>1 DEF LaunchSees
<1> QED
  BY <1>1, <1>2

LEMMA CommitTask ==
  ASSUME TInv, NEW p \in Workers, Commits(p)
  PROVE  task'[p].op # "launch" /\ \A q \in Workers \ {p} : task'[q] = task[q]
BY SMTT(30) DEF Commits, RequestCommit, LaunchReuse, LaunchRefused, LaunchCreate, QueuePick, QueueCommit,
       DueCommit, SweepCommit, StatusCommit, Becomes, TInv, TasksOK, Idle

LEMMA DesktopCommits ==
  ASSUME Kind, DesktopInv, NEW p \in Workers, Commits(p)
  PROVE  DesktopInv'
<1>0. TInv
  BY DEF Kind
<1>1. \A q \in Workers : LaunchSees(task'[q]) \/ task'[q] = task[q]
  BY <1>0, CommitTask DEF LaunchSees
<1>2. CASE RequestCommit(p) \/ QueueCommit(p) \/ DueCommit(p) \/ SweepCommit(p)
  <2>1. Harmless(Tables, Tables') /\ session' = session
    BY <1>0, <1>2, RequestTables, QueueTables, DueTables, SweepTables
       DEF RequestCommit, QueueCommit, DueCommit, SweepCommit
  <2> QED
    BY <1>1, <2>1, HarmlessStarts, SessionsRead, DesktopKept
<1>3. CASE QueuePick(p) \/ StatusCommit(p)
  <2>1. reservation' = reservation /\ session' = session
    BY <1>3 DEF QueuePick, StatusCommit
  <2> QED
    BY <1>1, <2>1, SessionsRead, DesktopKept
<1>4. CASE LaunchReuse(p) \/ LaunchRefused(p) \/ \E s \in Sessions : LaunchCreate(p, s)
  <2> PICK r \in Reservations : r = task[p].r
    BY <1>0, <1>4, TaskTypes DEF TInv, TasksOK, LaunchReuse, LaunchRefused, LaunchCreate
  <2>0. task[p].op = "launch" /\ (task[p].checkin \/ task[p].open)
    BY <1>4 DEF LaunchReuse, LaunchRefused, LaunchCreate, DesktopInv, LaunchSees
  <2>1. \A o \in Reservations \ {r} : reservation'[o] = reservation[o]
    BY <1>0, <1>4, TablesTypes DEF LaunchReuse, LaunchRefused, LaunchCreate, TInv
  <2>2. CASE LaunchReuse(p)
    <3>1. session' = session /\ OpenSessions(r) # {}
      BY <2>0, <2>2 DEF LaunchReuse, Reuses, DesktopInv, LaunchSees
    <3> QED
      BY <1>1, <2>1, <3>1, SessionsRead, DesktopKept
  <2>3. CASE LaunchRefused(p)
    <3>1. session' = session /\ task[p].checkin
      BY <2>0, <2>3 DEF LaunchRefused, Reuses
    <3>2. reservation'[r].status = "AWAITING_CHECKIN"
      BY <1>0, <2>3, <3>1, TablesTypes DEF LaunchRefused, TInv, Row
    <3> QED
      BY <1>1, <2>1, <3>1, <3>2, SessionsRead, DesktopKept DEF Started
  <2>4. CASE \E s \in Sessions : LaunchCreate(p, s)
    <3> PICK s \in Sessions : LaunchCreate(p, s)
      BY <2>4
    <3>1. OpenSessions(r) = {}
      BY <2>0 DEF LaunchCreate, Reuses
    <3>2. OpenSessions(r)' = {s} /\ \A o \in Reservations \ {r} : OpenSessions(o)' = OpenSessions(o)
      BY <1>0, <3>1, CreateOpen
    <3>3. OneOpen'
      BY <3>2 DEF DesktopInv, OneOpen
    <3>4. \A o \in Reservations : reservation'[o].status \in Started => OpenSessions(o)' # {}
      BY <2>1, <3>2 DEF DesktopInv
    <3>5. \A q \in Workers : LaunchSees(task[q])'
      <4> SUFFICES ASSUME NEW q \in Workers PROVE LaunchSees(task[q])'
        OBVIOUS
      <4> PICK t : t = task'[q]
        OBVIOUS
      <4>1. \A o \in Reservations : OpenSessions(o) # {} => OpenSessions(o)' # {}
        BY <3>2
      <4>2. t.op = "launch" /\ ~t.checkin => t.open /\ OpenSessions(t.r)' # {}
        <5> SUFFICES ASSUME t.op = "launch", ~t.checkin PROVE t.open /\ OpenSessions(t.r)' # {}
          OBVIOUS
        <5>1. t = task[q]
          BY <1>0, CommitTask
        <5>2. t.open /\ OpenSessions(t.r) # {} /\ t.r \in Reservations
          BY <1>0, <5>1, TaskTypes DEF DesktopInv, LaunchSees, TInv, TasksOK
        <5> QED
          BY <4>1, <5>2
      <4> QED
        BY <4>2 DEF LaunchSees
    <3> QED
      BY <3>3, <3>4, <3>5 DEF DesktopInv
  <2> QED
    BY <1>4, <2>2, <2>3, <2>4
<1> QED
  BY <1>2, <1>3, <1>4 DEF Commits

LEMMA DesktopStep ==
  ASSUME NothingEnds, Kind, DesktopInv, [Next]_vars
  PROVE  DesktopInv'
<1>0. TInv
  BY DEF Kind
<1>1. CASE UNCHANGED vars
  BY <1>1, SessionsRead, DesktopKept DEF vars
<1>2. CASE \E p \in Workers : Loads(p)
  <2> PICK p \in Workers : Loads(p)
    BY <1>2
  <2>1. LaunchSees(task'[p]) /\ \A q \in Workers \ {p} : task'[q] = task[q]
    BY <1>0, LoadsSee, LoadsTask
  <2>2. reservation' = reservation /\ session' = session
    BY <1>0, LoadsTask
  <2> QED
    BY <2>1, <2>2, SessionsRead, DesktopKept
<1>3. CASE \E p \in Workers : Commits(p)
  BY <1>3, DesktopCommits
<1>4. CASE \E r \in Reservations : ReleaseByUser(r) \/ CancelByManager(r)
  <2>1. Harmless(Tables, Tables')
    BY <1>0, <1>4, ReleaseTables, CancelTables
  <2>2. session' = session /\ task' = task
    BY <1>4 DEF ReleaseByUser, CancelByManager
  <2> QED
    BY <2>1, <2>2, HarmlessStarts, SessionsRead, DesktopKept
<1>5. CASE \E s \in Sessions : Advance(s) \/ Connect(s)
  <2> PICK s \in Sessions : Connect(s) \/ Advance(s)
    BY <1>5
  <2>1. \A r : OpenSessions(r)' = OpenSessions(r)
    BY <1>0, ConnectOpen
  <2>2. session[s].reservation \in Reservations /\ s \in OpenSessions(session[s].reservation)
    BY <1>0 DEF TInv, SessionsOK, Connect, Advance, Open, OpenSessions
  <2>3. \A r \in Reservations \ {session[s].reservation} : reservation'[r] = reservation[r]
    BY <1>0, TablesTypes DEF Connect, Advance, TInv
  <2>4. task' = task
    BY DEF Connect, Advance
  <2> QED
    BY <2>1, <2>2, <2>3, <2>4, DesktopKept
<1>6. CASE \/ \E w \in Pcs : Acknowledge(w)
           \/ \E w \in Pcs, outcome \in Outcomes : CollectEnds(w, outcome)
  <2>1. reservation' = reservation /\ session' = session /\ task' = task
    BY <1>6 DEF Acknowledge, CollectEnds
  <2> QED
    BY <2>1, SessionsRead, DesktopKept
<1>7. CASE \E r \in Reservations : TimerExpires(r) \/ TimePasses(r) \/ LosesEligibility(r)
  <2>1. /\ session' = session /\ task' = task
        /\ \A o \in Reservations : reservation'[o].status = reservation[o].status
    BY <1>0, <1>7, TablesTypes DEF TimerExpires, TimePasses, LosesEligibility, TInv, Row
  <2> QED
    BY <2>1, SessionsRead, DesktopKept
<1>8. ~ \E r \in Reservations, c \in BOOLEAN : EndAnalysis(r, c)
  BY DEF EndAnalysis, SomeWorker, NothingEnds
<1>9. ~ \E s \in Sessions, c \in BOOLEAN : EndSession(s, c) \/ FailSession(s, c)
  BY DEF EndSession, FailSession, SomeWorker, NothingEnds
<1> QED
  BY <1>1, <1>2, <1>3, <1>4, <1>5, <1>6, <1>7, <1>8, <1>9 DEF Next

(* However many launches overlap, with the queue, the check-in timers, the  *)
(* sweep, managers and agents: a reservation opens one desktop, as long as  *)
(* no desktop ends meanwhile.                                               *)
THEOREM OneDesktopOverlap == NothingEnds => (Spec => []OneDesktop)
<1> SUFFICES ASSUME NothingEnds PROVE Spec => []OneDesktop
  OBVIOUS
<1>1. Init => Kind /\ DesktopInv
  BY KindInit, DesktopInit
<1>2. Kind /\ DesktopInv /\ [Next]_vars => Kind' /\ DesktopInv'
  BY KindStep, DesktopStep
<1>3. DesktopInv => OneDesktop
  BY OneOpenCardinality DEF DesktopInv
<1> QED
  BY <1>1, <1>2, <1>3, PTL DEF Spec

-----------------------------------------------------------------------------
(* One worker at a time: what the tables say together. *)

Agree(t, o) == t.res[o].status = "QUEUED" <=> t.entry[o] = "WAITING"

(* Who waits is queued or closed, and has its place in the order.           *)
Queued(t) ==
  \A o \in Reservations : t.entry[o] = "WAITING" =>
      t.res[o].status \in Terminal \cup {"QUEUED"} /\ o \in Elems(t.order)

(* Who has no PC yet, has none.                                             *)
NoPcYet(t) ==
  \A o \in Reservations : t.res[o].status \in {"NONE", "QUEUED"} => t.res[o].pc = NoPc

OneHolder(t) ==
  \A w \in Pcs : \A r1, r2 \in Holders(t, w) :
      r1 = r2 \/ booking[r1].time = "over" \/ booking[r2].time = "over"

(* A PC that is offline is held by nobody.                                  *)
OfflineFree(t) == \A w \in Pcs : t.pc[w] = "OFFLINE" => Holders(t, w) = {}

Sound(t) == Waits(t) /\ Queued(t) /\ NoPcYet(t) /\ OneHolder(t) /\ OfflineFree(t)

(* Who has started is left alone, and nobody starts.                        *)
StartedKept(t, u) ==
  \A o \in Reservations : t.res[o].status \in Started \/ u.res[o].status \in Started =>
      u.res[o] = t.res[o]

MissedKept(t, u) == \A o \in Reservations : u.res[o].missed = t.res[o].missed

(* The PC w may be given to r. *)
Candidate(t, w, r) ==
  w # NoPc => /\ w \in Pcs /\ t.pc[w] = "AVAILABLE"
              /\ \A o \in Holders(t, w) \ {r} : booking[o].time = "over"

LEMMA BestCandidate ==
  ASSUME NEW t \in TableSet, NEW r \in Reservations
  PROVE  Candidate(t, Best(t, r), r)
<1>1. Best(t, r) \in SomePc
  BY BestPc
<1>2. Best(t, r) # NoPc =>
               /\ t.pc[Best(t, r)] = "AVAILABLE"
               /\ \A o \in Holders(t, Best(t, r)) \ {r} : booking[o].time = "over"
  BY BestPc
<1> QED
  BY <1>1, <1>2 DEF Candidate, SomePc

(* No PC gets a holder, and none that has one becomes OFFLINE.              *)
LEMMA FewerHolders ==
  ASSUME NEW t, NEW u, Frame(t, u), OneHolder(t), OfflineFree(t),
         \A o \in Reservations : u.res[o].status \in Holding =>
             t.res[o].status \in Holding /\ u.res[o].pc = t.res[o].pc
  PROVE  OneHolder(u) /\ OfflineFree(u)
<1>1. \A w : Holders(u, w) \subseteq Holders(t, w)
  BY DEF Holders
<1>2. OneHolder(u)
  BY <1>1 DEF OneHolder
<1>3. OfflineFree(u)
  BY <1>1 DEF OfflineFree, Frame
<1> QED
  BY <1>2, <1>3

LEMMA DecidedSound ==
  ASSUME NEW t \in TableSet, NEW u, NEW r \in Reservations, NEW w,
         Sound(t), Decided(t, u, r, w), t.res[r].status \in {"NONE", "QUEUED"}, Candidate(t, w, r)
  PROVE  Sound(u) /\ Agree(u, r) /\ StartedKept(t, u) /\ MissedKept(t, u)
<1>0. /\ Frame(t, u) /\ RowsKept(t, u, Reservations \ {r})
      /\ u.res[r].status \in {"CANCELLED", "EXPIRED", "QUEUED", "AWAITING_CHECKIN"}
      /\ u.res[r].status = "QUEUED" <=> u.entry[r] = "WAITING"
      /\ u.res[r].status = "AWAITING_CHECKIN" => w \in Pcs /\ u.res[r].pc = w
      /\ u.res[r].status # "AWAITING_CHECKIN" => u.res[r].pc = t.res[r].pc
      /\ u.res[r].missed = t.res[r].missed
  BY DEF Decided
<1>1. Agree(u, r)
  BY <1>0 DEF Agree
<1>2. StartedKept(t, u) /\ MissedKept(t, u)
  BY <1>0 DEF StartedKept, MissedKept, RowsKept, Started
<1>3. Waits(u)
  BY <1>0 DEF Sound, Waits, RowsKept
<1>4. Queued(u)
  BY <1>0 DEF Sound, Queued, RowsKept, Frame
<1>5. NoPcYet(u)
  BY <1>0 DEF Sound, NoPcYet, RowsKept
<1>6. \A v \in Pcs : \A o \in Holders(u, v) : o \in Holders(t, v) \/ (o = r /\ v = w)
  BY <1>0 DEF Holders, RowsKept, Holding, Started
<1>7. r \notin Holders(t, w)
  BY DEF Holders, Holding, Started
<1>8. w \in Pcs => w # NoPc
  BY SchedulerAssumption
<1>9. OneHolder(u)
  BY <1>6, <1>8 DEF Sound, OneHolder, Candidate
<1>10. OfflineFree(u)
  BY <1>0, <1>6, <1>8 DEF Sound, OfflineFree, Candidate, Frame
<1> QED
  BY <1>1, <1>2, <1>3, <1>4, <1>5, <1>9, <1>10 DEF Sound

LEMMA EndedSound ==
  ASSUME NEW t \in TableSet, NEW u, NEW r \in Reservations,
         Sound(t), Ended(t, u, r), t.res[r].status = "AWAITING_CHECKIN"
  PROVE  Sound(u) /\ Agree(u, r) /\ StartedKept(t, u)
<1>0. /\ Frame(t, u) /\ RowsKept(t, u, Reservations \ {r})
      /\ u.res[r].status \in {"QUEUED", "CANCELLED"} /\ u.res[r].pc = NoPc
      /\ u.res[r].status = "QUEUED" => u.entry[r] = "WAITING"
      /\ u.res[r].status = "CANCELLED" => u.entry[r] = t.entry[r]
  BY DEF Ended
<1>1. t.entry[r] # "WAITING"
  BY DEF Sound, Queued, Terminal
<1>2. Agree(u, r)
  BY <1>0, <1>1 DEF Agree
<1>3. StartedKept(t, u)
  BY <1>0 DEF StartedKept, RowsKept, Started
<1>4. Waits(u)
  BY <1>0 DEF Sound, Waits, RowsKept
<1>5. Queued(u)
  BY <1>0, <1>1 DEF Sound, Queued, RowsKept, Frame
<1>6. NoPcYet(u)
  BY <1>0 DEF Sound, NoPcYet, RowsKept
<1>7. OneHolder(u) /\ OfflineFree(u)
  <2>1. \A o \in Reservations : u.res[o].status \in Holding =>
             t.res[o].status \in Holding /\ u.res[o].pc = t.res[o].pc
    BY <1>0 DEF RowsKept, Holding, Started
  <2> QED
    BY <1>0, <2>1, FewerHolders DEF Sound
<1> QED
  BY <1>2, <1>3, <1>4, <1>5, <1>6, <1>7 DEF Sound

LEMMA ClosesSound ==
  ASSUME NEW t \in TableSet, NEW u, NEW r \in Reservations,
         Sound(t), Closes(t, u, r), t.res[r].status \in Terminal
  PROVE  Sound(u) /\ Agree(u, r) /\ StartedKept(t, u) /\ MissedKept(t, u)
<1>0. /\ Frame(t, u) /\ RowsKept(t, u, Reservations \ {r})
      /\ u.res = t.res /\ u.entry[r] # "WAITING"
  BY DEF Closes
<1>1. Agree(u, r)
  BY <1>0 DEF Agree, Terminal
<1>2. StartedKept(t, u) /\ MissedKept(t, u) /\ NoPcYet(u)
  BY <1>0 DEF StartedKept, MissedKept, NoPcYet, Sound
<1>3. Waits(u) /\ Queued(u)
  BY <1>0 DEF Sound, Waits, Queued, RowsKept, Frame, Terminal
<1>4. OneHolder(u) /\ OfflineFree(u)
  BY <1>0, FewerHolders DEF Sound
<1> QED
  BY <1>1, <1>2, <1>3, <1>4 DEF Sound

(* A row is closed, by a sweep, a manager or the end of the analysis.       *)
LEMMA ClosingSound ==
  ASSUME NEW t \in TableSet, NEW u, NEW r \in Reservations, Sound(t), Closing(t, u, r)
  PROVE  Sound(u) /\ MissedKept(t, u)
<1>0. /\ Frame(t, u) /\ RowsKept(t, u, Reservations \ {r}) /\ u.order = t.order
      /\ u.res[r].status \in Terminal /\ u.res[r].missed = t.res[r].missed
      /\ u.entry[r] = t.entry[r] \/ u.entry[r] # "WAITING"
  BY DEF Closing
<1>1. MissedKept(t, u)
  BY <1>0 DEF MissedKept, RowsKept
<1>2. Waits(u) /\ NoPcYet(u)
  BY <1>0 DEF Sound, Waits, NoPcYet, RowsKept, Terminal
<1>3. Queued(u)
  BY <1>0 DEF Sound, Queued, RowsKept
<1>4. OneHolder(u) /\ OfflineFree(u)
  <2>1. \A o \in Reservations : u.res[o].status \in Holding =>
             t.res[o].status \in Holding /\ u.res[o].pc = t.res[o].pc
    BY <1>0 DEF RowsKept, Holding, Started, Terminal
  <2> QED
    BY <1>0, <2>1, FewerHolders DEF Sound
<1> QED
  BY <1>1, <1>2, <1>3, <1>4 DEF Sound

LEMMA ServeSound ==
  ASSUME NEW t \in TableSet, NEW r \in Reservations, Sound(t)
  PROVE  /\ Sound(Serve(t, r)) /\ Agree(Serve(t, r), r)
         /\ StartedKept(t, Serve(t, r)) /\ MissedKept(t, Serve(t, r))
<1> DEFINE u == Serve(t, r)
           w == Best(t, r)
<1>0. \/ t.entry[r] # "WAITING" /\ u = t
      \/ t.res[r].status \in Terminal /\ Closes(t, u, r)
      \/ t.res[r].status \notin Terminal /\ t.entry[r] = "WAITING" /\ Decided(t, u, r, w)
  BY ServeRow
<1>1. Candidate(t, w, r)
  BY BestCandidate
<1> HIDE DEF u, w
<1>2. ASSUME t.entry[r] # "WAITING", u = t
      PROVE  Sound(u) /\ Agree(u, r) /\ StartedKept(t, u) /\ MissedKept(t, u)
  BY <1>2 DEF Sound, Waits, Agree, StartedKept, MissedKept
<1>3. ASSUME t.res[r].status \in Terminal, Closes(t, u, r)
      PROVE  Sound(u) /\ Agree(u, r) /\ StartedKept(t, u) /\ MissedKept(t, u)
  BY <1>3, ClosesSound
<1>4. ASSUME t.res[r].status \notin Terminal, t.entry[r] = "WAITING", Decided(t, u, r, w)
      PROVE  Sound(u) /\ Agree(u, r) /\ StartedKept(t, u) /\ MissedKept(t, u)
  <2>1. t.res[r].status \in {"NONE", "QUEUED"}
    BY <1>4 DEF Sound, Queued
  <2> QED
    BY <1>1, <1>4, <2>1, DecidedSound
<1>5. Sound(u) /\ Agree(u, r) /\ StartedKept(t, u) /\ MissedKept(t, u)
  BY <1>0, <1>2, <1>3, <1>4
<1> QED
  BY <1>5 DEF u

LEMMA StartedTrans ==
  ASSUME NEW t, NEW u, NEW v, StartedKept(t, u), StartedKept(u, v)
  PROVE  StartedKept(t, v)
BY DEF StartedKept

(* The queue job leaves nobody waiting who is not queued.                   *)
LEMMA ServeAllSound ==
  ASSUME NEW t \in TableSet, Sound(t)
  PROVE  /\ Sound(ServeAll(t)) /\ \A o \in Reservations : Agree(ServeAll(t), o)
         /\ StartedKept(t, ServeAll(t)) /\ MissedKept(t, ServeAll(t))
<1> DEFINE list == Waiting(t)
           n == Len(list)
<1> PICK f : ServedFrom(f, t, list) /\ ServeAll(t) = f[n]
  BY ServedEntries
<1>1. /\ n \in Nat /\ \A i \in 1..n : i \in 0..n /\ i - 1 \in 0..n /\ list[i] \in Reservations
      /\ f \in [0..n -> TableSet] /\ f[0] = t
      /\ \A i \in 1..n : f[i] = Serve(f[i - 1], list[i])
  <2>1. n \in Nat /\ \A i \in 1..n : list[i] \in Reservations
    BY WaitingList, ElementOfSeq, LenProperties
  <2> QED
    BY <2>1 DEF ServedFrom
<1>2. \A o \in Reservations : ~Agree(t, o) => \E k \in 1..n : list[k] = o
  <2> SUFFICES ASSUME NEW o \in Reservations, ~Agree(t, o) PROVE \E k \in 1..n : list[k] = o
    OBVIOUS
  <2>1. t.entry[o] = "WAITING" /\ o \in Elems(t.order)
    BY DEF Agree, Sound, Waits, Queued
  <2>2. o \in Elems(list)
    BY <2>1, WaitingList
  <2> QED
    BY <2>2 DEF Elems
<1> HIDE DEF list, n
<1> DEFINE Later(i, o) == \E k \in 1..n : i < k /\ list[k] = o
           Good(i) == /\ Sound(f[i]) /\ StartedKept(t, f[i]) /\ MissedKept(t, f[i])
                      /\ \A o \in Reservations : Agree(f[i], o) \/ Later(i, o)
           T == {i \in 0..n : Good(i)}
<1>3. 0 \in T
  <2>1. \A o \in Reservations : Agree(f[0], o) \/ Later(0, o)
    BY <1>1, <1>2
  <2>2. StartedKept(t, f[0]) /\ MissedKept(t, f[0])
    BY <1>1 DEF StartedKept, MissedKept
  <2> QED
    BY <1>1, <2>1, <2>2
<1>4. ASSUME NEW i \in 1..n, i - 1 \in T PROVE i \in T
  <2>1. /\ f[i - 1] \in TableSet /\ f[i] = Serve(f[i - 1], list[i]) /\ list[i] \in Reservations
        /\ i \in 0..n
    BY <1>1
  <2>2. Good(i - 1)
    BY <1>4
  <2>3. /\ Sound(f[i]) /\ Agree(f[i], list[i])
        /\ StartedKept(f[i - 1], f[i]) /\ MissedKept(f[i - 1], f[i])
    BY <2>1, <2>2, ServeSound
  <2>4. RowsKept(f[i - 1], f[i], Reservations \ {list[i]})
    BY <2>1, ServeFrame
  <2>5. ASSUME NEW o \in Reservations PROVE Agree(f[i], o) \/ Later(i, o)
    <3>1. CASE o = list[i]
      BY <2>3, <3>1
    <3>2. CASE o # list[i]
      <4>1. Agree(f[i], o) <=> Agree(f[i - 1], o)
        BY <2>4, <3>2 DEF RowsKept, Agree
      <4>2. Later(i - 1, o) => Later(i, o)
        BY <1>1, <3>2
      <4> QED
        BY <2>2, <4>1, <4>2
    <3> QED
      BY <3>1, <3>2
  <2>6. StartedKept(t, f[i]) /\ MissedKept(t, f[i])
    BY <2>2, <2>3, StartedTrans DEF MissedKept
  <2> HIDE DEF Later
  <2> QED
    BY <2>1, <2>3, <2>5, <2>6
<1> HIDE DEF T
<1>5. 0..n \subseteq T
  BY <1>1, <1>3, <1>4, UpTo
<1>6. n \in T
  BY <1>1, <1>5
<1>7. Good(n) /\ \A o : ~Later(n, o)
  BY <1>1, <1>6 DEF T
<1> HIDE DEF Later
<1> QED
  BY <1>7

(* Holds that have run out, one after another. *)
LEMMA ReleaseAllSound ==
  ASSUME NEW t \in TableSet, Sound(t), NEW q \in Seq(Reservations),
         \A i, j \in 1..Len(q) : i # j => q[i] # q[j],
         \A i \in 1..Len(q) : t.res[q[i]].status = "AWAITING_CHECKIN"
  PROVE  Sound(ReleaseAll(t, q)) /\ StartedKept(t, ReleaseAll(t, q))
<1> DEFINE n == Len(q)
<1> PICK f : ReleasedFrom(f, t, q) /\ ReleaseAll(t, q) = f[n]
  BY ReleasedHolds
<1>1. /\ n \in Nat /\ \A i \in 1..n : i \in 0..n /\ i - 1 \in 0..n /\ q[i] \in Reservations
      /\ f \in [0..n -> TableSet] /\ f[0] = t
      /\ \A i \in 1..n : Ended(f[i - 1], f[i], q[i])
  BY ElementOfSeq, LenProperties DEF ReleasedFrom
<1> DEFINE Good(i) == /\ Sound(f[i]) /\ StartedKept(t, f[i])
                      /\ \A k \in 1..n : i < k => f[i].res[q[k]] = t.res[q[k]]
           T == {i \in 0..n : Good(i)}
<1> HIDE DEF n
<1>2. 0 \in T
  BY <1>1 DEF StartedKept
<1>3. ASSUME NEW i \in 1..n, i - 1 \in T PROVE i \in T
  <2>1. /\ f[i - 1] \in TableSet /\ Ended(f[i - 1], f[i], q[i]) /\ q[i] \in Reservations
        /\ i \in 0..n /\ i - 1 < i
    BY <1>1
  <2>2. Good(i - 1)
    BY <1>3
  <2>3. f[i - 1].res[q[i]].status = "AWAITING_CHECKIN"
    BY <2>1, <2>2 DEF n
  <2>4. Sound(f[i]) /\ StartedKept(f[i - 1], f[i])
    BY <2>1, <2>2, <2>3, EndedSound
  <2>5. StartedKept(t, f[i])
    BY <2>2, <2>4, StartedTrans
  <2>6. ASSUME NEW k \in 1..n, i < k PROVE f[i].res[q[k]] = t.res[q[k]]
    <3>1. q[k] \in Reservations \ {q[i]} /\ i - 1 < k
      BY <1>1, <2>6 DEF n
    <3>2. f[i].res[q[k]] = f[i - 1].res[q[k]]
      BY <2>1, <3>1 DEF Ended, RowsKept
    <3> QED
      BY <2>2, <3>1, <3>2
  <2> QED
    BY <2>1, <2>4, <2>5, <2>6
<1> HIDE DEF T
<1>4. 0..n \subseteq T
  BY <1>1, <1>2, <1>3, UpTo
<1>5. n \in T
  BY <1>1, <1>4
<1> QED
  BY <1>5 DEF T

-----------------------------------------------------------------------------
(* Operations that are carried out one after another. *)

OneAtATime == \A p, q \in Workers : p = q

AllAgree(t) == \A o \in Reservations : Agree(t, o)

(* What a worker has read is still so when it writes.                       *)
TaskSound(t) ==
  /\ t.op = "request" => reservation[t.r].status = "NONE" /\ Candidate(Tables, t.pc, t.r)
  /\ t.op = "launch" => /\ reservation[t.r].status \in Holding /\ reservation[t.r].pc = t.pc
                        /\ t.checkin <=> reservation[t.r].status = "AWAITING_CHECKIN"
                        /\ t.open <=> OpenSessions(t.r) # {}
  /\ t.op = "serve" => entry[t.r] = "WAITING" /\ Candidate(Tables, t.pc, t.r)
  /\ t.op = "due" => \A r \in t.rs : reservation[r].status = "AWAITING_CHECKIN"
  /\ t.op = "sweep" =>
        \/ t.why = "ineligible"
        \/ t.why = "missed" /\ booking[t.r].time # "early"
        \/ t.why = "queued" /\ reservation[t.r].status = "QUEUED"
        \/ t.why = "offline" /\ "silent" \in Operations
        \/ t.why = "ended" /\ reservation[t.r].status \in Started /\ booking[t.r].time = "over"
  /\ t.op = "status" /\ t.to = "OFFLINE" => Holders(Tables, t.pc) = {}

SerialInv ==
  /\ Kind
  /\ Sound(Tables) /\ AllAgree(Tables)
  /\ OneOpen
  /\ \A p \in Workers : TaskSound(task[p])

(* An open desktop of a reservation whose start is not missed is on the PC  *)
(* that this reservation holds.                                             *)
OwnPc ==
  \A s \in Sessions :
      session[s].status \in Open /\ booking[session[s].reservation].time = "early" =>
          /\ reservation[session[s].reservation].status \in Started
          /\ reservation[session[s].reservation].pc = session[s].pc

LEMMA SerialInit == Init => SerialInv /\ OwnPc
<1> SUFFICES ASSUME Init PROVE SerialInv /\ OwnPc
  OBVIOUS
<1>1. Sound(Tables) /\ AllAgree(Tables)
  BY DEF Init, Tables, Sound, Waits, Queued, NoPcYet, OneHolder, OfflineFree, Holders, Holding,
         Started, AllAgree, Agree
<1>2. OneOpen /\ OwnPc
  BY DEF Init, OneOpen, OpenSessions, OwnPc, Open
<1>3. \A p \in Workers : TaskSound(task[p])
  BY DEF Init, TaskSound, Idle
<1> QED
  BY <1>1, <1>2, <1>3, KindInit DEF SerialInv

(* Windows begin and end, and never come back. *)
TimeGoesOn ==
  \A o \in Reservations : /\ booking[o].time = "over" => booking'[o].time = "over"
                          /\ booking'[o].time = "early" => booking[o].time = "early"

LEMMA SoundNext ==
  ASSUME NEW u, Tables' = u, Sound(u), AllAgree(u), TimeGoesOn
  PROVE  Sound(Tables)' /\ AllAgree(Tables)'
<1>1. OneHolder(Tables)'
  BY DEF Sound, OneHolder, TimeGoesOn, Holders
<1>2. (Waits(Tables) /\ Queued(Tables) /\ NoPcYet(Tables) /\ OfflineFree(Tables))'
  BY DEF Sound, Waits, Queued, NoPcYet, OfflineFree, Holders
<1>3. AllAgree(Tables)'
  BY DEF AllAgree, Agree
<1> QED
  BY <1>1, <1>2, <1>3 DEF Sound

(* An idle worker has read nothing. *)
LEMMA IdleSound ==
  ASSUME OneAtATime, NEW p \in Workers, task'[p].op \in {"idle", "queue"}
  PROVE  \A q \in Workers : TaskSound(task[q])'
<1>1. \A q \in Workers : task'[q] = task'[p]
  BY DEF OneAtATime
<1> QED
  BY <1>1 DEF TaskSound

LEMMA NobodyReads ==
  ASSUME OneAtATime, NEW op, NEW rs, SomeWorker(op, rs), task' = task
  PROVE  \A q \in Workers : TaskSound(task[q])'
<1>1. PICK p \in Workers : task[p] = Idle
  BY DEF SomeWorker
<1>2. task'[p].op \in {"idle", "queue"}
  BY <1>1 DEF Idle
<1> QED
  BY <1>2, IdleSound

(* The desktops that stay open stay on PCs of their reservations. *)
LEMMA OwnPcKept ==
  ASSUME OwnPc, TInv, TimeGoesOn,
         \A s \in Sessions : session'[s].status \in Open =>
             /\ session[s].status \in Open
             /\ session'[s].reservation = session[s].reservation /\ session'[s].pc = session[s].pc,
         \A o \in Reservations :
             reservation[o].status \in Started /\ booking'[o].time = "early" /\ OpenSessions(o)' # {} =>
                 reservation'[o].status \in Started /\ reservation'[o].pc = reservation[o].pc
  PROVE  OwnPc'
<1> SUFFICES ASSUME NEW s \in Sessions, session'[s].status \in Open,
                    booking'[session'[s].reservation].time = "early"
             PROVE  /\ reservation'[session'[s].reservation].status \in Started
                    /\ reservation'[session'[s].reservation].pc = session'[s].pc
  BY DEF OwnPc
<1> PICK o : o = session'[s].reservation
  OBVIOUS
<1>1. session[s].status \in Open /\ o = session[s].reservation /\ session'[s].pc = session[s].pc
  OBVIOUS
<1>2. o \in Reservations
  BY <1>1 DEF TInv, SessionsOK
<1>3. booking[o].time = "early" /\ OpenSessions(o)' # {}
  BY <1>2 DEF TimeGoesOn, OpenSessions
<1>4. reservation[o].status \in Started /\ reservation[o].pc = session[s].pc
  BY <1>1, <1>3 DEF OwnPc
<1> QED
  BY <1>1, <1>2, <1>3, <1>4

(* Steps that leave the desktops and the bookings alone, and either keep    *)
(* who has started or ...                                                   *)
LEMMA QuietStep ==
  ASSUME SerialInv, Kind', UNCHANGED <<session, booking>>,
         NEW u, Tables' = u, Sound(u), AllAgree(u),
         \A q \in Workers : TaskSound(task[q])'
  PROVE  /\ SerialInv'
         /\ (\A o \in Reservations :
                reservation[o].status \in Started /\ booking[o].time = "early" /\ OpenSessions(o) # {} =>
                    u.res[o].status \in Started /\ u.res[o].pc = reservation[o].pc)
            => (OwnPc => OwnPc')
<1>1. TimeGoesOn
  BY DEF TimeGoesOn
<1>2. Sound(Tables)' /\ AllAgree(Tables)'
  BY <1>1, SoundNext
<1>3. OneOpen'
  BY SessionsRead DEF SerialInv, OneOpen
<1>4. SerialInv'
  BY <1>2, <1>3 DEF SerialInv
<1>5. ASSUME OwnPc,
             \A o \in Reservations :
                reservation[o].status \in Started /\ booking[o].time = "early" /\ OpenSessions(o) # {} =>
                    u.res[o].status \in Started /\ u.res[o].pc = reservation[o].pc
      PROVE  OwnPc'
  <2>1. reservation' = u.res
    BY TablesParts
  <2>2. TInv
    BY DEF SerialInv, Kind
  <2> QED
    BY <1>1, <1>5, <2>1, <2>2, SessionsRead, OwnPcKept
<1> QED
  BY <1>4, <1>5

LEMMA KeptStarted ==
  ASSUME NEW u, StartedKept(Tables, u)
  PROVE  \A o \in Reservations :
                reservation[o].status \in Started /\ booking[o].time = "early" /\ OpenSessions(o) # {} =>
                    u.res[o].status \in Started /\ u.res[o].pc = reservation[o].pc
BY TablesParts DEF StartedKept

-----------------------------------------------------------------------------
(* The steps of a worker. *)

LEMMA LoadsSerial ==
  ASSUME OneAtATime, SerialInv, NEW p \in Workers, Loads(p)
  PROVE  SerialInv' /\ (OwnPc => OwnPc')
<1>0. /\ TInv /\ Tables \in TableSet /\ reservation \in [Reservations -> Row] /\ TasksOK
      /\ Sound(Tables) /\ AllAgree(Tables)
  BY TablesTypes DEF SerialInv, Kind, TInv, TablesOK
<1>1. /\ UNCHANGED <<reservation, entry, order, pc, session, cleans, collecting, booking>>
      /\ Kind'
  BY <1>0, LoadsTask, LoadsKind DEF SerialInv
<1>2. Tables' = Tables
  BY <1>1 DEF Tables
<1>3. TaskSound(task[p])'
  <2> SUFFICES ASSUME NEW t, t = task'[p] PROVE TaskSound(t)
    <3> PICK t : t = task'[p]
      OBVIOUS
    <3>1. TaskSound(t)
      OBVIOUS
    <3> QED
      BY <1>1, <1>2, <3>1 DEF TaskSound, Candidate, Holders, OpenSessions
  <2>0. \A x : Becomes(p, x) => t = x
    BY <1>0 DEF TasksOK, Becomes
  <2>1. CASE \E r \in Reservations : RequestLoad(p, r)
    <3> PICK r \in Reservations : RequestLoad(p, r)
      BY <2>1
    <3> PICK w : w = Best(Tables, r)
      OBVIOUS
    <3>1. t = [op |-> "request", r |-> r, pc |-> w] /\ reservation[r].status = "NONE"
      BY <2>0 DEF RequestLoad
    <3>2. Candidate(Tables, w, r)
      BY <1>0, BestCandidate
    <3>3. t.op = "request" /\ t.r = r /\ t.pc = w
      BY <3>1
    <3> QED
      BY <3>1, <3>2, <3>3 DEF TaskSound
  <2>2. CASE \E r \in Reservations : LaunchLoad(p, r)
    <3> PICK r \in Reservations : LaunchLoad(p, r)
      BY <2>2
    <3> PICK c \in BOOLEAN : c = (reservation[r].status = "AWAITING_CHECKIN")
      OBVIOUS
    <3> PICK o \in BOOLEAN : o = (OpenSessions(r) # {})
      OBVIOUS
    <3>1. t = [op |-> "launch", r |-> r, pc |-> reservation[r].pc, checkin |-> c, open |-> o]
      BY <2>0 DEF LaunchLoad
    <3>2. t.op = "launch" /\ t.r = r /\ t.pc = reservation[r].pc /\ t.checkin = c /\ t.open = o
      BY <3>1
    <3>3. reservation[r].status \in Holding
      BY DEF LaunchLoad
    <3> QED
      BY <3>2, <3>3 DEF TaskSound
  <2>3. CASE QueueLoad(p)
    <3>1. t.op = "queue"
      BY <2>0, <2>3 DEF QueueLoad
    <3> QED
      BY <3>1 DEF TaskSound
  <2>4. CASE DueLoad(p)
    <3>1. t = [op |-> "due", rs |-> {r \in Reservations :
                 reservation[r].status = "AWAITING_CHECKIN" /\ reservation[r].timer = "due"}]
      BY <2>0, <2>4 DEF DueLoad
    <3>2. t.op = "due" /\ \A r \in t.rs : reservation[r].status = "AWAITING_CHECKIN"
      BY <3>1
    <3> QED
      BY <3>2 DEF TaskSound
  <2>5. CASE \E r \in Reservations, why \in Reasons : SweepLoad(p, r, why)
    <3> PICK r \in Reservations, why \in Reasons : SweepLoad(p, r, why)
      BY <2>5
    <3>1. t = [op |-> "sweep", r |-> r, why |-> why, pc |-> reservation[r].pc, seen |-> pc]
      BY <2>0 DEF SweepLoad
    <3>2. t.op = "sweep" /\ t.r = r /\ t.why = why
      BY <3>1
    <3>3. why = "offline" => "silent" \in Operations
      <4> SUFFICES ASSUME why = "offline", "silent" \notin Operations PROVE FALSE
        OBVIOUS
      <4>1. /\ reservation[r].status \in Holding /\ reservation[r].pc # NoPc
            /\ pc[reservation[r].pc] = "OFFLINE"
        BY DEF SweepLoad, Stale, Silent
      <4> PICK w \in Pcs : w = reservation[r].pc
        BY <1>0, <4>1 DEF Row
      <4>2. r \in Holders(Tables, w)
        BY <4>1, TablesParts DEF Holders
      <4> QED
        BY <1>0, <4>1, <4>2, TablesParts DEF Sound, OfflineFree
    <3>4. \/ why = "ineligible"
          \/ why = "missed" /\ booking[r].time # "early"
          \/ why = "queued" /\ reservation[r].status = "QUEUED"
          \/ why = "offline" /\ "silent" \in Operations
          \/ why = "ended" /\ reservation[r].status \in Started /\ booking[r].time = "over"
      BY <3>3 DEF SweepLoad, Stale
    <3> QED
      BY <3>2, <3>4 DEF TaskSound
  <2>6. CASE \E w \in Pcs : OfflineLoad(p, w)
    <3> PICK w \in Pcs : OfflineLoad(p, w)
      BY <2>6
    <3>1. t = [op |-> "status", pc |-> w, to |-> "OFFLINE"] /\ Holders(Tables, w) = {}
      BY <2>0 DEF OfflineLoad
    <3>2. t.op = "status" /\ t.pc = w
      BY <3>1
    <3> QED
      BY <3>1, <3>2 DEF TaskSound
  <2>7. CASE \E w \in Pcs, reported \in {"AVAILABLE", "BUSY"}, failed \in BOOLEAN :
                 HeartbeatLoad(p, w, reported, failed)
    <3> PICK w \in Pcs, reported \in {"AVAILABLE", "BUSY"}, failed \in BOOLEAN :
          HeartbeatLoad(p, w, reported, failed)
      BY <2>7
    <3>1. t = [op |-> "status", pc |-> w, to |-> AfterBeat(w, reported, failed)]
      BY <2>0 DEF HeartbeatLoad
    <3>2. AfterBeat(w, reported, failed) # "OFFLINE"
      BY DEF AfterBeat, Blocked, Sticky
    <3>3. t.op = "status" /\ t.to # "OFFLINE"
      BY <3>1, <3>2
    <3> QED
      BY <3>3 DEF TaskSound
  <2> QED
    BY <2>1, <2>2, <2>3, <2>4, <2>5, <2>6, <2>7 DEF Loads
<1>4. \A q \in Workers : TaskSound(task[q])'
  <2>1. \A q \in Workers : q = p
    BY DEF OneAtATime
  <2> QED
    BY <1>3, <2>1
<1>5. StartedKept(Tables, Tables)
  BY DEF StartedKept
<1> PICK u : u = Tables
  OBVIOUS
<1>6. UNCHANGED <<session, booking>> /\ Sound(u) /\ AllAgree(u) /\ Tables' = u /\ StartedKept(Tables, u)
  BY <1>0, <1>1, <1>2, <1>5
<1> QED
  BY <1>1, <1>4, <1>6, QuietStep, KeptStarted

LEMMA CommitIdle ==
  ASSUME TInv, NEW p \in Workers, Becomes(p, Idle)
  PROVE  task'[p].op \in {"idle", "queue"}
BY BecomesIdle DEF Idle

LEMMA DecidedAgrees ==
  ASSUME NEW t, NEW u, NEW r \in Reservations, AllAgree(t), Agree(u, r),
         RowsKept(t, u, Reservations \ {r})
  PROVE  AllAgree(u)
BY DEF AllAgree, Agree, RowsKept

LEMMA RequestSerial ==
  ASSUME OneAtATime, SerialInv, NEW p \in Workers, RequestCommit(p)
  PROVE  SerialInv' /\ (OwnPc => OwnPc')
<1>0. TInv /\ Tables \in TableSet /\ Kind'
  BY RequestKind DEF SerialInv, Kind, TInv, TablesOK
<1> PICK r \in Reservations : r = task[p].r
  BY <1>0, TaskTypes DEF TInv, TasksOK, RequestCommit
<1> PICK w : w = task[p].pc
  OBVIOUS
<1> PICK u : u = Tables'
  OBVIOUS
<1>1. Decided(Tables, u, r, w)
  BY <1>0, RequestTables
<1>2. reservation[r].status = "NONE" /\ Candidate(Tables, w, r)
  BY DEF SerialInv, TaskSound, RequestCommit
<1>3. Sound(u) /\ Agree(u, r) /\ StartedKept(Tables, u)
  BY <1>0, <1>1, <1>2, DecidedSound, TablesParts DEF SerialInv
<1>4. AllAgree(u)
  BY <1>1, <1>3, DecidedAgrees DEF SerialInv, Decided
<1>5. UNCHANGED <<session, booking>> /\ \A q \in Workers : TaskSound(task[q])'
  BY <1>0, CommitIdle, IdleSound DEF RequestCommit
<1> QED
  BY <1>0, <1>3, <1>4, <1>5, QuietStep, KeptStarted

LEMMA QueuePickSerial ==
  ASSUME OneAtATime, SerialInv, NEW p \in Workers, QueuePick(p)
  PROVE  SerialInv' /\ (OwnPc => OwnPc')
<1>0. TInv /\ TasksOK /\ Tables \in TableSet /\ Kind'
  BY QueuePickKind DEF SerialInv, Kind, TInv, TablesOK
<1>1. UNCHANGED <<reservation, entry, order, pc, session, booking>>
  BY DEF QueuePick
<1>2. Tables' = Tables
  BY <1>1 DEF Tables
<1> PICK r : r = Head(task[p].list)
  OBVIOUS
<1>3. r \in Reservations
  BY <1>0, TaskTypes, TailElems DEF TasksOK, QueuePick
<1>4. \A q \in Workers : TaskSound(task[q])'
  <2>1. CASE entry[r] = "WAITING"
    <3> PICK w : w = Best(Tables, r)
      OBVIOUS
    <3> PICK t : t = task'[p]
      OBVIOUS
    <3>1. t = [op |-> "serve", r |-> r, pc |-> w, list |-> Tail(task[p].list)]
      BY <1>0, <2>1 DEF QueuePick, Becomes, TasksOK
    <3>2. Candidate(Tables, w, r)
      BY <1>0, <1>3, BestCandidate
    <3>3. t.op = "serve" /\ t.r = r /\ t.pc = w
      BY <3>1
    <3>4. TaskSound(task[p])'
      BY <1>1, <1>2, <2>1, <3>2, <3>3 DEF TaskSound, Candidate, Holders
    <3>5. \A q \in Workers : q = p
      BY DEF OneAtATime
    <3> QED
      BY <3>4, <3>5
  <2>2. CASE entry[r] # "WAITING"
    <3>1. task'[p].op \in {"idle", "queue"}
      BY <1>0, <2>2 DEF QueuePick, Becomes, TasksOK, Idle
    <3> QED
      BY <3>1, IdleSound
  <2> QED
    BY <2>1, <2>2
<1> PICK u : u = Tables
  OBVIOUS
<1>5. Sound(u) /\ AllAgree(u) /\ Tables' = u /\ StartedKept(Tables, u)
  BY <1>2 DEF SerialInv, StartedKept
<1> QED
  BY <1>0, <1>1, <1>4, <1>5, QuietStep, KeptStarted

LEMMA QueueCommitSerial ==
  ASSUME OneAtATime, SerialInv, NEW p \in Workers, QueueCommit(p)
  PROVE  SerialInv' /\ (OwnPc => OwnPc')
<1>0. TInv /\ Tables \in TableSet /\ Kind'
  BY QueueCommitKind DEF SerialInv, Kind, TInv, TablesOK
<1> PICK r \in Reservations : r = task[p].r
  BY <1>0, TaskTypes DEF TInv, TasksOK, QueueCommit
<1> PICK w : w = task[p].pc
  OBVIOUS
<1> PICK u : u = Tables'
  OBVIOUS
<1>1. entry[r] = "WAITING" /\ Candidate(Tables, w, r)
  BY DEF SerialInv, TaskSound, QueueCommit
<1>2. reservation[r].status = "QUEUED"
  BY <1>1, TablesParts DEF SerialInv, AllAgree, Agree
<1>3. Decided(Tables, u, r, w)
  BY <1>0, <1>2, QueueTables DEF Terminal
<1>4. Sound(u) /\ Agree(u, r) /\ StartedKept(Tables, u)
  BY <1>0, <1>1, <1>2, <1>3, DecidedSound, TablesParts DEF SerialInv
<1>5. AllAgree(u)
  BY <1>3, <1>4, DecidedAgrees DEF SerialInv, Decided
<1>6. UNCHANGED <<session, booking>> /\ \A q \in Workers : TaskSound(task[q])'
  <2>1. task'[p].op \in {"idle", "queue"}
    BY <1>0 DEF QueueCommit, Becomes, TInv, TasksOK, Idle
  <2> QED
    BY <2>1, IdleSound DEF QueueCommit
<1> QED
  BY <1>0, <1>4, <1>5, <1>6, QuietStep, KeptStarted

LEMMA DueSerial ==
  ASSUME OneAtATime, SerialInv, NEW p \in Workers, DueCommit(p)
  PROVE  SerialInv' /\ (OwnPc => OwnPc')
<1>0. TInv /\ Tables \in TableSet /\ Kind'
  BY DueKind DEF SerialInv, Kind, TInv, TablesOK
<1> PICK u : u = Tables'
  OBVIOUS
<1>1. PICK q \in Seq(Reservations) :
        /\ u = ServeAll(ReleaseAll(Tables, q))
        /\ \A i, j \in 1..Len(q) : i # j => q[i] # q[j]
        /\ \A i \in 1..Len(q) : q[i] \in task[p].rs
        /\ ReleaseAll(Tables, q) \in TableSet
  BY <1>0, DueTables
<1>2. \A r \in task[p].rs : reservation[r].status = "AWAITING_CHECKIN"
  BY DEF SerialInv, TaskSound, DueCommit
<1>3. \A i \in 1..Len(q) : Tables.res[q[i]].status = "AWAITING_CHECKIN"
  BY <1>1, <1>2, TablesParts
<1> DEFINE t == ReleaseAll(Tables, q)
<1>4. Sound(t) /\ StartedKept(Tables, t)
  BY <1>0, <1>1, <1>3, ReleaseAllSound DEF SerialInv
<1>5. t \in TableSet /\ u = ServeAll(t)
  BY <1>1
<1> HIDE DEF t
<1>6. Sound(u) /\ AllAgree(u) /\ StartedKept(t, u)
  BY <1>4, <1>5, ServeAllSound DEF AllAgree
<1>7. StartedKept(Tables, u)
  BY <1>4, <1>6, StartedTrans
<1>8. UNCHANGED <<session, booking>> /\ \A v \in Workers : TaskSound(task[v])'
  BY <1>0, CommitIdle, IdleSound DEF DueCommit
<1> QED
  BY <1>0, <1>6, <1>7, <1>8, QuietStep, KeptStarted

LEMMA SweepSerial ==
  ASSUME OneAtATime, SerialInv, NEW p \in Workers, SweepCommit(p)
  PROVE  SerialInv' /\ ("silent" \notin Operations => (OwnPc => OwnPc'))
<1>0. TInv /\ Tables \in TableSet /\ Kind'
  BY SweepKind DEF SerialInv, Kind, TInv, TablesOK
<1>1. UNCHANGED <<session, booking>> /\ \A v \in Workers : TaskSound(task[v])'
  BY <1>0, CommitIdle, IdleSound DEF SweepCommit
<1> PICK r \in Reservations : r = task[p].r
  BY <1>0, TaskTypes DEF TInv, TasksOK, SweepCommit
<1> PICK u : u = Tables'
  OBVIOUS
<1>2. CASE u = Tables
  <2>1. Sound(u) /\ AllAgree(u) /\ StartedKept(Tables, u)
    BY <1>2 DEF SerialInv, StartedKept
  <2> QED
    BY <1>0, <1>1, <2>1, QuietStep, KeptStarted
<1>3. CASE u # Tables
  <2>1. /\ Closing(Tables, u, r)
        /\ task[p].why = "ineligible" => OpenSessions(r) = {}
        /\ task[p].why # "ended" => u.entry[r] # "WAITING"
    BY <1>0, <1>3, SweepTables
  <2>2. \/ task[p].why = "ineligible"
        \/ task[p].why = "missed" /\ booking[r].time # "early"
        \/ task[p].why = "queued" /\ reservation[r].status = "QUEUED"
        \/ task[p].why = "offline" /\ "silent" \in Operations
        \/ task[p].why = "ended" /\ reservation[r].status \in Started /\ booking[r].time = "over"
    BY DEF SerialInv, TaskSound, SweepCommit
  <2>3. Sound(u)
    BY <1>0, <2>1, ClosingSound DEF SerialInv
  <2>4. u.entry[r] # "WAITING"
    <3>1. CASE task[p].why = "ended"
      <4>1. entry[r] # "WAITING"
        BY <2>2, <3>1, TablesParts DEF SerialInv, AllAgree, Agree, Started
      <4> QED
        BY <2>1, <4>1, TablesParts DEF Closing
    <3> QED
      BY <2>1, <3>1
  <2>5. AllAgree(u)
    <3>1. Agree(u, r)
      BY <2>1, <2>4 DEF Agree, Closing, Terminal
    <3> QED
      BY <2>1, <3>1, DecidedAgrees DEF SerialInv, Closing
  <2>6. "silent" \notin Operations =>
          ~(reservation[r].status \in Started /\ booking[r].time = "early" /\ OpenSessions(r) # {})
    BY <2>1, <2>2 DEF Started
  <2>7. "silent" \notin Operations =>
        \A o \in Reservations :
           reservation[o].status \in Started /\ booking[o].time = "early" /\ OpenSessions(o) # {} =>
               u.res[o].status \in Started /\ u.res[o].pc = reservation[o].pc
    BY <2>1, <2>6, TablesParts DEF Closing, RowsKept
  <2> QED
    BY <1>0, <1>1, <2>3, <2>5, <2>7, QuietStep
<1> QED
  BY <1>2, <1>3

(* Steps that only change the status that the portal shows for a PC. *)
LEMMA PcSerial ==
  ASSUME SerialInv, Kind', UNCHANGED <<reservation, entry, order, session, booking>>,
         \A w \in Pcs : pc'[w] = "OFFLINE" => pc[w] = "OFFLINE" \/ Holders(Tables, w) = {},
         \A q \in Workers : TaskSound(task[q])'
  PROVE  SerialInv' /\ (OwnPc => OwnPc')
<1> PICK u : u = Tables'
  OBVIOUS
<1>1. u.res = Tables.res /\ u.entry = Tables.entry /\ u.order = Tables.order /\ u.pc = pc'
  BY TablesParts
<1>2. Waits(u) /\ Queued(u) /\ NoPcYet(u) /\ AllAgree(u) /\ StartedKept(Tables, u)
  BY <1>1 DEF SerialInv, Sound, Waits, Queued, NoPcYet, AllAgree, Agree, StartedKept
<1>3. OneHolder(u)
  BY <1>1 DEF SerialInv, Sound, OneHolder, Holders
<1>4. OfflineFree(u)
  <2>1. \A w : Holders(u, w) = Holders(Tables, w)
    BY <1>1 DEF Holders
  <2> QED
    BY <1>1, <2>1, TablesParts DEF SerialInv, Sound, OfflineFree
<1>5. Sound(u)
  BY <1>2, <1>3, <1>4 DEF Sound
<1> QED
  BY <1>2, <1>5, QuietStep, KeptStarted

LEMMA StatusSerial ==
  ASSUME OneAtATime, SerialInv, NEW p \in Workers, StatusCommit(p)
  PROVE  SerialInv' /\ (OwnPc => OwnPc')
<1>0. TInv /\ Kind'
  BY StatusKind DEF SerialInv, Kind
<1>1. UNCHANGED <<reservation, entry, order, session, booking>>
      /\ \A v \in Workers : TaskSound(task[v])'
  BY <1>0, CommitIdle, IdleSound DEF StatusCommit
<1>2. task[p].to = "OFFLINE" => Holders(Tables, task[p].pc) = {}
  BY DEF SerialInv, TaskSound, StatusCommit
<1>3. \A w \in Pcs : pc'[w] = "OFFLINE" => pc[w] = "OFFLINE" \/ Holders(Tables, w) = {}
  BY <1>0, <1>2, TablesTypes DEF StatusCommit, TInv
<1> QED
  BY <1>0, <1>1, <1>3, PcSerial

(* A reservation goes on holding its PC, in another status. *)
LEMMA RestartSound ==
  ASSUME NEW t, NEW u, NEW r \in Reservations, Sound(t), AllAgree(t),
         u.entry = t.entry, u.order = t.order,
         \A o \in Reservations \ {r} : u.res[o] = t.res[o],
         u.res[r].pc = t.res[r].pc,
         \/ u.res[r].status = t.res[r].status
         \/ u.res[r].status \in Holding /\ t.res[r].status \in Holding,
         \A w \in Pcs : u.pc[w] = "OFFLINE" => t.pc[w] = "OFFLINE"
  PROVE  Sound(u) /\ AllAgree(u)
<1>1. /\ \A o \in Reservations : u.res[o].status \in Holding <=> t.res[o].status \in Holding
      /\ \A o \in Reservations : u.res[o].pc = t.res[o].pc
      /\ \A o \in Reservations : u.res[o].status \notin Holding => u.res[o].status = t.res[o].status
  OBVIOUS
<1>2. \A o \in Reservations : t.res[o].status \notin Holding => u.res[o].status = t.res[o].status
  BY <1>1
<1>3. {"NONE", "QUEUED"} \cap Holding = {} /\ Terminal \cap Holding = {}
  BY DEF Holding, Started, Terminal
<1>4. Waits(u) /\ Queued(u) /\ NoPcYet(u) /\ AllAgree(u)
  BY <1>1, <1>2, <1>3 DEF Sound, Waits, Queued, NoPcYet, AllAgree, Agree
<1>5. \A w : Holders(u, w) = Holders(t, w)
  BY <1>1 DEF Holders
<1>6. OneHolder(u) /\ OfflineFree(u)
  BY <1>5 DEF Sound, OneHolder, OfflineFree
<1> QED
  BY <1>4, <1>6 DEF Sound

(* The launch found an open desktop, or was refused. *)
LEMMA RelaunchSerial ==
  ASSUME OneAtATime, SerialInv, NEW p \in Workers, LaunchReuse(p) \/ LaunchRefused(p)
  PROVE  SerialInv' /\ (OwnPc => OwnPc')
<1>0. TInv /\ Tables \in TableSet /\ Kind' /\ reservation \in [Reservations -> Row]
  BY LaunchReuseKind, LaunchRefusedKind, TablesTypes DEF SerialInv, Kind, TInv, TablesOK
<1> PICK r \in Reservations : r = task[p].r
  BY <1>0, TaskTypes DEF TInv, TasksOK, LaunchReuse, LaunchRefused
<1>1. task[p].checkin <=> reservation[r].status = "AWAITING_CHECKIN"
  BY DEF SerialInv, TaskSound, LaunchReuse, LaunchRefused
<1> PICK st : st = IF task[p].checkin THEN IF LaunchReuse(p) THEN "RESERVED" ELSE "AWAITING_CHECKIN"
                   ELSE reservation[r].status
  OBVIOUS
<1>2. /\ reservation' = [reservation EXCEPT ![r].status = st]
      /\ UNCHANGED <<entry, order, pc, session, booking>> /\ Becomes(p, Idle)
  BY DEF LaunchReuse, LaunchRefused
<1>3. st = reservation[r].status \/ (st \in Holding /\ reservation[r].status \in Holding)
  BY <1>1 DEF Holding, Started
<1>4. /\ reservation'[r].status = st /\ reservation'[r].pc = reservation[r].pc
      /\ \A o \in Reservations \ {r} : reservation'[o] = reservation[o]
  BY <1>0, <1>2 DEF Row
<1> PICK u : u = Tables'
  OBVIOUS
<1>5. u.res = reservation' /\ u.entry = Tables.entry /\ u.order = Tables.order /\ u.pc = Tables.pc
  BY <1>2, TablesParts
<1>6. Sound(u) /\ AllAgree(u)
  <2>1. \/ u.res[r].status = Tables.res[r].status
        \/ u.res[r].status \in Holding /\ Tables.res[r].status \in Holding
    BY <1>3, <1>4, <1>5, TablesParts
  <2>2. u.res[r].pc = Tables.res[r].pc /\ \A o \in Reservations \ {r} : u.res[o] = Tables.res[o]
    BY <1>4, <1>5, TablesParts
  <2> QED
    BY <1>5, <2>1, <2>2, RestartSound DEF SerialInv
<1>7. \A q \in Workers : TaskSound(task[q])'
  BY <1>0, <1>2, CommitIdle, IdleSound
<1>8. \A o \in Reservations :
         reservation[o].status \in Started /\ booking[o].time = "early" /\ OpenSessions(o) # {} =>
             u.res[o].status \in Started /\ u.res[o].pc = reservation[o].pc
  <2>1. reservation[r].status \in Started => st = reservation[r].status
    BY <1>1 DEF Started
  <2> QED
    BY <1>4, <1>5, <2>1
<1> QED
  BY <1>0, <1>2, <1>6, <1>7, <1>8, QuietStep

LEMMA LaunchCreateSerial ==
  ASSUME OneAtATime, SerialInv, NEW p \in Workers, NEW s \in Sessions, LaunchCreate(p, s)
  PROVE  SerialInv' /\ (OwnPc => OwnPc')
<1>0. TInv /\ Tables \in TableSet /\ Kind' /\ reservation \in [Reservations -> Row]
  BY LaunchCreateKind, TablesTypes DEF SerialInv, Kind, TInv, TablesOK
<1> PICK r \in Reservations : r = task[p].r
  BY <1>0, TaskTypes DEF TInv, TasksOK, LaunchCreate
<1> PICK w \in Pcs : w = task[p].pc
  BY <1>0, TaskTypes DEF TInv, TasksOK, LaunchCreate
<1>1. /\ reservation[r].status \in Holding /\ reservation[r].pc = w /\ OpenSessions(r) = {}
  BY DEF SerialInv, TaskSound, LaunchCreate, Reuses
<1>2. /\ reservation' = [reservation EXCEPT ![r].status = "PREPARING"]
      /\ pc' = [pc EXCEPT ![w] = "PREPARING"]
      /\ session' = [session EXCEPT ![s] = [status |-> "PREPARING", reservation |-> r, pc |-> w]]
      /\ UNCHANGED <<entry, order, booking>> /\ Becomes(p, Idle)
  BY DEF LaunchCreate
<1>3. /\ reservation'[r].status = "PREPARING" /\ reservation'[r].pc = w
      /\ \A o \in Reservations \ {r} : reservation'[o] = reservation[o]
  BY <1>0, <1>1, <1>2 DEF Row
<1>4. \A v \in Pcs : pc'[v] = "OFFLINE" => pc[v] = "OFFLINE"
  BY <1>0, <1>2, TablesTypes DEF TInv
<1> PICK u : u = Tables'
  OBVIOUS
<1>5. u.res = reservation' /\ u.entry = Tables.entry /\ u.order = Tables.order /\ u.pc = pc'
  BY <1>2, TablesParts
<1>6. Sound(u) /\ AllAgree(u)
  <2>1. u.res[r].status \in Holding /\ Tables.res[r].status \in Holding
    BY <1>1, <1>3, <1>5, TablesParts DEF Holding, Started
  <2>2. u.res[r].pc = Tables.res[r].pc /\ \A o \in Reservations \ {r} : u.res[o] = Tables.res[o]
    BY <1>1, <1>3, <1>5, TablesParts
  <2> QED
    BY <1>4, <1>5, <2>1, <2>2, RestartSound, TablesParts DEF SerialInv
<1>7. TimeGoesOn
  BY <1>2 DEF TimeGoesOn
<1>8. Sound(Tables)' /\ AllAgree(Tables)'
  BY <1>6, <1>7, SoundNext
<1>9. OneOpen'
  <2>1. OpenSessions(r)' = {s} /\ \A o \in Reservations \ {r} : OpenSessions(o)' = OpenSessions(o)
    BY <1>0, <1>1, CreateOpen
  <2> QED
    BY <2>1 DEF SerialInv, OneOpen
<1>10. \A q \in Workers : TaskSound(task[q])'
  BY <1>0, <1>2, CommitIdle, IdleSound
<1>11. ASSUME OwnPc PROVE OwnPc'
  <2> SUFFICES ASSUME NEW v \in Sessions, session'[v].status \in Open,
                      booking'[session'[v].reservation].time = "early"
               PROVE  /\ reservation'[session'[v].reservation].status \in Started
                      /\ reservation'[session'[v].reservation].pc = session'[v].pc
    BY DEF OwnPc
  <2>1. CASE v = s
    <3>1. session'[s].reservation = r /\ session'[s].pc = w
      BY <1>0, <1>2 DEF TInv, SessionsOK
    <3> QED
      BY <1>3, <2>1, <3>1 DEF Started
  <2>2. CASE v # s
    <3>1. session'[v] = session[v] /\ session[v].reservation \in Reservations
      BY <1>0, <1>2, <2>2 DEF TInv, SessionsOK
    <3>2. session[v].reservation # r
      BY <1>1, <3>1 DEF OpenSessions
    <3>3. /\ reservation[session[v].reservation].status \in Started
          /\ reservation[session[v].reservation].pc = session[v].pc
      BY <1>2, <1>11, <3>1 DEF OwnPc
    <3> QED
      BY <1>3, <3>1, <3>2, <3>3
  <2> QED
    BY <2>1, <2>2
<1> QED
  BY <1>0, <1>8, <1>9, <1>10, <1>11 DEF SerialInv

LEMMA CommitsSerial ==
  ASSUME OneAtATime, SerialInv, NEW p \in Workers, Commits(p)
  PROVE  SerialInv' /\ ("silent" \notin Operations => (OwnPc => OwnPc'))
BY RequestSerial, RelaunchSerial, LaunchCreateSerial, QueuePickSerial, QueueCommitSerial,
   DueSerial, SweepSerial, StatusSerial DEF Commits

-----------------------------------------------------------------------------
(* The steps of users, managers and agents, and time. *)

LEMMA ReleaseSerial ==
  ASSUME OneAtATime, SerialInv, NEW r \in Reservations, ReleaseByUser(r)
  PROVE  SerialInv' /\ (OwnPc => OwnPc')
<1>0. TInv /\ Tables \in TableSet /\ Kind'
  BY HoldKind DEF SerialInv, Kind, TInv, TablesOK
<1> PICK u : u = Tables'
  OBVIOUS
<1>1. Ended(Tables, u, r)
  BY <1>0, ReleaseTables
<1>2. Tables.res[r].status = "AWAITING_CHECKIN"
  BY TablesParts DEF ReleaseByUser
<1>3. Sound(u) /\ Agree(u, r) /\ StartedKept(Tables, u)
  BY <1>0, <1>1, <1>2, EndedSound DEF SerialInv
<1>4. AllAgree(u)
  BY <1>1, <1>3, DecidedAgrees DEF SerialInv, Ended
<1>5. UNCHANGED <<session, booking>> /\ \A q \in Workers : TaskSound(task[q])'
  BY NobodyReads DEF ReleaseByUser
<1> QED
  BY <1>0, <1>3, <1>4, <1>5, QuietStep, KeptStarted

(* A manager takes the reservation from under an open desktop. *)
LEMMA CancelSerial ==
  ASSUME OneAtATime, SerialInv, NEW r \in Reservations, CancelByManager(r)
  PROVE  SerialInv'
<1>0. TInv /\ Tables \in TableSet /\ Kind'
  BY HoldKind DEF SerialInv, Kind, TInv, TablesOK
<1> PICK u : u = Tables'
  OBVIOUS
<1>1. Closing(Tables, u, r) /\ u.entry[r] # "WAITING"
  BY <1>0, CancelTables
<1>2. Sound(u)
  BY <1>0, <1>1, ClosingSound DEF SerialInv
<1>3. Agree(u, r)
  BY <1>1 DEF Agree, Closing, Terminal
<1>4. AllAgree(u)
  BY <1>1, <1>3, DecidedAgrees DEF SerialInv, Closing
<1>5. UNCHANGED <<session, booking>> /\ \A q \in Workers : TaskSound(task[q])'
  BY NobodyReads DEF CancelByManager
<1> QED
  BY <1>0, <1>2, <1>4, <1>5, QuietStep

LEMMA ConnectSerial ==
  ASSUME OneAtATime, SerialInv, NEW s \in Sessions, Connect(s) \/ Advance(s)
  PROVE  SerialInv' /\ (OwnPc => OwnPc')
<1>0. TInv /\ Tables \in TableSet /\ Kind' /\ reservation \in [Reservations -> Row]
  BY ConnectKind, TablesTypes DEF SerialInv, Kind, TInv, TablesOK
<1> PICK r \in Reservations : r = session[s].reservation
  BY <1>0 DEF TInv, SessionsOK, Connect, Advance, Open
<1>1. PICK st : /\ reservation' = [reservation EXCEPT ![r].status = st]
                /\ \/ st = reservation[r].status
                   \/ st \in Started /\ reservation[r].status \in Started
  <2>1. CASE Connect(s)
    <3> PICK st : st = IF reservation[r].status \in {"RESERVED", "PREPARING", "READY"}
                       THEN "ACTIVE" ELSE reservation[r].status
      OBVIOUS
    <3> QED
      BY <2>1 DEF Connect, Started
  <2>2. CASE Advance(s)
    <3> PICK st : st = IF reservation[r].status = "PREPARING"
                       THEN "READY" ELSE reservation[r].status
      OBVIOUS
    <3> QED
      BY <2>2 DEF Advance, Started
  <2> QED
    BY <2>1, <2>2
<1>2. UNCHANGED <<entry, order, booking, task>>
  BY DEF Connect, Advance
<1>3. /\ reservation'[r].status = st /\ reservation'[r].pc = reservation[r].pc
      /\ \A o \in Reservations \ {r} : reservation'[o] = reservation[o]
  BY <1>0, <1>1 DEF Row
<1>4. \A v \in Pcs : pc'[v] = "OFFLINE" => pc[v] = "OFFLINE"
  BY <1>0, TablesTypes DEF TInv, Connect, Advance
<1> PICK u : u = Tables'
  OBVIOUS
<1>5. u.res = reservation' /\ u.entry = Tables.entry /\ u.order = Tables.order /\ u.pc = pc'
  BY <1>2, TablesParts
<1>6. Sound(u) /\ AllAgree(u)
  <2>1. \/ u.res[r].status = Tables.res[r].status
        \/ u.res[r].status \in Holding /\ Tables.res[r].status \in Holding
    BY <1>1, <1>3, <1>5, TablesParts DEF Holding
  <2>2. u.res[r].pc = Tables.res[r].pc /\ \A o \in Reservations \ {r} : u.res[o] = Tables.res[o]
    BY <1>3, <1>5, TablesParts
  <2> QED
    BY <1>4, <1>5, <2>1, <2>2, RestartSound, TablesParts DEF SerialInv
<1>7. TimeGoesOn
  BY <1>2 DEF TimeGoesOn
<1>8. Sound(Tables)' /\ AllAgree(Tables)'
  BY <1>6, <1>7, SoundNext
<1>9. OneOpen'
  BY <1>0, ConnectOpen DEF SerialInv, OneOpen
<1>10. \A q \in Workers : TaskSound(task[q])'
  BY <1>2, NobodyReads DEF Connect, Advance
<1>11. ASSUME OwnPc PROVE OwnPc'
  <2>1. \A v \in Sessions : session'[v].status \in Open =>
             /\ session[v].status \in Open
             /\ session'[v].reservation = session[v].reservation /\ session'[v].pc = session[v].pc
    BY <1>0 DEF Connect, Advance, Open, TInv, SessionsOK
  <2>2. \A o \in Reservations :
             reservation[o].status \in Started =>
                 reservation'[o].status \in Started /\ reservation'[o].pc = reservation[o].pc
    BY <1>1, <1>3
  <2> QED
    BY <1>0, <1>7, <1>11, <2>1, <2>2, OwnPcKept
<1> QED
  BY <1>0, <1>8, <1>9, <1>10, <1>11 DEF SerialInv

(* What the end of a desktop leaves open, and what of the bookings. *)
LEMMA CleanupOpen ==
  ASSUME TInv, OneOpen, NEW s \in Sessions, session[s].status \in Open,
         NEW final \in {"ENDED", "FAILED"}, NEW c \in BOOLEAN, Cleanup(s, final, c),
         NEW r \in Reservations, r = session[s].reservation
  PROVE  /\ OneOpen' /\ TimeGoesOn /\ OpenSessions(r)' = {}
         /\ \A v \in Sessions : session'[v].status \in Open =>
             /\ session[v].status \in Open
             /\ session'[v].reservation = session[v].reservation /\ session'[v].pc = session[v].pc
<1>1. /\ session'[s].status = "CLOSED" /\ \A v \in Sessions \ {s} : session'[v] = session[v]
  BY DEF TInv, SessionsOK, Cleanup, Closed
<1>2. \A o : OpenSessions(o)' = OpenSessions(o) \ {s}
  BY <1>1 DEF OpenSessions, Open
<1>3. s \in OpenSessions(r)
  BY DEF OpenSessions
<1>4. OneOpen' /\ OpenSessions(r)' = {}
  BY <1>2, <1>3 DEF OneOpen
<1>5. TimeGoesOn
  <2> PICK e : e = (booking[r].eligible /\ ~(final = "ENDED" /\ session[s].status = "ACTIVE"))
    OBVIOUS
  <2>1. booking' = [booking EXCEPT ![r].eligible = e]
    BY DEF Cleanup
  <2>2. \A o \in Reservations : booking'[o].time = booking[o].time
    BY <2>1 DEF TInv, OthersOK
  <2> QED
    BY <2>2 DEF TimeGoesOn
<1>6. \A v \in Sessions : session'[v].status \in Open =>
             /\ session[v].status \in Open
             /\ session'[v].reservation = session[v].reservation /\ session'[v].pc = session[v].pc
  BY <1>1 DEF Open
<1> QED
  BY <1>4, <1>5, <1>6

(* A desktop that failed keeps the reservation, one that ended completes it.*)
LEMMA ReleasedSound ==
  ASSUME NEW t \in TableSet, NEW s \in Sessions, NEW final \in {"ENDED", "FAILED"}, NEW c \in BOOLEAN,
         session[s].pc \in Pcs, NEW r \in Reservations, r = session[s].reservation, Sound(t), AllAgree(t)
  PROVE  /\ Sound(Released(t, s, final, c)) /\ AllAgree(Released(t, s, final, c))
         /\ MissedKept(t, Released(t, s, final, c))
         /\ final = "FAILED" => StartedKept(t, Released(t, s, final, c))
<1> DEFINE u == Released(t, s, final, c)
<1>1. /\ Frame(t, u) /\ \A o \in Reservations \ {r} : u.res[o] = t.res[o]
      /\ u.entry = t.entry /\ u.order = t.order
      /\ u.res[r].pc = t.res[r].pc /\ u.res[r].missed = t.res[r].missed
      /\ \/ u.res[r] = t.res[r]
         \/ u.res[r].status = "COMPLETED" /\ t.res[r].status \in Started /\ final = "ENDED"
  BY ReleasedHarmless DEF Harmless
<1> HIDE DEF u
<1>2. MissedKept(t, u)
  BY <1>1 DEF MissedKept
<1>3. final = "FAILED" => StartedKept(t, u)
  BY <1>1 DEF StartedKept
<1>4. OneHolder(u) /\ OfflineFree(u)
  <2>1. \A o \in Reservations : u.res[o].status \in Holding =>
             t.res[o].status \in Holding /\ u.res[o].pc = t.res[o].pc
    BY <1>1 DEF Holding, Started
  <2> QED
    BY <1>1, <2>1, FewerHolders DEF Sound
<1>5. \A o \in Reservations : \/ u.res[o] = t.res[o]
                              \/ u.res[o].status = "COMPLETED" /\ t.res[o].status \in Started
  <2> SUFFICES ASSUME NEW o \in Reservations
               PROVE  \/ u.res[o] = t.res[o]
                      \/ u.res[o].status = "COMPLETED" /\ t.res[o].status \in Started
    OBVIOUS
  <2>1. CASE o = r
    BY <1>1, <2>1
  <2>2. CASE o # r
    BY <1>1, <2>2
  <2> QED
    BY <2>1, <2>2
<1>6. Waits(u) /\ NoPcYet(u)
  BY <1>1, <1>5 DEF Sound, Waits, NoPcYet
<1>7. Queued(u) /\ AllAgree(u)
  <2>1. \A o \in Reservations : t.res[o].status \in Started => t.entry[o] # "WAITING"
    BY DEF AllAgree, Agree, Started
  <2> QED
    BY SMTT(30), <1>1, <1>5, <2>1 DEF Sound, Queued, AllAgree, Agree
<1>8. Sound(u) /\ AllAgree(u) /\ MissedKept(t, u) /\ (final = "FAILED" => StartedKept(t, u))
  BY <1>2, <1>3, <1>4, <1>6, <1>7 DEF Sound
<1> QED
  BY <1>8 DEF u

LEMMA EndSerial ==
  ASSUME OneAtATime, SerialInv, NEW s \in Sessions, NEW c \in BOOLEAN,
         EndSession(s, c) \/ FailSession(s, c)
  PROVE  SerialInv' /\ (OwnPc => OwnPc')
<1>0. TInv /\ Tables \in TableSet /\ Kind'
  BY EndKind DEF SerialInv, Kind, TInv, TablesOK
<1>1. PICK final \in {"ENDED", "FAILED"} :
        /\ session[s].status \in Open /\ Cleanup(s, final, c)
        /\ Save(Released(Tables, s, final, c))
  BY DEF EndSession, FailSession, Open
<1> PICK r \in Reservations : r = session[s].reservation
  BY <1>0, <1>1 DEF TInv, SessionsOK
<1>2. session[s].pc \in Pcs
  BY <1>0, <1>1 DEF TInv, SessionsOK
<1> PICK u : u = Released(Tables, s, final, c)
  OBVIOUS
<1>3. Tables' = u
  BY <1>0, <1>1, EndTables
<1>4. Sound(u) /\ AllAgree(u)
  BY <1>0, <1>2, ReleasedSound DEF SerialInv
<1>5. /\ OneOpen' /\ TimeGoesOn /\ OpenSessions(r)' = {}
      /\ \A v \in Sessions : session'[v].status \in Open =>
             /\ session[v].status \in Open
             /\ session'[v].reservation = session[v].reservation /\ session'[v].pc = session[v].pc
  BY <1>0, <1>1, CleanupOpen DEF SerialInv
<1>6. Sound(Tables)' /\ AllAgree(Tables)'
  BY <1>3, <1>4, <1>5, SoundNext
<1>7. \A q \in Workers : TaskSound(task[q])'
  BY NobodyReads DEF EndSession, FailSession
<1>8. ASSUME OwnPc PROVE OwnPc'
  <2>1. \A o \in Reservations \ {r} : reservation'[o] = reservation[o]
    <3>1. \A o \in Reservations \ {r} : u.res[o] = Tables.res[o]
      BY <1>0, <1>2, ReleasedHarmless
    <3> QED
      BY <1>3, <3>1, TablesParts
  <2>2. \A o \in Reservations :
             reservation[o].status \in Started /\ booking'[o].time = "early" /\ OpenSessions(o)' # {} =>
                 reservation'[o].status \in Started /\ reservation'[o].pc = reservation[o].pc
    BY <1>5, <2>1
  <2> QED
    BY <1>0, <1>5, <1>8, <2>2, OwnPcKept
<1> QED
  BY <1>0, <1>5, <1>6, <1>7, <1>8 DEF SerialInv

LEMMA EndAnalysisSerial ==
  ASSUME OneAtATime, SerialInv, NEW r \in Reservations, NEW c \in BOOLEAN, EndAnalysis(r, c)
  PROVE  SerialInv' /\ (OwnPc => OwnPc')
<1>0. TInv /\ Tables \in TableSet /\ Kind'
  BY EndAnalysisKind DEF SerialInv, Kind, TInv, TablesOK
<1>1. \A q \in Workers : TaskSound(task[q])'
  BY NobodyReads DEF EndAnalysis
<1> PICK u : u = Tables'
  OBVIOUS
<1>2. ASSUME NEW s \in OpenSessions(r), Cleanup(s, "ENDED", c),
             Released(Tables, s, "ENDED", c) \in TableSet,
             u = ServeAll(Released(Tables, s, "ENDED", c))
      PROVE  SerialInv' /\ (OwnPc => OwnPc')
  <2>1. /\ s \in Sessions /\ session[s].status \in Open /\ session[s].reservation = r
        /\ session[s].pc \in Pcs
    BY <1>0 DEF OpenSessions, TInv, SessionsOK
  <2> PICK final \in {"ENDED", "FAILED"} : final = "ENDED"
    OBVIOUS
  <2> PICK t \in TableSet : t = Released(Tables, s, final, c)
    BY <1>2
  <2>2. Sound(t) /\ AllAgree(t)
    BY <1>0, <2>1, ReleasedSound DEF SerialInv
  <2>3. Sound(u) /\ AllAgree(u) /\ StartedKept(t, u)
    BY <1>2, <2>2, ServeAllSound DEF AllAgree
  <2>4. /\ OneOpen' /\ TimeGoesOn /\ OpenSessions(r)' = {}
        /\ \A v \in Sessions : session'[v].status \in Open =>
               /\ session[v].status \in Open
               /\ session'[v].reservation = session[v].reservation /\ session'[v].pc = session[v].pc
    BY <1>0, <1>2, <2>1, CleanupOpen DEF SerialInv
  <2>5. Sound(Tables)' /\ AllAgree(Tables)'
    BY <2>3, <2>4, SoundNext
  <2>6. ASSUME OwnPc PROVE OwnPc'
    <3>1. \A o \in Reservations \ {r} : t.res[o] = reservation[o]
      BY <1>0, <2>1, ReleasedHarmless, TablesParts
    <3>2. u.res = reservation'
      BY TablesParts
    <3>3. \A o \in Reservations :
               reservation[o].status \in Started /\ booking'[o].time = "early" /\ OpenSessions(o)' # {} =>
                   reservation'[o].status \in Started /\ reservation'[o].pc = reservation[o].pc
      BY <2>3, <2>4, <3>1, <3>2 DEF StartedKept
    <3> QED
      BY <1>0, <2>4, <2>6, <3>3, OwnPcKept
  <2> QED
    BY <1>0, <1>1, <2>4, <2>5, <2>6 DEF SerialInv
<1>3. ASSUME OpenSessions(r) = {}, UNCHANGED <<session, booking>>, NEW t \in TableSet,
             Closing(Tables, t, r), u = ServeAll(t)
      PROVE  SerialInv' /\ (OwnPc => OwnPc')
  <2>1. Sound(t)
    BY <1>0, <1>3, ClosingSound DEF SerialInv
  <2>2. Sound(u) /\ AllAgree(u) /\ StartedKept(t, u)
    BY <1>3, <2>1, ServeAllSound DEF AllAgree
  <2>3. \A o \in Reservations :
           reservation[o].status \in Started /\ booking[o].time = "early" /\ OpenSessions(o) # {} =>
               u.res[o].status \in Started /\ u.res[o].pc = reservation[o].pc
    <3>1. \A o \in Reservations \ {r} : t.res[o] = reservation[o]
      BY <1>3, TablesParts DEF Closing, RowsKept
    <3> QED
      BY <1>3, <2>2, <3>1 DEF StartedKept
  <2> QED
    BY <1>0, <1>1, <1>3, <2>2, <2>3, QuietStep
<1> QED
  BY <1>0, <1>2, <1>3, EndAnalysisTables

LEMMA AgentSerial ==
  ASSUME OneAtATime, SerialInv, NEW w \in Pcs, NEW outcome \in Outcomes,
         Acknowledge(w) \/ CollectEnds(w, outcome)
  PROVE  SerialInv' /\ (OwnPc => OwnPc')
<1>0. TInv /\ Kind' /\ pc \in [Pcs -> PcStatuses]
  BY AgentKind, TablesTypes DEF SerialInv, Kind, TInv
<1>1. UNCHANGED <<reservation, entry, order, session, booking>>
      /\ \A v \in Workers : TaskSound(task[v])'
  BY NobodyReads DEF Acknowledge, CollectEnds
<1>2. \A v \in Pcs : pc'[v] = "OFFLINE" => pc[v] = "OFFLINE"
  BY <1>0 DEF Acknowledge, CollectEnds
<1> QED
  BY <1>0, <1>1, <1>2, PcSerial

LEMMA TimeSerial ==
  ASSUME SerialInv, NEW r \in Reservations,
         TimerExpires(r) \/ TimePasses(r) \/ LosesEligibility(r)
  PROVE  SerialInv' /\ (OwnPc => OwnPc')
<1>0. TInv /\ Tables \in TableSet /\ Kind' /\ reservation \in [Reservations -> Row]
  BY TimeKind, TablesTypes DEF SerialInv, Kind, TInv, TablesOK
<1>1. UNCHANGED <<entry, order, pc, session, task>>
  BY DEF TimerExpires, TimePasses, LosesEligibility
<1>2. \A o \in Reservations : /\ reservation'[o].status = reservation[o].status
                              /\ reservation'[o].pc = reservation[o].pc
  BY <1>0 DEF TimerExpires, TimePasses, LosesEligibility, Row
<1>3. TimeGoesOn
  BY <1>0 DEF TimerExpires, TimePasses, LosesEligibility, TInv, OthersOK, TimeGoesOn
<1> PICK u : u = Tables'
  OBVIOUS
<1>4. u.res = reservation' /\ u.entry = Tables.entry /\ u.order = Tables.order /\ u.pc = Tables.pc
  BY <1>1, TablesParts
<1>5. \A o \in Reservations : u.res[o].status = Tables.res[o].status /\ u.res[o].pc = Tables.res[o].pc
  BY <1>2, <1>4, TablesParts
<1>6. \A w : Holders(u, w) = Holders(Tables, w)
  BY <1>5 DEF Holders
<1>7. Sound(u) /\ AllAgree(u)
  <2>1. OneHolder(u) /\ OfflineFree(u)
    BY <1>4, <1>6 DEF SerialInv, Sound, OneHolder, OfflineFree
  <2>2. Waits(u) /\ Queued(u) /\ NoPcYet(u) /\ AllAgree(u)
    BY <1>4, <1>5 DEF SerialInv, Sound, Waits, Queued, NoPcYet, AllAgree, Agree
  <2> QED
    BY <2>1, <2>2 DEF Sound
<1>8. Sound(Tables)' /\ AllAgree(Tables)'
  BY <1>3, <1>7, SoundNext
<1>9. OneOpen'
  BY <1>1, SessionsRead DEF SerialInv, OneOpen
<1>10. \A q \in Workers : TaskSound(task[q])'
  <2> SUFFICES ASSUME NEW q \in Workers PROVE TaskSound(task[q])'
    OBVIOUS
  <2> PICK t : t = task[q]
    OBVIOUS
  <2>1. TaskOK(t) /\ TaskSound(t) /\ task'[q] = t
    BY <1>0, <1>1 DEF SerialInv, TInv, TasksOK
  <2>2. \A w : Holders(Tables', w) = Holders(Tables, w)
    BY <1>6
  <2>3. ASSUME NEW w, NEW o, Candidate(Tables, w, o) PROVE Candidate(Tables, w, o)'
    <3>1. Tables'.pc = Tables.pc /\ Holders(Tables, w) \subseteq Reservations
      BY <1>4 DEF Holders
    <3>2. w # NoPc => /\ w \in Pcs /\ Tables'.pc[w] = "AVAILABLE"
                      /\ \A v \in Holders(Tables', w) \ {o} : booking'[v].time = "over"
      BY <1>3, <2>2, <2>3, <3>1 DEF Candidate, TimeGoesOn
    <3> QED
      BY <3>2 DEF Candidate, Holders
  <2>4. t.op \in {"request", "serve"} => Candidate(Tables, t.pc, t.r)'
    BY <2>1, <2>3 DEF TaskSound
  <2>5. /\ t.op = "request" => reservation'[t.r].status = "NONE"
        /\ t.op = "launch" => /\ reservation'[t.r].status \in Holding /\ reservation'[t.r].pc = t.pc
                              /\ t.checkin <=> reservation'[t.r].status = "AWAITING_CHECKIN"
                              /\ t.open <=> OpenSessions(t.r) # {}
        /\ t.op = "serve" => entry'[t.r] = "WAITING"
        /\ t.op = "due" => \A o \in t.rs : reservation'[o].status = "AWAITING_CHECKIN"
    <3>1. t.op \in {"request", "launch", "serve"} => t.r \in Reservations
      BY <2>1, TaskTypes
    <3>2. t.op = "due" => t.rs \subseteq Reservations
      BY <2>1, TaskTypes
    <3> QED
      BY <1>1, <1>2, <2>1, <3>1, <3>2 DEF TaskSound
  <2>6. t.op = "sweep" =>
          \/ t.why = "ineligible"
          \/ t.why = "missed" /\ booking'[t.r].time # "early"
          \/ t.why = "queued" /\ reservation'[t.r].status = "QUEUED"
          \/ t.why = "offline" /\ "silent" \in Operations
          \/ t.why = "ended" /\ reservation'[t.r].status \in Started /\ booking'[t.r].time = "over"
    <3>1. t.op = "sweep" => t.r \in Reservations
      BY <2>1, TaskTypes
    <3> QED
      BY <1>2, <1>3, <2>1, <3>1 DEF TaskSound, TimeGoesOn
  <2>7. t.op = "status" /\ t.to = "OFFLINE" => Holders(Tables, t.pc)' = {}
    BY <2>1, <2>2 DEF TaskSound, Holders
  <2>8. \A o : OpenSessions(o)' = OpenSessions(o)
    BY <1>1, SessionsRead
  <2>9. TaskSound(t)'
    BY <2>4, <2>5, <2>6, <2>7, <2>8 DEF TaskSound
  <2> QED
    BY <2>1, <2>9
<1>11. ASSUME OwnPc PROVE OwnPc'
  <2>1. \A v \in Sessions : session'[v].status \in Open =>
             /\ session[v].status \in Open
             /\ session'[v].reservation = session[v].reservation /\ session'[v].pc = session[v].pc
    BY <1>1
  <2> QED
    BY <1>0, <1>2, <1>3, <1>11, <2>1, OwnPcKept
<1> QED
  BY <1>0, <1>8, <1>9, <1>10, <1>11 DEF SerialInv

(* No manager cancels and no agent falls silent. *)
NobodyLeaves == "cancel" \notin Operations /\ "silent" \notin Operations

LEMMA SerialStep ==
  ASSUME OneAtATime, SerialInv, [Next]_vars
  PROVE  SerialInv' /\ (NobodyLeaves => (OwnPc => OwnPc'))
<1>1. CASE UNCHANGED vars
  <2>1. UNCHANGED <<reservation, entry, order, pc, session, cleans, collecting, booking, task>>
    BY <1>1 DEF vars
  <2>2. Kind'
    BY KindStep DEF SerialInv
  <2> PICK u : u = Tables
    OBVIOUS
  <2>3. Tables' = u /\ Sound(u) /\ AllAgree(u) /\ StartedKept(Tables, u)
    BY <2>1 DEF Tables, SerialInv, StartedKept
  <2>4. \A q \in Workers : TaskSound(task[q])'
    BY <2>1 DEF SerialInv, TaskSound, Candidate, Holders, Tables, OpenSessions
  <2> QED
    BY <2>1, <2>2, <2>3, <2>4, QuietStep, KeptStarted
<1>2. CASE \E p \in Workers : Loads(p) \/ Commits(p)
  BY <1>2, LoadsSerial, CommitsSerial DEF NobodyLeaves
<1>3. CASE \E r \in Reservations : ReleaseByUser(r)
  BY <1>3, ReleaseSerial
<1>4. CASE \E r \in Reservations : CancelByManager(r)
  <2>1. "cancel" \in Operations
    BY <1>4 DEF CancelByManager, SomeWorker
  <2> QED
    BY <1>4, <2>1, CancelSerial DEF NobodyLeaves
<1>5. CASE \E r \in Reservations, c \in BOOLEAN : EndAnalysis(r, c)
  BY <1>5, EndAnalysisSerial
<1>6. CASE \E s \in Sessions : Advance(s) \/ Connect(s)
  BY <1>6, ConnectSerial
<1>7. CASE \E s \in Sessions, c \in BOOLEAN : EndSession(s, c) \/ FailSession(s, c)
  BY <1>7, EndSerial
<1>8. CASE \E w \in Pcs : Acknowledge(w)
  BY <1>8, AgentSerial DEF Outcomes
<1>9. CASE \E w \in Pcs, outcome \in Outcomes : CollectEnds(w, outcome)
  BY <1>9, AgentSerial
<1>10. CASE \E r \in Reservations : TimerExpires(r) \/ TimePasses(r) \/ LosesEligibility(r)
  BY <1>10, TimeSerial
<1> QED
  BY <1>1, <1>2, <1>3, <1>4, <1>5, <1>6, <1>7, <1>8, <1>9, <1>10 DEF Next

LEMMA SerialAlways ==
  ASSUME OneAtATime
  PROVE  Spec => []SerialInv
<1>1. Init => SerialInv
  BY SerialInit
<1>2. SerialInv /\ [Next]_vars => SerialInv'
  BY SerialStep
<1> QED
  BY <1>1, <1>2, PTL DEF Spec

(* Carried out one after another, the jobs give no PC to a reservation      *)
(* while another one holds it, although heartbeats, acknowledgements and    *)
(* failed desktops free the PC under it: the calendar is looked at too.     *)
THEOREM OneReservationPerPc == OneAtATime => (Spec => []OneHoldPerPc)
<1> SUFFICES ASSUME OneAtATime PROVE Spec => []OneHoldPerPc
  OBVIOUS
<1>1. SerialInv => OneHoldPerPc
  BY DEF SerialInv, Sound, OneHolder, OneHoldPerPc
<1> QED
  BY <1>1, SerialAlways, PTL

(* ... who is QUEUED waits in the queue, and nobody else does.              *)
THEOREM QueueAgreesSerial == OneAtATime => (Spec => []QueueAgrees)
<1> SUFFICES ASSUME OneAtATime PROVE Spec => []QueueAgrees
  OBVIOUS
<1>1. SerialInv => QueueAgrees
  BY TablesParts DEF SerialInv, AllAgree, Agree, QueueAgrees
<1> QED
  BY <1>1, SerialAlways, PTL

(* ... and a reservation has one open desktop, although desktops end, fail  *)
(* and are opened again.                                                    *)
THEOREM OneDesktopSerial == OneAtATime => (Spec => []OneDesktop)
<1> SUFFICES ASSUME OneAtATime PROVE Spec => []OneDesktop
  OBVIOUS
<1>1. SerialInv => OneDesktop
  BY OneOpenCardinality DEF SerialInv
<1> QED
  BY <1>1, SerialAlways, PTL

(* As long as no manager cancels and no agent falls silent: until the start *)
(* of its window is missed, an open desktop is on a PC that no other        *)
(* reservation holds.                                                       *)
THEOREM OwnDesktop ==
  OneAtATime /\ NobodyLeaves => (Spec => []DesktopNotShared)
<1> SUFFICES ASSUME OneAtATime, NobodyLeaves PROVE Spec => []DesktopNotShared
  OBVIOUS
<1>1. Init => SerialInv /\ OwnPc
  BY SerialInit
<1>2. SerialInv /\ OwnPc /\ [Next]_vars => SerialInv' /\ OwnPc'
  BY SerialStep
<1>3. SerialInv /\ OwnPc => DesktopNotShared
  <2> SUFFICES ASSUME SerialInv, OwnPc, NEW s \in Sessions, session[s].status \in Open,
                      booking[session[s].reservation].time = "early",
                      NEW r \in Holders(Tables, session[s].pc)
               PROVE  r = session[s].reservation \/ booking[r].time = "over"
    BY DEF DesktopNotShared
  <2> PICK o \in Reservations : o = session[s].reservation
    BY DEF SerialInv, Kind, TInv, SessionsOK
  <2> PICK w \in Pcs : w = session[s].pc
    BY DEF SerialInv, Kind, TInv, SessionsOK
  <2>1. reservation[o].status \in Started /\ reservation[o].pc = w
    BY DEF OwnPc
  <2>2. o \in Holders(Tables, w)
    BY <2>1, TablesParts DEF Holders, Holding
  <2>3. r \in Holders(Tables, w) /\ booking[o].time = "early"
    OBVIOUS
  <2> QED
    BY <2>2, <2>3 DEF SerialInv, Sound, OneHolder
<1> QED
  BY <1>1, <1>2, <1>3, PTL DEF Spec

-----------------------------------------------------------------------------
(* Who misses the check-in yields. *)

(* Wherever o and r stand in q, o comes first. *)
Before(q, o, r) == \A i, j \in 1..Len(q) : q[i] = o /\ q[j] = r => i < j

LEMMA BeforeAppend ==
  ASSUME NEW E, NEW q \in Seq(E), NEW e \in E, NEW o, NEW r, e # o, Before(q, o, r)
  PROVE  Before(Append(q, e), o, r)
<1>1. /\ Len(q) \in Nat /\ Len(Append(q, e)) = Len(q) + 1
      /\ \A i \in 1..Len(q) : Append(q, e)[i] = q[i]
      /\ Append(q, e)[Len(q) + 1] = e
  BY AppendProperties, LenProperties
<1> SUFFICES ASSUME NEW i \in 1..(Len(q) + 1), NEW j \in 1..(Len(q) + 1),
                    Append(q, e)[i] = o, Append(q, e)[j] = r
             PROVE  i < j
  BY <1>1 DEF Before
<1>2. i \in 1..Len(q) /\ q[i] = o
  BY <1>1
<1>3. CASE j \in 1..Len(q)
  BY <1>1, <1>2, <1>3 DEF Before
<1>4. CASE j = Len(q) + 1
  BY <1>1, <1>2, <1>4
<1> QED
  BY <1>1, <1>3, <1>4

LEMMA BeforeKept ==
  ASSUME NEW E, NEW q \in Seq(E), NEW S, NEW o, NEW r, o # r, Before(q, o, r)
  PROVE  Before(Kept(q, S), o, r)
<1>0. PICK f : KeptFrom(f, E, q, S)
  BY KeptPrefixes
<1> DEFINE n == Len(q)
           Good(i) == Before(f[i], o, r) /\ \A e \in Elems(f[i]) : \E k \in 1..n : k <= i /\ q[k] = e
           T == {i \in 0..n : Good(i)}
<1>1. /\ f \in [0..n -> Seq(E)] /\ Kept(q, S) = f[n] /\ f[0] = <<>> /\ n \in Nat
      /\ \A i \in 1..n : /\ f[i] = IF q[i] \in S THEN Append(f[i - 1], q[i]) ELSE f[i - 1]
                         /\ q[i] \in E /\ i - 1 \in 0..n /\ i \in 0..n
  BY <1>0, ElementOfSeq, LenProperties DEF KeptFrom
<1>2. \A i, j \in 1..n : q[i] = o /\ q[j] = r => i < j
  BY DEF Before
<1> HIDE DEF n
<1>3. 0 \in T
  BY <1>1, EmptyElems DEF Before
<1>4. ASSUME NEW i \in 1..n, i - 1 \in T PROVE i \in T
  <2> PICK p \in Seq(E) : p = f[i - 1]
    BY <1>1
  <2>1. /\ Before(p, o, r) /\ \A e \in Elems(p) : \E k \in 1..n : k <= i - 1 /\ q[k] = e
        /\ i \in Nat /\ i \in 0..n
    BY <1>1, <1>4
  <2>2. \A e \in Elems(p) : \E k \in 1..n : k < i /\ q[k] = e
    <3>1. \A k \in 1..n : k <= i - 1 => k < i
      BY <2>1
    <3> QED
      BY <2>1, <3>1
  <2>3. CASE q[i] \notin S
    <3>1. f[i] = p
      BY <1>1, <2>3
    <3>2. \A e \in Elems(f[i]) : \E k \in 1..n : k <= i /\ q[k] = e
      <4>1. \A k \in 1..n : k < i => k <= i
        BY <2>1
      <4> QED
        BY <2>2, <3>1, <4>1
    <3> QED
      BY <2>1, <3>1, <3>2
  <2>4. CASE q[i] \in S
    <3>1. f[i] = Append(p, q[i]) /\ q[i] \in E
      BY <1>1, <2>4
    <3>2. \A e \in Elems(f[i]) : \E k \in 1..n : k <= i /\ q[k] = e
      <4>1. Elems(f[i]) = Elems(p) \cup {q[i]}
        BY <3>1, AppendElems
      <4>2. i <= i /\ \A k \in 1..n : k < i => k <= i
        BY <2>1
      <4> QED
        BY <2>2, <4>1, <4>2
    <3>3. CASE q[i] # o
      <4>1. Before(f[i], o, r)
        BY <2>1, <3>1, <3>3, BeforeAppend
      <4> QED
        BY <2>1, <3>2, <4>1
    <3>4. CASE q[i] = o
      <4>1. r \notin Elems(f[i])
        <5> SUFFICES ASSUME r \in Elems(f[i]) PROVE FALSE
          OBVIOUS
        <5>1. r \in Elems(p)
          BY <3>1, <3>4, AppendElems
        <5>2. PICK k \in 1..n : k < i /\ q[k] = r
          BY <2>2, <5>1
        <5>3. i < k
          BY <1>2, <3>4, <5>2
        <5> QED
          BY <5>2, <5>3, <2>1
      <4>2. Before(f[i], o, r)
        BY <4>1 DEF Before, Elems
      <4> QED
        BY <2>1, <3>2, <4>2
    <3> QED
      BY <3>3, <3>4
  <2> QED
    BY <2>3, <2>4
<1> HIDE DEF T
<1>5. 0..n \subseteq T
  BY <1>1, <1>3, <1>4, UpTo
<1>6. n \in T
  BY <1>1, <1>5
<1> QED
  BY <1>1, <1>6 DEF T

(* The end of a hold puts its reservation behind the others, and moves      *)
(* nobody else.                                                             *)
LEMMA EndedBefore ==
  ASSUME NEW t \in TableSet, NEW u, NEW x \in Reservations, Ended(t, u, x), NEW o, o # x
  PROVE  /\ u.res[x].status = "QUEUED" => Before(u.order, o, x)
         /\ \A r : r # o /\ Before(t.order, o, r) => Before(u.order, o, r)
<1> DEFINE rest == Kept(t.order, Reservations \ {x})
<1>1. /\ t.order \in Seq(Reservations) /\ rest \in Seq(Reservations)
      /\ x \notin Elems(rest)
  BY KeptElems DEF TableSet
<1>2. \A r : r # o /\ Before(t.order, o, r) => Before(rest, o, r)
  BY <1>1, BeforeKept
<1> HIDE DEF rest
<1>3. CASE u.order = t.order /\ u.res[x].status # "QUEUED"
  BY <1>3
<1>4. CASE x \in Elems(t.order) /\ u.order = Append(rest, x)
  <2>1. Before(rest, o, x)
    BY <1>1 DEF Before, Elems
  <2>2. \A r : Before(rest, o, r) => Before(u.order, o, r)
    BY <1>1, <1>4, BeforeAppend
  <2> QED
    BY <1>2, <2>1, <2>2
<1>5. CASE x \notin Elems(t.order) /\ u.order = Append(t.order, x)
  <2>1. Before(t.order, o, x)
    BY <1>5 DEF Before, Elems
  <2>2. \A r : Before(t.order, o, r) => Before(u.order, o, r)
    BY <1>1, <1>5, BeforeAppend
  <2> QED
    BY <2>1, <2>2
<1> QED
  BY <1>3, <1>4, <1>5 DEF Ended, LastIn, rest

(* No PC is left for anybody who holds none. *)
NoFree(t) ==
  \A w \in Pcs : t.pc[w] = "AVAILABLE" => \E x \in Holders(t, w) : booking[x].time # "over"

LEMMA NoFreeServe ==
  ASSUME NEW t \in TableSet, NEW x \in Reservations, Sound(t), NoFree(t)
  PROVE  /\ NoFree(Serve(t, x))
         /\ t.res[x].status \notin Holding => Serve(t, x).res[x].status \notin Holding
<1> DEFINE u == Serve(t, x)
           w == Best(t, x)
<1>1. \/ t.entry[x] # "WAITING" /\ u = t
      \/ t.res[x].status \in Terminal /\ Closes(t, u, x)
      \/ t.res[x].status \notin Terminal /\ t.entry[x] = "WAITING" /\ Decided(t, u, x, w)
  BY ServeRow
<1>2. Candidate(t, w, x)
  BY BestCandidate
<1> HIDE DEF u, w
<1>3. ASSUME u = t
      PROVE  NoFree(u) /\ (t.res[x].status \notin Holding => u.res[x].status \notin Holding)
  BY <1>3
<1>4. ASSUME Closes(t, u, x)
      PROVE  NoFree(u) /\ (t.res[x].status \notin Holding => u.res[x].status \notin Holding)
  <2>1. u.res = t.res /\ u.pc = t.pc
    BY <1>4 DEF Closes
  <2> QED
    BY <2>1 DEF NoFree, Holders
<1>5. ASSUME t.res[x].status \notin Terminal, t.entry[x] = "WAITING", Decided(t, u, x, w)
      PROVE  NoFree(u) /\ (t.res[x].status \notin Holding => u.res[x].status \notin Holding)
  <2>1. t.res[x].status = "QUEUED" /\ t.res[x].pc = NoPc
    BY <1>5 DEF Sound, Queued, NoPcYet
  <2>2. \A v : x \notin Holders(t, v)
    BY <2>1 DEF Holders, Holding, Started
  <2>3. w = NoPc
    BY <1>2, <2>2 DEF Candidate, NoFree
  <2>4. NoPc \notin Pcs
    BY SchedulerAssumption
  <2>5. u.res[x].status \notin Holding /\ u.pc = t.pc
    BY <1>5, <2>1, <2>3, <2>4 DEF Decided, Holding, Started
  <2>6. \A v : Holders(t, v) \subseteq Holders(u, v)
    BY <1>5, <2>2 DEF Decided, RowsKept, Holders
  <2> QED
    BY <2>5, <2>6 DEF NoFree
<1>6. NoFree(u) /\ (t.res[x].status \notin Holding => u.res[x].status \notin Holding)
  BY <1>1, <1>3, <1>4, <1>5
<1> QED
  BY <1>6 DEF u

(* If o still waits after its service, no PC was left.                      *)
LEMMA ServedInVain ==
  ASSUME NEW t \in TableSet, NEW o \in Reservations, Sound(t),
         Serve(t, o).entry[o] = "WAITING"
  PROVE  NoFree(Serve(t, o))
<1> DEFINE u == Serve(t, o)
           w == Best(t, o)
<1>1. \/ t.entry[o] # "WAITING" /\ u = t
      \/ t.res[o].status \in Terminal /\ Closes(t, u, o)
      \/ t.res[o].status \notin Terminal /\ t.entry[o] = "WAITING" /\ Decided(t, u, o, w)
  BY ServeRow
<1>2. w = NoPc => \A v \in Pcs : t.pc[v] = "AVAILABLE" =>
                     \E x \in Holders(t, v) \ {o} : booking[x].time # "over"
  <2> DEFINE free == {v \in Pcs : /\ t.pc[v] = "AVAILABLE"
                                  /\ \A x \in Holders(t, v) \ {o} : booking[x].time = "over"}
  <2>1. w = IF free = {} THEN NoPc ELSE CHOOSE v \in free : TRUE
    BY DEF Best
  <2>2. free # {} => w \in Pcs
    BY <2>1
  <2>3. NoPc \notin Pcs
    BY SchedulerAssumption
  <2> HIDE DEF w
  <2> QED
    BY <2>2, <2>3
<1>3. u.entry[o] = "WAITING"
  OBVIOUS
<1> HIDE DEF u, w
<1>4. t.res[o].status \notin Terminal /\ t.entry[o] = "WAITING" /\ Decided(t, u, o, w)
  BY <1>1, <1>3 DEF Closes
<1>5. t.res[o].pc = NoPc
  BY <1>4 DEF Sound, Queued, NoPcYet
<1>6. w = NoPc /\ u.pc = t.pc
  BY <1>3, <1>4, <1>5 DEF Decided
<1>7. \A v : Holders(t, v) \ {o} \subseteq Holders(u, v)
  BY <1>4 DEF Decided, RowsKept, Holders
<1>8. NoFree(u)
  BY <1>2, <1>6, <1>7 DEF NoFree
<1> QED
  BY <1>8 DEF u

LEMMA ServeOrder ==
  ASSUME NEW t \in TableSet, NEW x \in Reservations, Sound(t)
  PROVE  /\ Serve(t, x).order = t.order
         /\ t.entry[x] # "WAITING" => Serve(t, x).entry[x] # "WAITING"
<1>1. t.entry[x] = "WAITING" => x \in Elems(t.order)
  BY DEF Sound, Queued
<1> HIDE DEF Serve
<1> QED
  BY ZenonT(90), <1>1, ServeRow DEF Closes, Decided

(* Who stands behind o, whom the queue job leaves waiting, gets no PC.      *)
LEMMA ServeAllYields ==
  ASSUME NEW t \in TableSet, Sound(t), NEW o \in Reservations, NEW r \in Reservations, o # r,
         t.entry[o] = "WAITING", t.res[r].status \notin Holding, Before(t.order, o, r)
  PROVE  /\ ServeAll(t).order = t.order
         /\ ServeAll(t).entry[o] = "WAITING" => ServeAll(t).res[r].status \notin Holding
<1> DEFINE list == Waiting(t)
           n == Len(list)
<1> PICK f : ServedFrom(f, t, list) /\ ServeAll(t) = f[n]
  BY ServedEntries
<1>1. /\ n \in Nat /\ \A i \in 1..n : i \in 0..n /\ i - 1 \in 0..n /\ list[i] \in Reservations
      /\ f \in [0..n -> TableSet] /\ f[0] = t
      /\ \A i \in 1..n : f[i] = Serve(f[i - 1], list[i])
  <2>1. n \in Nat /\ \A i \in 1..n : list[i] \in Reservations
    BY WaitingList, ElementOfSeq, LenProperties
  <2> QED
    BY <2>1 DEF ServedFrom
<1>2. PICK a \in 1..n : list[a] = o
  <2>1. o \in Elems(t.order)
    BY DEF Sound, Queued
  <2>2. o \in Elems(list)
    BY <2>1, WaitingList
  <2> QED
    BY <2>2 DEF Elems
<1>3. \A j \in 1..n : list[j] = r => a < j
  <2>1. Before(list, o, r)
    BY BeforeKept DEF Waiting, TableSet
  <2> QED
    BY <1>2, <2>1 DEF Before
<1> HIDE DEF list, n
<1> DEFINE Behind(i) == f[i].res[r].status \notin Holding /\ (a <= i => NoFree(f[i]))
           Good(i) == Sound(f[i]) /\ f[i].order = t.order
                      /\ (f[i].entry[o] = "WAITING" => Behind(i))
           T == {i \in 0..n : Good(i)}
<1>4. 0 \in T
  <2>1. ~(a <= 0)
    BY <1>1, <1>2
  <2> QED
    BY <1>1, <2>1
<1>5. ASSUME NEW i \in 1..n, i - 1 \in T PROVE i \in T
  <2> PICK x \in Reservations : x = list[i]
    BY <1>1
  <2>1. f[i - 1] \in TableSet /\ f[i] = Serve(f[i - 1], x) /\ i \in 0..n /\ i \in Nat
    BY <1>1
  <2>2. Good(i - 1)
    BY <1>5
  <2>3. Sound(f[i]) /\ f[i].order = t.order
    BY <2>1, <2>2, ServeSound, ServeOrder
  <2>4. RowsKept(f[i - 1], f[i], Reservations \ {x})
    BY <2>1, ServeFrame
  <2>5. ASSUME f[i].entry[o] = "WAITING" PROVE Behind(i)
    <3>1. f[i - 1].entry[o] = "WAITING"
      <4>1. CASE x = o
        BY <2>1, <2>2, <2>5, <4>1, ServeOrder
      <4>2. CASE x # o
        BY <2>4, <2>5, <4>2 DEF RowsKept
      <4> QED
        BY <4>1, <4>2
    <3>2. Behind(i - 1)
      BY <2>2, <3>1
    <3>3. a <= i - 1 => NoFree(f[i])
      BY <2>1, <2>2, <3>2, NoFreeServe
    <3>4. a = i => NoFree(f[i])
      <4>1. a = i => x = o
        BY <1>2
      <4> QED
        BY <2>1, <2>2, <2>5, <4>1, ServedInVain
    <3>5. a <= i => NoFree(f[i])
      <4>1. a <= i => a <= i - 1 \/ a = i
        BY <2>1, <1>2, <1>1
      <4> QED
        BY <3>3, <3>4, <4>1
    <3>6. f[i].res[r].status \notin Holding
      <4>1. CASE x = r
        <5>1. a <= i - 1
          <6>1. a < i
            BY <1>3, <4>1
          <6>2. a \in Int /\ i \in Int
            BY <1>1
          <6> QED
            BY <6>1, <6>2
        <5> QED
          BY <2>1, <2>2, <3>2, <4>1, <5>1, NoFreeServe
      <4>2. CASE x # r
        BY <2>4, <3>2, <4>2 DEF RowsKept
      <4> QED
        BY <4>1, <4>2
    <3> QED
      BY <3>5, <3>6
  <2> HIDE DEF Behind
  <2> QED
    BY <2>1, <2>3, <2>5
<1> HIDE DEF T
<1>6. 0..n \subseteq T
  BY <1>1, <1>4, <1>5, UpTo
<1>7. n \in T
  BY <1>1, <1>6
<1> QED
  BY <1>7 DEF T

(* What the releases of the list q leave of the reservations in it, and of  *)
(* the others.                                                              *)
LEMMA ReleaseAllLast ==
  ASSUME NEW t \in TableSet, NEW q \in Seq(Reservations), NEW o \in Reservations,
         \A i, j \in 1..Len(q) : i # j => q[i] # q[j],
         \A i \in 1..Len(q) : q[i] # o
  PROVE  /\ RowsKept(t, ReleaseAll(t, q), {x \in Reservations : \A k \in 1..Len(q) : q[k] # x})
         /\ \A k \in 1..Len(q) :
               \/ /\ ReleaseAll(t, q).res[q[k]].status = "QUEUED"
                  /\ Before(ReleaseAll(t, q).order, o, q[k])
               \/ /\ ReleaseAll(t, q).res[q[k]].status = "CANCELLED"
                  /\ ReleaseAll(t, q).entry[q[k]] = t.entry[q[k]]
<1> DEFINE n == Len(q)
<1> PICK f : ReleasedFrom(f, t, q) /\ ReleaseAll(t, q) = f[n]
  BY ReleasedHolds
<1>1. /\ n \in Nat /\ \A i \in 1..n : i \in 0..n /\ i - 1 \in 0..n /\ q[i] \in Reservations
      /\ f \in [0..n -> TableSet] /\ f[0] = t
      /\ \A i \in 1..n : Ended(f[i - 1], f[i], q[i])
  BY ElementOfSeq, LenProperties DEF ReleasedFrom
<1>2. /\ \A i, j \in 1..n : i # j => q[i] # q[j]
      /\ \A i \in 1..n : q[i] # o
  OBVIOUS
<1> DEFINE Left(u, x) == \/ u.res[x].status = "QUEUED" /\ Before(u.order, o, x)
                         \/ u.res[x].status = "CANCELLED" /\ u.entry[x] = t.entry[x]
           Out(i, x) == \A k \in 1..n : k <= i => q[k] # x
           Good(i) == /\ \A x \in Reservations : Out(i, x) =>
                            f[i].res[x] = t.res[x] /\ f[i].entry[x] = t.entry[x]
                      /\ \A k \in 1..n : k <= i => Left(f[i], q[k])
           T == {i \in 0..n : Good(i)}
<1> HIDE DEF n
<1>3. 0 \in T
  <2>1. \A k \in 1..n : ~(k <= 0)
    BY <1>1
  <2> QED
    BY <1>1, <2>1
<1>4. ASSUME NEW i \in 1..n, i - 1 \in T PROVE i \in T
  <2> PICK x \in Reservations : x = q[i]
    BY <1>1
  <2>1. /\ f[i - 1] \in TableSet /\ Ended(f[i - 1], f[i], x) /\ i \in 0..n /\ o # x
    BY <1>1, <1>2
  <2>2. Good(i - 1)
    BY <1>4
  <2>3. /\ \A k \in 1..n : k <= i <=> (k <= i - 1 \/ k = i)
        /\ ~(i <= i - 1)
    BY <1>1
  <2>4. RowsKept(f[i - 1], f[i], Reservations \ {x})
    BY <2>1 DEF Ended
  <2>5. ASSUME NEW y \in Reservations, Out(i, y)
        PROVE  f[i].res[y] = t.res[y] /\ f[i].entry[y] = t.entry[y]
    <3>1. y # x /\ Out(i - 1, y)
      BY <2>3, <2>5
    <3> QED
      BY <2>2, <2>4, <3>1 DEF RowsKept
  <2>6. Left(f[i], x)
    <3>1. CASE f[i].res[x].status = "QUEUED"
      BY <2>1, <3>1, EndedBefore
    <3>2. CASE f[i].res[x].status # "QUEUED"
      <4>1. Out(i - 1, x)
        BY <1>2, <2>3
      <4>2. f[i - 1].entry[x] = t.entry[x]
        BY <2>2, <4>1
      <4> QED
        BY <2>1, <3>2, <4>2 DEF Ended
    <3> QED
      BY <3>1, <3>2
  <2>7. ASSUME NEW k \in 1..n, k <= i - 1 PROVE Left(f[i], q[k])
    <3> PICK y \in Reservations : y = q[k]
      BY <1>1
    <3>1. y # x /\ y # o
      BY <1>2, <2>3, <2>7
    <3>2. Left(f[i - 1], y)
      BY <2>2, <2>7
    <3>3. f[i].res[y] = f[i - 1].res[y] /\ f[i].entry[y] = f[i - 1].entry[y]
      BY <2>4, <3>1 DEF RowsKept
    <3>4. Before(f[i - 1].order, o, y) => Before(f[i].order, o, y)
      BY <2>1, <3>1, EndedBefore
    <3> QED
      BY <3>2, <3>3, <3>4
  <2> HIDE DEF Left, Out
  <2> QED
    BY <2>1, <2>3, <2>5, <2>6, <2>7
<1> HIDE DEF T
<1>5. 0..n \subseteq T
  BY <1>1, <1>3, <1>4, UpTo
<1>6. n \in T
  BY <1>1, <1>5
<1>7. Good(n) /\ \A k \in 1..n : k <= n
  BY <1>1, <1>6 DEF T
<1>8. \A x \in {x \in Reservations : \A k \in 1..n : q[k] # x} : Out(n, x)
  OBVIOUS
<1> QED
  BY <1>7, <1>8 DEF RowsKept, n

(* A row that has been cancelled and waits no more stays so.                *)
LEMMA ServeAllCancelled ==
  ASSUME NEW t \in TableSet, NEW r \in Reservations,
         t.res[r].status = "CANCELLED", t.entry[r] # "WAITING"
  PROVE  ServeAll(t).res[r].status = "CANCELLED" /\ ServeAll(t).entry[r] # "WAITING"
<1> DEFINE S == {v \in TableSet : v.res[r].status = "CANCELLED" /\ v.entry[r] # "WAITING"}
<1>1. ASSUME NEW v \in S \cap TableSet, NEW x \in Reservations PROVE Serve(v, x) \in S
  <2> DEFINE u == Serve(v, x)
  <2>1. Frame(v, u) /\ RowsKept(v, u, Reservations \ {x})
    BY ServeFrame
  <2>2. x = r => u = v
    BY DEF Serve
  <2> HIDE DEF u
  <2>3. u \in S
    BY <2>1, <2>2 DEF Frame, RowsKept
  <2> QED
    BY <2>3 DEF u
<1>2. t \in S
  OBVIOUS
<1> HIDE DEF S
<1>3. ServeAll(t) \in S
  BY <1>1, <1>2, ServeAllKeeps
<1> QED
  BY <1>3 DEF S

Yields(r, o) ==
  /\ reservation'[r].status \notin Holding
  /\ entry'[r] = "WAITING" =>
        \E i, j \in DOMAIN order' : i < j /\ order'[i] = o /\ order'[j] = r

LEMMA DueYields ==
  ASSUME OneAtATime, SerialInv, NEW p \in Workers, DueCommit(p),
         NEW r \in Reservations, NEW o \in Reservations, o # r,
         reservation'[r].missed # reservation[r].missed,
         entry[o] = "WAITING", entry'[o] = "WAITING"
  PROVE  Yields(r, o)
<1>0. TInv /\ Tables \in TableSet /\ Sound(Tables)
  BY DEF SerialInv, Kind, TInv, TablesOK
<1> PICK u : u = Tables'
  OBVIOUS
<1>1. PICK q \in Seq(Reservations) :
        /\ u = ServeAll(ReleaseAll(Tables, q))
        /\ \A i, j \in 1..Len(q) : i # j => q[i] # q[j]
        /\ \A i \in 1..Len(q) : q[i] \in task[p].rs
        /\ ReleaseAll(Tables, q) \in TableSet
  BY <1>0, DueTables
<1>2. \A i \in 1..Len(q) : Tables.res[q[i]].status = "AWAITING_CHECKIN" /\ q[i] \in Reservations
  <2>1. \A x \in task[p].rs : reservation[x].status = "AWAITING_CHECKIN"
    BY DEF SerialInv, TaskSound, DueCommit
  <2> QED
    BY <1>1, <2>1, TablesParts, ElementOfSeq
<1>3. \A i \in 1..Len(q) : q[i] # o /\ Tables.entry[q[i]] # "WAITING"
  <2>1. \A x \in Reservations : Tables.entry[x] = "WAITING" => Tables.res[x].status = "QUEUED"
    BY DEF SerialInv, AllAgree, Agree
  <2>2. Tables.entry[o] = "WAITING"
    BY TablesParts
  <2> QED
    BY <1>2, <2>1, <2>2
<1> PICK t \in TableSet : t = ReleaseAll(Tables, q)
  BY <1>1
<1>4. Sound(t)
  BY <1>0, <1>1, <1>2, ReleaseAllSound
<1>5. /\ RowsKept(Tables, t, {x \in Reservations : \A k \in 1..Len(q) : q[k] # x})
      /\ \A k \in 1..Len(q) :
           \/ t.res[q[k]].status = "QUEUED" /\ Before(t.order, o, q[k])
           \/ t.res[q[k]].status = "CANCELLED" /\ t.entry[q[k]] = Tables.entry[q[k]]
  BY ZenonT(90), <1>0, <1>1, <1>3, ReleaseAllLast
<1>6. t.entry[o] = "WAITING"
  <2>1. Tables.entry[o] = "WAITING"
    BY TablesParts
  <2> QED
    BY <1>3, <1>5, <2>1 DEF RowsKept
<1>7. Sound(u) /\ MissedKept(t, u)
  BY <1>1, <1>4, ServeAllSound
<1>8. PICK k \in 1..Len(q) : q[k] = r
  <2> SUFFICES ASSUME \A k \in 1..Len(q) : q[k] # r PROVE FALSE
    OBVIOUS
  <2>1. t.res[r] = Tables.res[r]
    BY <1>5 DEF RowsKept
  <2>2. u.res[r].missed = t.res[r].missed
    BY <1>7 DEF MissedKept
  <2> QED
    BY <2>1, <2>2, TablesParts
<1>9. CASE t.res[r].status = "QUEUED" /\ Before(t.order, o, r)
  <2>1. t.res[r].status \notin Holding
    BY <1>9 DEF Holding, Started
  <2>2. u.order = t.order /\ (u.entry[o] = "WAITING" => u.res[r].status \notin Holding)
    BY <1>1, <1>4, <1>6, <1>9, <2>1, ServeAllYields
  <2>3. u.entry[o] = "WAITING" /\ u.entry = entry' /\ u.order = order' /\ u.res = reservation'
    BY TablesParts
  <2>4. ASSUME entry'[r] = "WAITING"
        PROVE  \E i, j \in DOMAIN order' : i < j /\ order'[i] = o /\ order'[j] = r
    <3>1. o \in Elems(order') /\ r \in Elems(order')
      BY <1>7, <2>3, <2>4 DEF Sound, Queued
    <3>2. Before(order', o, r)
      BY <1>9, <2>2, <2>3
    <3>3. DOMAIN order' = 1..Len(order')
      <4>1. order' \in Seq(Reservations)
        BY <2>2, <2>3 DEF TableSet
      <4> QED
        BY <4>1
    <3> QED
      BY <3>1, <3>2, <3>3 DEF Before, Elems
  <2> QED
    BY <2>2, <2>3, <2>4 DEF Yields
<1>10. CASE t.res[r].status = "CANCELLED" /\ t.entry[r] = Tables.entry[r]
  <2>1. u.res[r].status = "CANCELLED" /\ u.entry[r] # "WAITING"
    BY <1>1, <1>3, <1>8, <1>10, ServeAllCancelled
  <2> QED
    BY <2>1, TablesParts DEF Yields, Holding, Started
<1> QED
  BY <1>5, <1>8, <1>9, <1>10

(* A hold that its user gives back is not a missed one. *)
LEMMA GivenBack ==
  ASSUME NEW t \in TableSet, NEW r \in Reservations
  PROVE  MissedKept(t, ReleaseHold(t, r, FALSE))
<1> DEFINE w == t.res[r].pc
           pc1 == [v \in Pcs |-> IF v = w /\ t.pc[v] = "RESERVED" THEN "AVAILABLE" ELSE t.pc[v]]
           row == [status |-> "QUEUED", pc |-> NoPc, timer |-> "off", missed |-> t.res[r].missed]
           freed == [t EXCEPT !.pc = pc1, !.res[r] = row]
<1> PICK b \in BOOLEAN : b = TRUE
  OBVIOUS
<1>1. t.res[r].missed + 0 = t.res[r].missed /\ row \in Row
  BY DEF TableSet, Row
<1>2. ReleaseHold(t, r, FALSE) = Enqueue(freed, r, b)
  BY <1>1 DEF ReleaseHold
<1>3. pc1 \in [Pcs -> PcStatuses]
  BY DEF TableSet, PcStatuses
<1>4. row.missed = t.res[r].missed
  OBVIOUS
<1> HIDE DEF pc1, row
<1>5. freed \in TableSet /\ freed.res = [t.res EXCEPT ![r] = row]
  BY <1>1, <1>3 DEF TableSet
<1> HIDE DEF freed
<1>6. Enqueue(freed, r, b).res = freed.res
  BY <1>5, EnqueueRow
<1> QED
  BY <1>2, <1>4, <1>5, <1>6 DEF MissedKept, TableSet

(* Only the job of the check-in timers counts what was missed. *)
LEMMA OthersCountNothing ==
  ASSUME OneAtATime, SerialInv, [Next]_vars, ~ \E p \in Workers : DueCommit(p)
  PROVE  \A r \in Reservations : reservation'[r].missed = reservation[r].missed
<1>0. TInv /\ Tables \in TableSet /\ Sound(Tables) /\ reservation \in [Reservations -> Row]
  BY TablesTypes DEF SerialInv, Kind, TInv, TablesOK
<1>1. SUFFICES ASSUME reservation' # reservation PROVE MissedKept(Tables, Tables')
  BY TablesParts DEF MissedKept
<1>2. ASSUME NEW p \in Workers, Commits(p) PROVE MissedKept(Tables, Tables')
  <2>1. CASE RequestCommit(p) \/ QueueCommit(p)
    BY <1>0, <2>1, RequestTables, QueueTables, TaskTypes, TablesParts
    DEF MissedKept, Decided, Closes, RowsKept, RequestCommit, QueueCommit, TInv, TasksOK
  <2>2. CASE LaunchReuse(p) \/ LaunchRefused(p) \/ \E s \in Sessions : LaunchCreate(p, s)
    BY <1>0, <2>2, TablesParts DEF LaunchReuse, LaunchRefused, LaunchCreate, MissedKept, Row
  <2>3. CASE SweepCommit(p)
    BY <1>0, <2>3, SweepTables DEF Closing, MissedKept, RowsKept
  <2>4. CASE QueuePick(p) \/ StatusCommit(p)
    BY <1>1, <2>4 DEF QueuePick, StatusCommit
  <2> QED
    BY <1>2, <2>1, <2>2, <2>3, <2>4 DEF Commits
<1>3. ASSUME NEW r \in Reservations, ReleaseByUser(r) PROVE MissedKept(Tables, Tables')
  <2> DEFINE u == ReleaseHold(Tables, r, FALSE)
  <2>1. MissedKept(Tables, u)
    BY <1>0, GivenBack
  <2>2. reservation' = u.res
    BY <1>3 DEF ReleaseByUser, Save
  <2> HIDE DEF u
  <2> QED
    BY <2>1, <2>2, TablesParts DEF MissedKept
<1>4. ASSUME NEW r \in Reservations, CancelByManager(r) PROVE MissedKept(Tables, Tables')
  BY <1>0, <1>4, CancelTables DEF Closing, MissedKept, RowsKept
<1>5. ASSUME NEW s \in Sessions, NEW c \in BOOLEAN, EndSession(s, c) \/ FailSession(s, c)
      PROVE  MissedKept(Tables, Tables')
  <2>1. PICK final \in {"ENDED", "FAILED"} :
           session[s].status \in Open /\ Save(Released(Tables, s, final, c))
    BY <1>5 DEF EndSession, FailSession, Open
  <2>2. session[s].pc \in Pcs /\ session[s].reservation \in Reservations
    BY <1>0, <2>1 DEF TInv, SessionsOK
  <2>3. MissedKept(Tables, Released(Tables, s, final, c))
    BY <1>0, <2>2, ReleasedSound DEF SerialInv
  <2> QED
    BY <1>0, <2>1, <2>3, EndTables
<1>6. ASSUME NEW r \in Reservations, NEW c \in BOOLEAN, EndAnalysis(r, c)
      PROVE  MissedKept(Tables, Tables')
  <2> PICK final \in {"ENDED", "FAILED"} : final = "ENDED"
    OBVIOUS
  <2>1. CASE \E s \in OpenSessions(r) : /\ Released(Tables, s, final, c) \in TableSet
                                       /\ Tables' = ServeAll(Released(Tables, s, final, c))
    <3> PICK s \in OpenSessions(r) : /\ Released(Tables, s, final, c) \in TableSet
                                     /\ Tables' = ServeAll(Released(Tables, s, final, c))
      BY <2>1
    <3>1. s \in Sessions /\ session[s].reservation = r /\ session[s].pc \in Pcs
      BY <1>0 DEF OpenSessions, TInv, SessionsOK
    <3> PICK t \in TableSet : t = Released(Tables, s, final, c)
      OBVIOUS
    <3>2. Sound(t) /\ MissedKept(Tables, t)
      BY <1>0, <3>1, ReleasedSound DEF SerialInv
    <3>3. MissedKept(t, ServeAll(t))
      BY <3>2, ServeAllSound
    <3> QED
      BY <3>2, <3>3 DEF MissedKept
  <2>2. CASE \E t \in TableSet : Closing(Tables, t, r) /\ Tables' = ServeAll(t)
    <3> PICK t \in TableSet : Closing(Tables, t, r) /\ Tables' = ServeAll(t)
      BY <2>2
    <3>1. Sound(t) /\ MissedKept(Tables, t)
      BY <1>0, ClosingSound
    <3>2. MissedKept(t, ServeAll(t))
      BY <3>1, ServeAllSound
    <3> QED
      BY <3>1, <3>2 DEF MissedKept
  <2> QED
    BY <1>0, <1>6, <2>1, <2>2, EndAnalysisTables
<1>7. ASSUME NEW s \in Sessions, Advance(s) \/ Connect(s) PROVE MissedKept(Tables, Tables')
  BY <1>0, <1>7, TablesParts DEF Advance, Connect, MissedKept, Row
<1>8. ASSUME NEW r \in Reservations, TimerExpires(r) PROVE MissedKept(Tables, Tables')
  BY <1>0, <1>8, TablesParts DEF TimerExpires, MissedKept, Row
<1>9. ~ \E p \in Workers : Loads(p)
  BY <1>0, <1>1, LoadsTask
<1>10. ~ UNCHANGED vars /\ ~ \E r \in Reservations : TimePasses(r) \/ LosesEligibility(r)
  BY <1>1 DEF vars, TimePasses, LosesEligibility
<1>11. /\ ~ \E w \in Pcs : Acknowledge(w)
       /\ ~ \E w \in Pcs, outcome \in Outcomes : CollectEnds(w, outcome)
  BY <1>1 DEF Acknowledge, CollectEnds
<1> QED
  BY <1>2, <1>3, <1>4, <1>5, <1>6, <1>7, <1>8, <1>9, <1>10, <1>11 DEF Next

(* What MissedYields says of a step. *)
MissedYieldsNow ==
  \A r, o \in Reservations :
      /\ reservation'[r].missed > reservation[r].missed
      /\ o # r /\ entry[o] = "WAITING" /\ entry'[o] = "WAITING"
      => /\ reservation'[r].status \notin Holding
         /\ entry'[r] = "WAITING" =>
               \E i, j \in DOMAIN order' : i < j /\ order'[i] = o /\ order'[j] = r

(* Carried out one after another, a job of the check-in timers lets everybody  *)
(* who waits pass: who missed the check-in gets no PC in that job, nor a       *)
(* place ahead of those it could not serve.                                    *)
THEOREM MissedYieldsSerial == OneAtATime => (Spec => MissedYields)
<1> SUFFICES ASSUME OneAtATime PROVE Spec => MissedYields
  OBVIOUS
<1>1. SerialInv /\ [Next]_vars => [MissedYieldsNow]_vars
  <2> SUFFICES ASSUME SerialInv, [Next]_vars,
                      NEW r \in Reservations, NEW o \in Reservations,
                      reservation'[r].missed > reservation[r].missed,
                      o # r, entry[o] = "WAITING", entry'[o] = "WAITING"
               PROVE  Yields(r, o)
    BY DEF Yields, MissedYieldsNow
  <2>1. reservation'[r].missed # reservation[r].missed
    <3>1. reservation[r].missed \in Int
      BY TablesTypes DEF SerialInv, Kind, TInv, Row
    <3> QED
      BY <3>1
  <2>2. \E p \in Workers : DueCommit(p)
    BY <2>1, OthersCountNothing
  <2> QED
    BY <2>1, <2>2, DueYields
<1> QED
  BY <1>1, SerialAlways, PTL DEF Spec, MissedYields, MissedYieldsNow

=============================================================================
