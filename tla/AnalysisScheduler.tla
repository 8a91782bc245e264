------------------------- MODULE AnalysisScheduler -------------------------
(***************************************************************************)
(* Remote analysis: reservations of analysis PCs, the queue for them, the  *)
(* check-in hold, desktop sessions and the portal's status of each PC.     *)
(*                                                                         *)
(* Who writes them: users (request, launch, release, end), managers        *)
(* (cancel), Celery jobs (queue, check-in timers, sweep of stale           *)
(* reservations, offline PCs, sessions) and the agent on the PC            *)
(* (heartbeats, command acknowledgements).  Only the queue job locks the   *)
(* reservation it works on; nobody locks a PC.                             *)
(***************************************************************************)
EXTENDS Integers, FiniteSets, Sequences, SequencesExt, Filtering

CONSTANTS Reservations, Pcs, Sessions, Workers, NoPc, NoReservation,
          Operations,    \* the operations a run includes
          MissedLimit    \* missed check-ins before a reservation is cancelled

ASSUME SchedulerAssumption ==
    /\ IsFiniteSet(Reservations) /\ IsFiniteSet(Pcs)
    /\ NoPc \notin Pcs /\ NoReservation \notin Reservations
    /\ MissedLimit \in Nat \ {0}

VARIABLES
    reservation, \* AnalysisReservation: status, workstation, check-in timer, missed count
    entry,       \* status of the ReservationQueue row
    order,       \* queue rows by enqueued_at
    pc,          \* AnalysisWorkstation.status
    session,     \* RemoteDesktopSession rows (of a closed one nothing is read again)
    cleans,      \* PCs that were sent a CLEAN command
    collecting,  \* PCs with a COLLECT of a session's output in flight
    booking,     \* of the reservation's booking: eligible, and how late it is
    task         \* what a worker remembers between its queries

vars == <<reservation, entry, order, pc, session, cleans, collecting, booking, task>>

IdleHold == {"QUEUED", "RESERVED", "AWAITING_CHECKIN"}
Started == {"RESERVED", "PREPARING", "READY", "ACTIVE"}
Holding == Started \union {"AWAITING_CHECKIN"}
Terminal == {"COMPLETED", "EXPIRED", "CANCELLED"}
Open == {"PREPARING", "READY", "ACTIVE"}
Sticky == {"RESERVED", "PREPARING", "BUSY", "CLEANING"}
PcStatuses == Sticky \union {"AVAILABLE", "OFFLINE", "ERROR"}

Idle == [op |-> "idle"]

Closed == [status |-> "CLOSED", reservation |-> NoReservation, pc |-> NoPc]

Init ==
    /\ reservation = [r \in Reservations |->
           [status |-> "NONE", pc |-> NoPc, timer |-> "off", missed |-> 0]]
    /\ entry = [r \in Reservations |-> "NONE"]
    /\ order = <<>>
    /\ pc = [w \in Pcs |-> "AVAILABLE"]
    /\ session = [s \in Sessions |-> [status |-> "NONE", reservation |-> NoReservation, pc |-> NoPc]]
    /\ cleans = {}
    /\ collecting = {}
    /\ booking = [r \in Reservations |-> [eligible |-> TRUE, time |-> "early"]]
    /\ task = [p \in Workers |-> Idle]

-----------------------------------------------------------------------------
(* The services, as operators that take the tables they change and return them. *)

Tables == [res |-> reservation, entry |-> entry, order |-> order, pc |-> pc]

Save(t) ==
    /\ reservation' = t.res
    /\ entry' = t.entry
    /\ order' = t.order
    /\ pc' = t.pc

Holders(t, w) == {r \in Reservations : t.res[r].pc = w /\ t.res[r].status \in Holding}

OpenSessions(r) == {s \in Sessions : session[s].reservation = r /\ session[s].status \in Open}

(* Mutant: only the status of the PC is looked at. *)
Best_ByStatus(t, r) ==
    LET free == {w \in Pcs : t.pc[w] = "AVAILABLE"}
    IN  IF free = {} THEN NoPc ELSE CHOOSE w \in free : TRUE

\* The best candidate: any fixed choice among the PCs that are free by status and calendar.
Best(t, r) ==
    LET free == {w \in Pcs : /\ t.pc[w] = "AVAILABLE"
                             /\ \A o \in Holders(t, w) \ {r} : booking[o].time = "over"}
    IN  IF free = {} THEN NoPc ELSE CHOOSE w \in free : TRUE

(* Mutant: an entry stays at its place. *)
Enqueue_InPlace(t, r, toBack) ==
    [t EXCEPT !.entry[r] = "WAITING", !.order = IF ~Contains(@, r) THEN Append(@, r) ELSE @]

(* Mutant: the row is found again and its status not updated. *)
Enqueue_StatusKept(t, r, toBack) ==
    [t EXCEPT !.entry[r] = IF ~Contains(t.order, r) THEN "WAITING" ELSE @,
              !.order = IF ~Contains(@, r) THEN Append(@, r) ELSE @]

\* The entry is WAITING; a new one, or one moved to the back, goes last.
Enqueue(t, r, toBack) ==
    [t EXCEPT !.entry[r] = "WAITING",
              !.order = IF ~Contains(@, r) THEN Append(@, r)
                        ELSE IF toBack THEN Append(Kept(@, Reservations \ {r}), r)
                        ELSE @]

(* Mutant: the row of an expired reservation goes on waiting. *)
Dequeue_NotExpired(t, r, st) ==
    [t EXCEPT !.entry[r] = IF @ = "NONE" \/ st = "EXPIRED" THEN @ ELSE st]

(* Mutant: the row gets the status of its reservation. *)
Dequeue_OwnStatus(t, r, st) ==
    [t EXCEPT !.entry[r] = IF @ = "NONE" THEN @ ELSE t.res[r].status]

\* The row of the queue, if there is one, gets the status st.
Dequeue(t, r, st) == [t EXCEPT !.entry[r] = IF @ = "NONE" THEN @ ELSE st]

\* Frees the PC w of r, taken as seen shows it, unless another reservation holds it.
FreePc(t, r, w, seen) ==
    IF w # NoPc /\ Holders(t, w) \subseteq {r} /\ seen[w] \in {"BUSY", "RESERVED", "PREPARING"}
    THEN [t EXCEPT !.pc[w] = "AVAILABLE"]
    ELSE t

\* An idle hold whose booking may no longer use remote analysis.
IneligibleHold(r, status) ==
    ~booking[r].eligible /\ status \in IdleHold \union {"NONE"} /\ OpenSessions(r) = {}

CancelHold(t, r, w, seen) ==
    FreePc(Dequeue([t EXCEPT !.res[r].status = "CANCELLED"], r, "CANCELLED"), r, w, seen)

(* Mutant: the check-in hold is opened without its deadline. *)
Allocate_NoTimer(t, r, w) ==
    IF IneligibleHold(r, t.res[r].status) THEN CancelHold(t, r, t.res[r].pc, t.pc)
    ELSE IF booking[r].time = "over"
         THEN Dequeue([t EXCEPT !.res[r].status = "EXPIRED"], r, "EXPIRED")
    ELSE IF w = NoPc THEN Enqueue([t EXCEPT !.res[r].status = "QUEUED"], r, FALSE)
    ELSE Dequeue([t EXCEPT !.res[r] = [@ EXCEPT !.status = "AWAITING_CHECKIN", !.pc = w],
                           !.pc[w] = "RESERVED"], r, "RESERVED")

\* SchedulerService.allocate with the candidate w (NoPc: none).
Allocate(t, r, w) ==
    IF IneligibleHold(r, t.res[r].status) THEN CancelHold(t, r, t.res[r].pc, t.pc)
    ELSE IF booking[r].time = "over"
         THEN Dequeue([t EXCEPT !.res[r].status = "EXPIRED"], r, "EXPIRED")
    ELSE IF w = NoPc THEN Enqueue([t EXCEPT !.res[r].status = "QUEUED"], r, FALSE)
    ELSE Dequeue([t EXCEPT !.res[r] = [@ EXCEPT !.status = "AWAITING_CHECKIN", !.pc = w,
                                                !.timer = "running"],
                           !.pc[w] = "RESERVED"], r, "RESERVED")

\* CheckinService._release: the hold ends, by the timer (missed) or by its user.
ReleaseHold(t, r, missed) ==
    LET w == t.res[r].pc
        n == t.res[r].missed + (IF missed THEN 1 ELSE 0)
        freed == [t EXCEPT !.pc = [v \in Pcs |-> IF v = w /\ @[v] = "RESERVED" THEN "AVAILABLE" ELSE @[v]],
                           !.res[r] = [status |-> "QUEUED", pc |-> NoPc, timer |-> "off", missed |-> n]]
    IN  IF missed /\ n >= MissedLimit THEN [freed EXCEPT !.res[r].status = "CANCELLED"]
        ELSE Enqueue(freed, r, TRUE)

\* One entry of process_queue, read under its lock.
Serve(t, r) ==
    IF t.entry[r] # "WAITING" THEN t
    ELSE IF t.res[r].status \in Terminal THEN Dequeue(t, r, "CANCELLED")
    ELSE Allocate(t, r, Best(t, r))

Waiting(t) == Kept(t.order, {r \in Reservations : t.entry[r] = "WAITING"})

\* process_queue inside another transaction: every entry that waits, in order.
ServeAll(t) ==
    LET list == Waiting(t)
        served[n \in 0..Len(list)] == IF n = 0 THEN t ELSE Serve(served[n - 1], list[n])
    IN  served[Len(list)]

\* The holds of the list q, whose timers have run out, one after another.
ReleaseAll(t, q) ==
    LET released[n \in 0..Len(q)] ==
            IF n = 0 THEN t ELSE ReleaseHold(released[n - 1], q[n], TRUE)
    IN  released[Len(q)]

\* The row of r is not locked by the queue job of another worker.
Unlocked(p, r) == \A q \in Workers \ {p} : ~(task[q].op = "serve" /\ task[q].r = r)

\* The rows that serving the whole queue locks.
InQueue == {r \in Reservations : entry[r] = "WAITING"}

Begins(p, op) == op \in Operations /\ task[p] = Idle

Becomes(p, t) == task' = [task EXCEPT ![p] = t]

\* An operation of one step needs a worker that is idle, and the rows rs, which it writes.
SomeWorker(op, rs) ==
    op \in Operations /\ \E p \in Workers : task[p] = Idle /\ \A r \in rs : Unlocked(p, r)

-----------------------------------------------------------------------------
(* Users. *)

RequestLoad(p, r) ==
    /\ Begins(p, "request")
    /\ reservation[r].status = "NONE" /\ booking[r].eligible
    /\ \A q \in Workers : ~(task[q].op = "request" /\ task[q].r = r)
    /\ Becomes(p, [op |-> "request", r |-> r, pc |-> Best(Tables, r)])
    /\ UNCHANGED <<reservation, entry, order, pc, session, cleans, collecting, booking>>

RequestCommit(p) ==
    /\ task[p].op = "request"
    /\ Save(Allocate(Tables, task[p].r, task[p].pc))
    /\ Becomes(p, Idle)
    /\ UNCHANGED <<session, cleans, collecting, booking>>

\* Checks in, or opens the desktop again: read the reservation and its open session.
LaunchLoad(p, r) ==
    /\ Begins(p, "launch")
    /\ booking[r].eligible
    /\ reservation[r].status \in Holding /\ reservation[r].pc # NoPc
    /\ ~(reservation[r].status = "AWAITING_CHECKIN" /\ reservation[r].timer = "due")
    /\ Becomes(p, [op |-> "launch", r |-> r, pc |-> reservation[r].pc,
                   checkin |-> reservation[r].status = "AWAITING_CHECKIN",
                   open |-> OpenSessions(r) # {}])
    /\ UNCHANGED <<reservation, entry, order, pc, session, cleans, collecting, booking>>

(* Mutant: the open session is looked up before the check-in locks the row. *)
Reuses_FirstLook(t) == t.open

\* The check-in writes RESERVED, which locks the row; the open session is looked up after it.
Reuses(t) == IF t.checkin THEN OpenSessions(t.r) # {} ELSE t.open

LaunchReuse(p) ==
    /\ task[p].op = "launch" /\ Unlocked(p, task[p].r) /\ Reuses(task[p])
    /\ reservation' = [reservation EXCEPT ![task[p].r].status =
                           IF task[p].checkin THEN "RESERVED" ELSE @]
    /\ Becomes(p, Idle)
    /\ UNCHANGED <<entry, order, pc, session, cleans, collecting, booking>>

LaunchCreate(p, s) ==
    /\ task[p].op = "launch" /\ Unlocked(p, task[p].r) /\ ~Reuses(task[p])
    /\ session[s].status = "NONE"
    /\ session' = [session EXCEPT ![s] = [status |-> "PREPARING", reservation |-> task[p].r,
                                          pc |-> task[p].pc]]
    /\ reservation' = [reservation EXCEPT ![task[p].r].status = "PREPARING"]
    /\ pc' = [pc EXCEPT ![task[p].pc] = "PREPARING"]
    /\ Becomes(p, Idle)
    /\ UNCHANGED <<entry, order, cleans, collecting, booking>>

\* The session is refused (agent silent, capacity): a check-in of this request is undone.
LaunchRefused(p) ==
    /\ task[p].op = "launch" /\ Unlocked(p, task[p].r) /\ ~Reuses(task[p])
    /\ reservation' = [reservation EXCEPT ![task[p].r].status =
                           IF task[p].checkin THEN "AWAITING_CHECKIN" ELSE @]
    /\ Becomes(p, Idle)
    /\ UNCHANGED <<entry, order, pc, session, cleans, collecting, booking>>

ReleaseByUser(r) ==
    /\ SomeWorker("release", {r})
    /\ reservation[r].status = "AWAITING_CHECKIN"
    /\ Save(ReleaseHold(Tables, r, FALSE))
    /\ UNCHANGED <<session, cleans, collecting, booking, task>>

\* The browser connects with its launch token.
Connect(s) ==
    /\ SomeWorker("launch", {session[s].reservation})
    /\ session[s].status = "READY"
    /\ session' = [session EXCEPT ![s].status = "ACTIVE"]
    /\ reservation' = [reservation EXCEPT ![session[s].reservation].status =
                           IF @ \in {"RESERVED", "PREPARING", "READY"} THEN "ACTIVE" ELSE @]
    /\ pc' = [pc EXCEPT ![session[s].pc] = "BUSY"]
    /\ UNCHANGED <<entry, order, cleans, collecting, booking, task>>

-----------------------------------------------------------------------------
(* How a session ends. *)

\* SessionCleanupService.cleanup: the PC, whoever holds it, is CLEANING while output is collected, else free.
Cleanup(s, final, collect) ==
    LET w == session[s].pc IN
    /\ session' = [session EXCEPT ![s] = Closed]
    /\ collecting' = IF collect THEN collecting \union {w} ELSE collecting
    /\ cleans' = cleans \union {w}
    /\ booking' = [booking EXCEPT ![session[s].reservation].eligible =
                       @ /\ ~(final = "ENDED" /\ session[s].status = "ACTIVE")]

Released(t, s, final, collect) ==
    [t EXCEPT !.pc[session[s].pc] = IF collect THEN "CLEANING" ELSE "AVAILABLE",
              !.res[session[s].reservation].status =
                  IF final = "ENDED" /\ @ \in Started THEN "COMPLETED" ELSE @]

\* Idle, expired or terminated by staff.
EndSession(s, collect) ==
    /\ SomeWorker("end", {session[s].reservation})
    /\ session[s].status \in Open
    /\ Cleanup(s, "ENDED", collect)
    /\ Save(Released(Tables, s, "ENDED", collect))
    /\ UNCHANGED task

\* Preparation failed or timed out: the reservation keeps its PC for another try.
FailSession(s, collect) ==
    /\ SomeWorker("fail", {})
    /\ session[s].status \in {"PREPARING", "READY"}
    /\ Cleanup(s, "FAILED", collect)
    /\ Save(Released(Tables, s, "FAILED", collect))
    /\ UNCHANGED task

\* Without a session, a PC that is still BUSY is freed whoever holds it.
NotBusy(t, w) ==
    [t EXCEPT !.pc = [v \in Pcs |-> IF v = w /\ @[v] = "BUSY" THEN "AVAILABLE" ELSE @[v]]]

\* The user ends the analysis; the queue is served at once.
EndAnalysis(r, collect) ==
    /\ SomeWorker("end", {r} \union InQueue)
    /\ \/ \E s \in OpenSessions(r) :
            /\ Cleanup(s, "ENDED", collect)
            /\ Save(ServeAll(Released(Tables, s, "ENDED", collect)))
       \/ /\ OpenSessions(r) = {} /\ reservation[r].status \in Holding \union {"QUEUED"}
          /\ Save(ServeAll(NotBusy(FreePc([Tables EXCEPT !.res[r].status = "COMPLETED"],
                                          r, reservation[r].pc, pc), reservation[r].pc)))
          /\ UNCHANGED <<session, cleans, collecting, booking>>
    /\ UNCHANGED task

\* A manager cancels the reservation; neither the PC nor an open session is touched.
CancelByManager(r) ==
    /\ SomeWorker("cancel", {r})
    /\ reservation[r].status \notin Terminal \union {"NONE"}
    /\ Save(Dequeue([Tables EXCEPT !.res[r].status = "CANCELLED"], r, "CANCELLED"))
    /\ UNCHANGED <<session, cleans, collecting, booking, task>>

-----------------------------------------------------------------------------
(* Celery jobs. *)

QueueLoad(p) ==
    /\ Begins(p, "queue")
    /\ Waiting(Tables) # <<>>
    /\ Becomes(p, [op |-> "queue", list |-> Waiting(Tables)])
    /\ UNCHANGED <<reservation, entry, order, pc, session, cleans, collecting, booking>>

\* Locks the next entry of the list and its reservation and picks a PC.
QueuePick(p) ==
    LET r == Head(task[p].list) IN
    /\ task[p].op = "queue"
    /\ Unlocked(p, r)
    /\ IF entry[r] = "WAITING"
       THEN Becomes(p, [op |-> "serve", r |-> r, pc |-> Best(Tables, r), list |-> Tail(task[p].list)])
       ELSE Becomes(p, IF Len(task[p].list) = 1 THEN Idle
                       ELSE [op |-> "queue", list |-> Tail(task[p].list)])
    /\ UNCHANGED <<reservation, entry, order, pc, session, cleans, collecting, booking>>

QueueCommit(p) ==
    LET r == task[p].r IN
    /\ task[p].op = "serve"
    /\ Save(IF reservation[r].status \in Terminal THEN Dequeue(Tables, r, "CANCELLED")
            ELSE Allocate(Tables, r, task[p].pc))
    /\ Becomes(p, IF task[p].list = <<>> THEN Idle ELSE [op |-> "queue", list |-> task[p].list])
    /\ UNCHANGED <<session, cleans, collecting, booking>>

\* expire_due: which check-in timers have run out, then, by key, the release of each and the queue.
DueLoad(p) ==
    /\ Begins(p, "due")
    /\ \E r \in Reservations : reservation[r].status = "AWAITING_CHECKIN" /\ reservation[r].timer = "due"
    /\ Becomes(p, [op |-> "due", rs |-> {r \in Reservations :
                       reservation[r].status = "AWAITING_CHECKIN" /\ reservation[r].timer = "due"}])
    /\ UNCHANGED <<reservation, entry, order, pc, session, cleans, collecting, booking>>

DueCommit(p) ==
    /\ task[p].op = "due"
    /\ \A r \in task[p].rs \union InQueue : Unlocked(p, r)
    /\ \E q \in SetToSeqs(task[p].rs) : Save(ServeAll(ReleaseAll(Tables, q)))
    /\ Becomes(p, Idle)
    /\ UNCHANGED <<session, cleans, collecting, booking>>

\* No fresh heartbeat of the agent: the PC shows OFFLINE, or ("silent") it shows ERROR or the
\* agent's token cannot be used any more.
Silent(w) == w # NoPc /\ (pc[w] = "OFFLINE" \/ "silent" \in Operations)

(* Mutant: the start of a reservation is missed as soon as its window begins. *)
Stale_NoGrace(r, why) ==
    LET st == reservation[r].status IN
    \/ why = "ineligible" /\ st # "NONE" /\ IneligibleHold(r, st)
    \/ why = "missed" /\ st \in Started \ {"ACTIVE"}
    \/ why = "queued" /\ st = "QUEUED" /\ booking[r].time # "early"
    \/ why = "offline" /\ st \in Holding /\ Silent(reservation[r].pc)
    \/ why = "ended" /\ st \in Started /\ booking[r].time = "over"

(* Mutant: a preparation that never ends is in no list. *)
Stale_NotPreparing(r, why) ==
    LET st == reservation[r].status IN
    \/ why = "ineligible" /\ st # "NONE" /\ IneligibleHold(r, st)
    \/ why = "missed" /\ st = "RESERVED" /\ booking[r].time # "early"
    \/ why = "queued" /\ st = "QUEUED" /\ booking[r].time # "early"
    \/ why = "ended" /\ st \in {"RESERVED", "ACTIVE"} /\ booking[r].time = "over"

\* expire_stale: the lists it makes, and what becomes of a reservation in each.
Stale(r, why) ==
    LET st == reservation[r].status IN
    \/ why = "ineligible" /\ st # "NONE" /\ IneligibleHold(r, st)
    \/ why = "missed" /\ st \in Started \ {"ACTIVE"} /\ booking[r].time # "early"
    \/ why = "queued" /\ st = "QUEUED" /\ booking[r].time # "early"
    \/ why = "offline" /\ st \in Holding /\ Silent(reservation[r].pc)
    \/ why = "ended" /\ st \in Started /\ booking[r].time = "over"

SweepLoad(p, r, why) ==
    /\ Begins(p, "sweep")
    /\ Stale(r, why)
    /\ Becomes(p, [op |-> "sweep", r |-> r, why |-> why, pc |-> reservation[r].pc, seen |-> pc])
    /\ UNCHANGED <<reservation, entry, order, pc, session, cleans, collecting, booking>>

\* Written from the copy that was listed, whatever the row says by now.  The lists of
\* ineligible and offline reservations were read with their PCs.
SweepCommit(p) ==
    LET r == task[p].r
        w == task[p].pc
        seen == IF task[p].why \in {"ineligible", "offline"} THEN task[p].seen ELSE pc
        closed(st) == [Tables EXCEPT !.res[r].status = st]
    IN
    /\ task[p].op = "sweep" /\ Unlocked(p, r)
    /\ Save(CASE task[p].why = "ineligible" ->
                   IF OpenSessions(r) = {} THEN CancelHold(Tables, r, w, seen) ELSE Tables
              [] task[p].why = "queued" -> Dequeue(closed("EXPIRED"), r, "EXPIRED")
              [] task[p].why \in {"missed", "offline"} ->
                   FreePc(Dequeue(closed("EXPIRED"), r, "EXPIRED"), r, w, seen)
              [] task[p].why = "ended" -> FreePc(closed("COMPLETED"), r, w, seen))
    /\ Becomes(p, Idle)
    /\ UNCHANGED <<session, cleans, collecting, booking>>

\* A PC without heartbeats and without holds is marked offline.
OfflineLoad(p, w) ==
    /\ Begins(p, "offline")
    /\ pc[w] # "OFFLINE" /\ Holders(Tables, w) = {}
    /\ Becomes(p, [op |-> "status", pc |-> w, to |-> "OFFLINE"])
    /\ UNCHANGED <<reservation, entry, order, pc, session, cleans, collecting, booking>>

-----------------------------------------------------------------------------
(* The agent on the PC. *)

HasHold(w) ==
    \/ w \in collecting
    \/ Holders(Tables, w) # {}
    \/ \E s \in Sessions : session[s].pc = w /\ session[s].status \in Open

\* A cleanup that failed keeps the PC from being given away.
Blocked(st, failed) == IF failed /\ st \notin Sticky THEN "ERROR" ELSE st

(* Mutant: a sticky status is kept whether anybody holds the PC or not. *)
AfterBeat_Ghost(w, reported, failed) ==
    Blocked(CASE pc[w] \in Sticky -> pc[w]
              [] pc[w] \notin Sticky ->
                   IF reported \in Sticky /\ HasHold(w) THEN reported ELSE "AVAILABLE", failed)

\* What a heartbeat makes of the portal's status, whether the agent reports itself idle or
\* not, and its last cleanup failed or not.
AfterBeat(w, reported, failed) ==
    Blocked(CASE pc[w] \in Sticky -> IF HasHold(w) THEN pc[w] ELSE "AVAILABLE"
              [] pc[w] \notin Sticky ->
                   IF reported \in Sticky /\ HasHold(w) THEN reported ELSE "AVAILABLE", failed)

\* The status is saved whether it changed or not.
HeartbeatLoad(p, w, reported, failed) ==
    /\ Begins(p, "heartbeat")
    /\ Becomes(p, [op |-> "status", pc |-> w, to |-> AfterBeat(w, reported, failed)])
    /\ UNCHANGED <<reservation, entry, order, pc, session, cleans, collecting, booking>>

StatusCommit(p) ==
    /\ task[p].op = "status"
    /\ pc' = [pc EXCEPT ![task[p].pc] = task[p].to]
    /\ Becomes(p, Idle)
    /\ UNCHANGED <<reservation, entry, order, session, cleans, collecting, booking>>

\* PREPARE done, or nothing to download: the session can be launched.
Advance(s) ==
    /\ SomeWorker("launch", {session[s].reservation})
    /\ session[s].status = "PREPARING"
    /\ session' = [session EXCEPT ![s].status = "READY"]
    /\ reservation' = [reservation EXCEPT ![session[s].reservation].status =
                           IF @ = "PREPARING" THEN "READY" ELSE @]
    /\ UNCHANGED <<entry, order, pc, cleans, collecting, booking, task>>

\* The agent acknowledges a CLEAN, perhaps once more, which frees the PC, whoever holds it by now.
Acknowledge(w) ==
    /\ SomeWorker("ack", {})
    /\ w \in cleans
    /\ pc' = [pc EXCEPT ![w] = IF @ \in Sticky
                               THEN IF w \in collecting THEN "CLEANING" ELSE "AVAILABLE"
                               ELSE @]
    /\ UNCHANGED <<reservation, entry, order, session, cleans, collecting, booking, task>>

Outcomes == {"uploaded", "failed", "lost"}

\* The output has been uploaded, which sends another CLEAN, or could not be collected, or
\* nothing has been heard of it for two hours.
CollectEnds(w, outcome) ==
    /\ SomeWorker("end", {})
    /\ w \in collecting
    /\ collecting' = collecting \ {w}
    /\ cleans' = IF outcome = "uploaded" THEN cleans \union {w} ELSE cleans
    /\ pc' = [pc EXCEPT ![w] =
                  IF outcome # "lost" /\ @ = "CLEANING" /\ Holders(Tables, w) = {}
                     /\ \A s \in Sessions : ~(session[s].pc = w /\ session[s].status \in Open)
                  THEN "AVAILABLE" ELSE @]
    /\ UNCHANGED <<reservation, entry, order, session, booking, task>>

-----------------------------------------------------------------------------
(* Time. *)

TimerExpires(r) ==
    /\ reservation[r].timer = "running" /\ reservation[r].status = "AWAITING_CHECKIN"
    /\ reservation' = [reservation EXCEPT ![r].timer = "due"]
    /\ UNCHANGED <<entry, order, pc, session, cleans, collecting, booking, task>>

\* The start is missed by more than the grace period; then the reserved window is over.
TimePasses(r) ==
    /\ "clock" \in Operations
    /\ reservation[r].status # "NONE" /\ booking[r].time # "over"
    /\ booking' = [booking EXCEPT ![r].time = IF @ = "early" THEN "late" ELSE "over"]
    /\ UNCHANGED <<reservation, entry, order, pc, session, cleans, collecting, task>>

\* The booking is refunded or cancelled, or its access to the analysis ends.
LosesEligibility(r) ==
    /\ "lose" \in Operations
    /\ booking[r].eligible
    /\ booking' = [booking EXCEPT ![r].eligible = FALSE]
    /\ UNCHANGED <<reservation, entry, order, pc, session, cleans, collecting, task>>

-----------------------------------------------------------------------------
Reasons == {"ineligible", "missed", "queued", "offline", "ended"}

Commits(p) ==
    \/ RequestCommit(p)
    \/ LaunchReuse(p) \/ LaunchRefused(p) \/ \E s \in Sessions : LaunchCreate(p, s)
    \/ QueuePick(p) \/ QueueCommit(p)
    \/ DueCommit(p)
    \/ SweepCommit(p)
    \/ StatusCommit(p)

Loads(p) ==
    \/ \E r \in Reservations : RequestLoad(p, r) \/ LaunchLoad(p, r)
    \/ QueueLoad(p)
    \/ DueLoad(p)
    \/ \E r \in Reservations, why \in Reasons : SweepLoad(p, r, why)
    \/ \E w \in Pcs : OfflineLoad(p, w)
    \/ \E w \in Pcs, reported \in {"AVAILABLE", "BUSY"}, failed \in BOOLEAN :
          HeartbeatLoad(p, w, reported, failed)

Next ==
    \/ \E p \in Workers : Loads(p) \/ Commits(p)
    \/ \E r \in Reservations : ReleaseByUser(r) \/ CancelByManager(r)
    \/ \E r \in Reservations, c \in BOOLEAN : EndAnalysis(r, c)
    \/ \E s \in Sessions : Advance(s) \/ Connect(s)
    \/ \E s \in Sessions, c \in BOOLEAN : EndSession(s, c) \/ FailSession(s, c)
    \/ \E w \in Pcs : Acknowledge(w)
    \/ \E w \in Pcs, outcome \in Outcomes : CollectEnds(w, outcome)
    \/ \E r \in Reservations : TimerExpires(r) \/ TimePasses(r) \/ LosesEligibility(r)

Spec == Init /\ [][Next]_vars

\* The jobs run again and again and what a worker began ends; time passes.  Nothing is
\* assumed of users and managers; of the agent, that heartbeats arrive again and again which
\* report no failed cleanup.
FairSpec ==
    /\ Spec
    /\ \A p \in Workers : WF_vars(Commits(p))
    /\ SF_vars(\E p \in Workers : DueLoad(p))
    /\ SF_vars(\E p \in Workers : QueueLoad(p))
    /\ \A r \in Reservations, why \in Reasons \ {"offline"} :
           SF_vars(\E p \in Workers : SweepLoad(p, r, why))
    /\ \A w \in Pcs : SF_vars(\E p \in Workers, reported \in {"AVAILABLE", "BUSY"} :
                                  HeartbeatLoad(p, w, reported, FALSE))
    /\ \A w \in Pcs : WF_vars(\E outcome \in Outcomes : CollectEnds(w, outcome))
    /\ \A s \in Sessions : SF_vars(\E c \in BOOLEAN : EndSession(s, c))
    /\ \A r \in Reservations : WF_vars(TimerExpires(r)) /\ WF_vars(TimePasses(r))

-----------------------------------------------------------------------------
(* Properties. *)

Tasks ==
    {Idle}
    \union [op : {"request"}, r : Reservations, pc : Pcs \union {NoPc}]
    \union [op : {"launch"}, r : Reservations, pc : Pcs, checkin : BOOLEAN, open : BOOLEAN]
    \union [op : {"queue"}, list : Seq(Reservations)]
    \union [op : {"serve"}, r : Reservations, pc : Pcs \union {NoPc}, list : Seq(Reservations)]
    \union [op : {"due"}, rs : SUBSET Reservations]
    \union [op : {"sweep"}, r : Reservations, why : Reasons, pc : Pcs \union {NoPc},
            seen : [Pcs -> PcStatuses]]
    \union [op : {"status"}, pc : Pcs, to : PcStatuses]

\* Every variable has its type.
TypeOK ==
    /\ reservation \in [Reservations ->
           [status : Holding \union Terminal \union {"NONE", "QUEUED"}, pc : Pcs \union {NoPc},
            timer : {"off", "running", "due"}, missed : Nat]]
    /\ entry \in [Reservations -> {"NONE", "WAITING", "RESERVED", "EXPIRED", "CANCELLED"}]
    /\ order \in Seq(Reservations)
    /\ pc \in [Pcs -> PcStatuses]
    /\ session \in [Sessions -> [status : Open \union {"NONE", "CLOSED"},
                                 reservation : Reservations \union {NoReservation},
                                 pc : Pcs \union {NoPc}]]
    /\ cleans \subseteq Pcs /\ collecting \subseteq Pcs
    /\ booking \in [Reservations -> [eligible : BOOLEAN, time : {"early", "late", "over"}]]
    /\ task \in [Workers -> Tasks]

\* A PC is held by one reservation at a time, save one whose window is over and not swept yet:
\* allocate checks status and calendar, although late acknowledgements, heartbeats and failed
\* sessions make a held PC look AVAILABLE.
OneHoldPerPc ==
    \A w \in Pcs : \A r1, r2 \in Holders(Tables, w) :
        r1 = r2 \/ booking[r1].time = "over" \/ booking[r2].time = "over"

\* A PC with an open desktop is not held by the reservation of somebody else (save one whose
\* window is over and not swept yet) until the start of its own window is missed: no lost
\* eligibility, failed preparation, late acknowledgement, heartbeat or sweep gives it away.
DesktopNotShared ==
    \A s \in Sessions :
        session[s].status \in Open /\ booking[session[s].reservation].time = "early" =>
            \A r \in Holders(Tables, session[s].pc) :
                r = session[s].reservation \/ booking[r].time = "over"

\* A reservation waits in the queue exactly while it is QUEUED: no release, refusal or
\* expiry leaves a request that nobody will serve or an entry that takes a PC twice.
QueueAgrees ==
    \A r \in Reservations : reservation[r].status = "QUEUED" <=> entry[r] = "WAITING"

\* A QUEUED reservation is never lost by the queue, whatever overlaps.
QueuedWaits ==
    \A r \in Reservations : reservation[r].status = "QUEUED" => entry[r] = "WAITING"

\* Who misses the check-in yields to everybody who waits: neither gets a PC again in the same
\* job, nor stays ahead of those the job could not serve.
MissedYields ==
    [][\A r, o \in Reservations :
          /\ reservation'[r].missed > reservation[r].missed
          /\ o # r /\ entry[o] = "WAITING" /\ entry'[o] = "WAITING"
          => /\ reservation'[r].status \notin Holding
             /\ entry'[r] = "WAITING" =>
                   \E i, j \in DOMAIN order' : i < j /\ order'[i] = o /\ order'[j] = r]_vars

\* One open desktop per reservation, however many launches overlap.
OneDesktop == \A r \in Reservations : Cardinality(OpenSessions(r)) <= 1

\* A PC that nobody holds any more can be given away again, though cancellations and
\* releases leave it RESERVED, BUSY or CLEANING: a heartbeat repairs it.
PcReturns == \A w \in Pcs : []<>(pc[w] = "AVAILABLE" \/ HasHold(w))

\* Every reservation is closed in the end, at the latest when its window is over.
EveryReservationEnds ==
    \A r \in Reservations :
        reservation[r].status # "NONE" ~> reservation[r].status \in Terminal

\* A check-in hold ends.
CheckinEnds ==
    \A r \in Reservations : reservation[r].status = "AWAITING_CHECKIN"
                            ~> reservation[r].status # "AWAITING_CHECKIN"

=============================================================================
