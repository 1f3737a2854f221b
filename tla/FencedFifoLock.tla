---------------------------- MODULE FencedFifoLock ----------------------------
(***************************************************************************)
(* What the GPU lease coordinator promises to the tracking workflows,      *)
(* without deadlines, clocks, alarms or replies: one holder at a time,     *)
(* served in ticket order, every grant under a larger fence than all       *)
(* grants before it, and no service for a segment that is gone.            *)
(*                                                                         *)
(* One coordinator transaction first expires what is overdue and then      *)
(* performs its operation, so one step of the promise may return the old   *)
(* holder to the queue, drop several entries and choose a new holder.      *)
(***************************************************************************)
EXTENDS Integers

CONSTANTS
    Segments,     \* the tracking segments that compete for the GPU
    None          \* not a segment

VARIABLES
    queue,        \* the waiting entries: a set of [segmentId, ticket]
    holder,       \* the entry being served, or NoEntry
    fence,        \* the fence of the newest grant
    tickets,      \* how many tickets have been handed out
    gone          \* the segments that will never be served again

lockVars == <<queue, holder, fence, tickets, gone>>

Entry   == [segmentId : Segments, ticket : Nat \ {0}]
NoEntry == [segmentId |-> None, ticket |-> 0]

(* Everybody who still has a place: those who wait and the one served.     *)
Present == queue \cup ({holder} \ {NoEntry})

LockTypeOK ==
    /\ queue \subseteq Entry
    /\ holder \in Entry \cup {NoEntry}
    /\ fence \in Nat
    /\ tickets \in Nat
    /\ gone \subseteq Segments

LockInit ==
    /\ queue = {}
    /\ holder = NoEntry
    /\ fence = 0
    /\ tickets = 0
    /\ gone = {}

(* At most one newcomer joins, behind everybody; nobody else's ticket      *)
(* changes, whether they wait, are served or are returned to the queue.    *)
KeepPlaces ==
    \/ /\ tickets' = tickets
       /\ Present' \subseteq Present
    \/ /\ tickets' = tickets + 1
       /\ \E s \in Segments :
             Present' \ Present = {[segmentId |-> s, ticket |-> tickets']}

(* The holder stays, leaves, or is replaced by the first in line under a   *)
(* new fence. Nothing else moves the fence, and nobody is preempted: a     *)
(* holder that is replaced has its place again or is gone.                 *)
Serve ==
    \/ holder' \in {holder, NoEntry} /\ fence' = fence
    \/ /\ holder' # NoEntry
       /\ fence' = fence + 1
       /\ holder = NoEntry \/ holder \in Present' \/ holder.segmentId \in gone'
       /\ \A e \in queue' : e.ticket > holder'.ticket

(* A segment that is gone stays gone and has no place.                     *)
Retire ==
    /\ gone \subseteq gone'
    /\ \A e \in Present' : e.segmentId \notin gone'

LockNext == KeepPlaces /\ Serve /\ Retire

LockSpec == LockInit /\ [][LockNext]_lockVars
=============================================================================
