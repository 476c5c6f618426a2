------------------------------- MODULE Touch -------------------------------
(***************************************************************************)
(* Touch sequences: points that go down, move and go up, by numbers the    *)
(* compositor uses again, until all are up or the compositor cancels them. *)
(* The compositor is external.                                             *)
(***************************************************************************)
EXTENDS Naturals, Sequences, Subsequences

CONSTANTS
    Ids,       \* Numbers of points.
    MaxPoints, \* Bound: how many points go down.
    MaxEvents  \* Bound: how many events are on their way.

VARIABLES
    down,      \* The compositor's points: the serial of each number that is down.
    serial,    \* The last serial; each point has its own.
    events,    \* The events on their way.
    sequence,  \* Touch::sequence().
    active,    \* Whether a sequence is going on.
    deleted,   \* The serials of the points that were deleted.
    signal     \* The signal of the last step: its name and its point, by serial.

vars == <<down, serial, events, sequence, active, deleted, signal>>

Points == [id : Ids, serial : 1 .. MaxPoints, down : BOOLEAN]
Silence == [name |-> "none", point |-> 0]

TypeOK ==
    /\ DOMAIN down \subseteq Ids
    /\ serial \in 0 .. MaxPoints
    /\ \A i \in DOMAIN events : events[i].kind \in {"down", "up", "motion", "cancel", "frame"}
    /\ sequence \in Seq(Points)
    /\ active \in BOOLEAN
    /\ deleted \subseteq 1 .. MaxPoints
    /\ signal \in [name : {"none", "sequenceStarted", "pointAdded", "pointMoved",
                           "pointRemoved", "sequenceEnded", "sequenceCanceled"},
                   point : 0 .. MaxPoints]

Init ==
    /\ down = <<>>
    /\ serial = 0
    /\ events = <<>>
    /\ sequence = <<>>
    /\ active = FALSE
    /\ deleted = {}
    /\ signal = Silence

-----------------------------------------------------------------------------
\* The compositor.
Send(event) ==
    /\ Len(events) < MaxEvents
    /\ events' = Append(events, event)
    /\ signal' = Silence
    /\ UNCHANGED <<sequence, active, deleted>>

Press ==
    /\ serial < MaxPoints
    /\ \E id \in Ids \ DOMAIN down :
           /\ down' = [i \in DOMAIN down \cup {id} |-> IF i = id THEN serial + 1 ELSE down[i]]
           /\ Send([kind |-> "down", id |-> id, serial |-> serial + 1])
    /\ serial' = serial + 1

Lift ==
    \E id \in DOMAIN down :
        /\ down' = [i \in DOMAIN down \ {id} |-> down[i]]
        /\ Send([kind |-> "up", id |-> id])
        /\ UNCHANGED serial

Move ==
    \E id \in DOMAIN down :
        /\ Send([kind |-> "motion", id |-> id])
        /\ UNCHANGED <<down, serial>>

Cancel ==
    /\ down # <<>>
    /\ down' = <<>>
    /\ Send([kind |-> "cancel"])
    /\ UNCHANGED serial

-----------------------------------------------------------------------------
Takes(kind) ==
    /\ events # <<>>
    /\ Head(events).kind = kind
    /\ events' = Tail(events)
    /\ UNCHANGED <<down, serial>>

\* getActivePoint(): its place in the sequence, 0 when there is none.
getActivePoint(id) == First({i \in DOMAIN sequence : sequence[i].id = id /\ sequence[i].down})

\* down(): it begins a new sequence, and deletes the points of the last, or is added.
downCallback ==
    /\ Takes("down")
    /\ LET e == Head(events)
           p == [id |-> e.id, serial |-> e.serial, down |-> TRUE]
       IN  IF active
           THEN /\ sequence' = Append(sequence, p)
                /\ signal' = [name |-> "pointAdded", point |-> e.serial]
                /\ UNCHANGED <<active, deleted>>
           ELSE /\ deleted' = deleted \cup {sequence[i].serial : i \in DOMAIN sequence}
                /\ sequence' = <<p>>
                /\ active' = TRUE
                /\ signal' = [name |-> "sequenceStarted", point |-> e.serial]

\* up(): the last point that goes up ends the sequence (sequenceEnded follows
\* pointRemoved; the later one is kept).
upCallback ==
    /\ Takes("up")
    /\ LET i == getActivePoint(Head(events).id)
       IN  IF i = 0 THEN signal' = Silence /\ UNCHANGED <<sequence, active>>
           ELSE /\ sequence' = [sequence EXCEPT ![i].down = FALSE]
                /\ active' = \E j \in DOMAIN sequence' : sequence'[j].down
                /\ signal' = [name |-> IF active' THEN "pointRemoved" ELSE "sequenceEnded",
                              point |-> sequence[i].serial]
    /\ UNCHANGED deleted

\* motion(): the position it adds to the point is left out.
motionCallback ==
    /\ Takes("motion")
    /\ LET i == getActivePoint(Head(events).id)
       IN  signal' = IF i = 0 THEN Silence
                     ELSE [name |-> "pointMoved", point |-> sequence[i].serial]
    /\ UNCHANGED <<sequence, active, deleted>>

\* cancelCallback: the points are left as they are.
cancelCallback ==
    /\ Takes("cancel")
    /\ active' = FALSE
    /\ signal' = [name |-> "sequenceCanceled", point |-> 0]
    /\ UNCHANGED <<sequence, deleted>>

Next ==
    \/ Press
    \/ Lift
    \/ Move
    \/ Cancel
    \/ downCallback
    \/ upCallback
    \/ motionCallback
    \/ cancelCallback

Spec == Init /\ [][Next]_vars

-----------------------------------------------------------------------------
\* With no event on its way the points of the sequence that are down are the
\* compositor's: none is left of a cancelled sequence, and a number that is used again
\* is not taken for the earlier point (Touch::Private::down, up, cancelCallback).
TouchFollows ==
    /\ events = <<>> =>
           {<<sequence[i].id, sequence[i].serial>> :
                i \in {j \in DOMAIN sequence : active /\ sequence[j].down}}
             = {<<id, down[id]>> : id \in DOMAIN down}
    /\ signal.point \notin deleted

=============================================================================
