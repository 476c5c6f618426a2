-------------------------- MODULE OutputExtensions --------------------------
(***************************************************************************)
(* XdgOutput and Dpms: attributes of an output that come in batches, one   *)
(* event for each attribute and then done, which makes the pending values  *)
(* current. The two classes differ in how: XdgOutput swaps them, Dpms      *)
(* takes over what the batch had. The compositor is external; which        *)
(* attributes a batch has is its choice.                                   *)
(***************************************************************************)
EXTENDS Naturals, Sequences, FiniteSets, Subsequences

CONSTANTS
    Values,     \* Values of an attribute of an XdgOutput.
    MaxBatches  \* Bound: how many batches are sent.

Unset == "unset"      \* A default-constructed value.
Geometry == {"logicalPosition", "logicalSize"}
Names == {"name", "description"}
Modes == {"On", "Standby", "Suspend", "Off"}
Future == "future"    \* A mode of a later version of the protocol.
Attributes == [XdgOutput |-> Geometry \cup Names, Dpms |-> {"supported", "mode"}]

VARIABLES
    class,     \* XdgOutput or Dpms.
    server,    \* The compositor's attributes.
    batches,   \* The batches it sent: which attributes each had.
    events,    \* The events on their way.
    current,   \* What the object says.
    pending,   \* The pending values.
    arrived    \* supportedChanged, modeChanged: what the batch had so far.

vars == <<class, server, batches, events, current, pending, arrived>>

\* What an attribute of a class may be.
ValuesOf(c, a) ==
    CASE c = "XdgOutput" -> Values
      [] a = "supported" -> {"yes", "no"}
      [] a = "mode" -> Modes \cup {Future}
Settings(c) == {s \in [Attributes[c] -> UNION {ValuesOf(c, a) : a \in Attributes[c]}] :
                    \A a \in Attributes[c] : s[a] \in ValuesOf(c, a)}

\* The values of a new object; those of a Dpms are also the pending ones done leaves.
Default(c) ==
    IF c = "XdgOutput" THEN [a \in Attributes[c] |-> Unset]
    ELSE [supported |-> "no", mode |-> "On"]

TypeOK ==
    /\ class \in DOMAIN Attributes
    /\ DOMAIN server = Attributes[class]
    /\ batches \in Seq(SUBSET Attributes[class]) /\ Len(batches) <= MaxBatches
    /\ DOMAIN current = Attributes[class]
    /\ DOMAIN pending = Attributes[class]
    /\ \A a \in Attributes[class] :
           {current[a], pending[a]} \subseteq
               (ValuesOf(class, a) \ {Future}) \cup {Default(class)[a]}
    /\ arrived \subseteq Attributes[class]
    /\ class = "XdgOutput" => arrived = {}

Init ==
    /\ class \in DOMAIN Attributes
    /\ server = Default(class)
    /\ batches = <<>>
    /\ events = <<>>
    /\ current = Default(class)
    /\ pending = Default(class)
    /\ arrived = {}

-----------------------------------------------------------------------------
\* The attributes a batch may have: all of them the first time, later what has changed
\* and, as the compositor likes, others that have not.
Batches(changed) ==
    IF batches = <<>> THEN {Attributes[class]}
    ELSE {b \in SUBSET Attributes[class] : changed \subseteq b}

\* The compositor sends a batch. Its events are handled one by one, their order is of
\* no matter to the handlers.
Change ==
    /\ Len(batches) < MaxBatches
    /\ \E s \in Settings(class) :
           /\ batches # <<>> /\ class = "XdgOutput" => \A a \in Names : s[a] = server[a]
           /\ server' = s
           /\ \E b \in Batches({a \in Attributes[class] : s[a] # server[a]}) :
                  LET named == Listing(b)
                      event(a) == [of |-> a, value |-> s[a]]
                  IN  /\ batches' = Append(batches, b)
                      /\ events' = events \o [i \in DOMAIN named |-> event(named[i])]
                                          \o <<[of |-> "done"]>>
    /\ UNCHANGED <<class, current, pending, arrived>>

Takes == events # <<>> /\ events' = Tail(events)
               /\ UNCHANGED <<class, server, batches>>

\* The callbacks of the attributes of an XdgOutput: logical_positionCallback and so on.
attributeCallback ==
    /\ class = "XdgOutput"
    /\ Takes
    /\ Head(events).of # "done"
    /\ pending' = [pending EXCEPT ![Head(events).of] = Head(events).value]
    /\ UNCHANGED <<current, arrived>>

\* XdgOutput::Private::doneCallback: std::swap.
doneCallback ==
    /\ class = "XdgOutput"
    /\ Takes
    /\ Head(events).of = "done"
    /\ current' = pending
    /\ pending' = current
    /\ UNCHANGED arrived

\* supportedCallback and modeCallback of Dpms; a mode that is not known is no event.
dpmsCallback ==
    /\ class = "Dpms"
    /\ Takes
    /\ Head(events).of # "done"
    /\ IF Head(events).value = Future THEN UNCHANGED <<pending, arrived>>
       ELSE /\ pending' = [pending EXCEPT ![Head(events).of] = Head(events).value]
            /\ arrived' = arrived \cup {Head(events).of}
    /\ UNCHANGED current

\* Mutant: done takes what the batch had not as well.
dpmsDoneTakingAll ==
    /\ class = "Dpms"
    /\ Takes
    /\ Head(events).of = "done"
    /\ current' = pending
    /\ pending' = Default(class)
    /\ arrived' = {}

\* Dpms::Private::doneCallback.
dpmsDoneCallback ==
    /\ class = "Dpms"
    /\ Takes
    /\ Head(events).of = "done"
    /\ current' = [a \in Attributes[class] |-> IF a \in arrived THEN pending[a] ELSE current[a]]
    /\ pending' = Default(class)
    /\ arrived' = {}

Next ==
    \/ Change
    \/ attributeCallback
    \/ doneCallback
    \/ dpmsCallback
    \/ dpmsDoneCallback

Spec == Init /\ [][Next]_vars

-----------------------------------------------------------------------------
\* Once a batch has arrived the object says what the compositor says: a Dpms in every
\* attribute, those the batch had and those it had not, an XdgOutput in those the batch
\* had (doneCallback). An unknown mode changes nothing.
BatchesAreFollowed ==
    events = <<>> /\ batches # <<>> =>
        \A a \in IF class = "XdgOutput" THEN batches[Len(batches)] ELSE Attributes[class] :
            server[a] # Future => current[a] = server[a]

\* xdgoutput.h, of name(): "A consistent unique name for this monitor". The code does
\* not keep it: the first batch without a name, which a compositor sends only once,
\* takes the name away again (std::swap in doneCallback).
NameIsConsistent ==
    [][class = "XdgOutput" /\ current["name"] # Unset => current["name"]' = current["name"]]_vars

=============================================================================
