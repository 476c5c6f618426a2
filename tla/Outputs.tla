------------------------------ MODULE Outputs ------------------------------
(***************************************************************************)
(* Outputs with their modes, and a Surface that is on some of them and     *)
(* asks for frame callbacks.                                               *)
(*                                                                         *)
(* The compositor is external.  It serves requests at once, which is as    *)
(* good as later: its events reach the client later and in order, and may  *)
(* find the objects they are for, or that they name, gone.  Outputs are    *)
(* created with Registry::createOutput.  The user creates, releases and    *)
(* deletes objects when it likes.  The other attributes of an output are   *)
(* one assignment each and are left out.                                   *)
(*                                                                         *)
(* Behaviour that C++ leaves undefined ends a behaviour of the model.      *)
(***************************************************************************)
EXTENDS Naturals, SequencesExt

CONSTANTS
  OutputIds,  \* the outputs of the compositor
  ModeCount,  \* the modes of an output
  MaxChanges  \* bound: changes in the compositor

ASSUME OutputsAssumption ==
  ModeCount \in Nat \ {0} /\ MaxChanges \in Nat

\* A mode is a pair of a size and a refresh rate; they are announced in order.
Modes == 1 .. ModeCount

VARIABLES
  \* The compositor.
  gone,         \* outputs that were unplugged
  inMode,       \* the mode an output is in
  on,           \* the outputs the surface is on
  frameDue,     \* a frame callback of the surface is to be answered
  changes,      \* changes so far
  events,       \* events on their way: mode, remove, enter, leave, frame
  \* The client.
  output,       \* "none", "bound", "removed" (and signalled), "deleted"
  modes,        \* the modes of an Output, in order: mode, current
  currentMode,  \* the current one, 0 is no value
  surface,      \* "none", "valid", "released", "deleted"
  outputs,      \* Surface::outputs()
  frameCallbackInstalled,
  undefined     \* "no", or what came to use memory that is not there

serverVars == <<gone, inMode, on, frameDue, changes>>
outputVars == <<output, modes, currentMode>>
surfaceVars == <<surface, outputs, frameCallbackInstalled>>
vars == <<serverVars, events, outputVars, surfaceVars, undefined>>

ModeEvent(o, m, current) == [type |-> "mode", output |-> o, mode |-> m, current |-> current]
RemoveEvent(o) == [type |-> "remove", output |-> o]
EnterEvent(o) == [type |-> "enter", output |-> o]
LeaveEvent(o) == [type |-> "leave", output |-> o]
FrameEvent == [type |-> "frame"]

\* Outputs with a proxy, those Output::get() finds.
Proxies == {o \in OutputIds : output[o] \in {"bound", "removed"}}

Init ==
  /\ gone = {} /\ inMode \in [OutputIds -> Modes] /\ on = {}
  /\ frameDue = FALSE /\ changes = 0 /\ events = <<>>
  /\ output = [o \in OutputIds |-> "none"]
  /\ modes = [o \in OutputIds |-> <<>>]
  /\ currentMode = [o \in OutputIds |-> 0]
  /\ surface = "none" /\ outputs = <<>> /\ frameCallbackInstalled = FALSE
  /\ undefined = "no"
-----------------------------------------------------------------------------
(* The compositor.                                                         *)

Change == changes < MaxChanges /\ changes' = changes + 1

\* Enter and leave are sent for the resources of the output there are.
Move(o) ==
  /\ Change
  /\ surface = "valid" /\ (o \notin gone \/ o \in on)
  /\ on' = IF o \in on THEN on \ {o} ELSE on \union {o}
  /\ events' = IF o \notin Proxies THEN events
               ELSE Append(events, IF o \in on THEN LeaveEvent(o) ELSE EnterEvent(o))
  /\ UNCHANGED <<gone, inMode, frameDue, outputVars, surfaceVars>>

SwitchMode(o, m) ==
  /\ Change
  /\ o \notin gone /\ m # inMode[o]
  /\ inMode' = [inMode EXCEPT ![o] = m]
  /\ events' = IF o \in Proxies THEN Append(events, ModeEvent(o, m, TRUE)) ELSE events
  /\ UNCHANGED <<gone, on, frameDue, outputVars, surfaceVars>>

\* The surface may leave an output that is unplugged before or afterwards, or
\* be told nothing.
Unplug(o, leaves) ==
  /\ Change
  /\ o \notin gone
  /\ gone' = gone \union {o}
  /\ on' = IF leaves THEN on \ {o} ELSE on
  /\ events' = (IF leaves /\ o \in on \intersect Proxies
                  THEN Append(events, LeaveEvent(o)) ELSE events) \o <<RemoveEvent(o)>>
  /\ UNCHANGED <<inMode, frameDue, outputVars, surfaceVars>>

Render ==
  /\ frameDue
  /\ frameDue' = FALSE
  /\ events' = Append(events, FrameEvent)
  /\ UNCHANGED <<gone, inMode, on, changes, outputVars, surfaceVars>>
-----------------------------------------------------------------------------
(* The user.                                                               *)

\* A compositor announces all modes, or only the one the output is in; and
\* that the surface is on an output once the client has the output.
CreateOutput(o, all) ==
  /\ output[o] = "none"
  /\ output' = [output EXCEPT ![o] = "bound"]
  /\ LET list == IF all THEN [m \in Modes |-> m] ELSE <<inMode[o]>>
         first == [k \in DOMAIN list |-> ModeEvent(o, list[k], list[k] = inMode[o])]
         news == IF o \in on THEN Append(first, EnterEvent(o)) ELSE first
     IN  events' = IF o \in gone THEN events ELSE events \o news
  /\ UNCHANGED <<serverVars, modes, currentMode, surfaceVars>>

\* ~Output.  A surface that is on it is told nothing.
DeleteOutput(o) ==
  /\ o \in Proxies
  /\ output' = [output EXCEPT ![o] = "deleted"]
  /\ UNCHANGED <<serverVars, events, modes, currentMode, surfaceVars>>

CreateSurface ==
  /\ surface = "none"
  /\ surface' = "valid"
  /\ UNCHANGED <<serverVars, events, outputVars, outputs, frameCallbackInstalled>>

\* commit(FrameCallback), of a user that waits for frameRendered() in between.
Commit ==
  /\ surface = "valid" /\ ~frameCallbackInstalled
  /\ frameCallbackInstalled' = TRUE
  /\ frameDue' = TRUE
  /\ UNCHANGED <<gone, inMode, on, changes, events, outputVars, surface, outputs>>

\* Surface::release and ~Surface.  The compositor forgets the surface and its
\* callbacks; the client forgets neither outputs nor the callback's proxy.
EndSurface(end) ==
  /\ surface = "valid" \/ (surface = "released" /\ end = "deleted")
  /\ surface' = end
  /\ on' = {} /\ frameDue' = FALSE
  /\ UNCHANGED <<gone, inMode, changes, events, outputVars, outputs, frameCallbackInstalled>>
-----------------------------------------------------------------------------
(* The handlers of events.                                                 *)

Takes(t) == events # <<>> /\ Head(events).type = t /\ events' = Tail(events)

\* The mode event m erases entries equal to it from the front of the list; an
\* entry behind another that stays moves the new one from under the iterator
\* that stands for it, and the walk goes on past the end of the list.
WalkLosesEnd(list, m) ==
  \E k \in DOMAIN list : list[k].mode = m /\ \E j \in 1 .. k - 1 : list[j].mode # m

\* What is left when the entries of m are erased from the front.
Others(list, m) ==
  LET erased == CHOOSE n \in 0 .. Len(list) :
                  /\ \A k \in 1 .. n : list[k].mode = m
                  /\ n < Len(list) => list[n + 1].mode # m
  IN  SubSeq(list, erased + 1, Len(list))

\* Mutant: the mode that was current keeps its flag.
WithModeKeepingFlags(list, m, current) ==
  (IF current THEN Others(list, m) ELSE list)
    \o <<[mode |-> m, current |-> current]>>

\* The list with the mode m, which takes the flag from the others.
WithMode(list, m, current) ==
  (IF current
     THEN LET others == Others(list, m)
          IN  [k \in DOMAIN others |-> [others[k] EXCEPT !.current = FALSE]]
     ELSE list)
    \o <<[mode |-> m, current |-> current]>>

\* modeCallback, addMode.  A mode that is not current is just added.
addMode ==
  /\ Takes("mode")
  /\ LET e == Head(events)
         lost == e.current /\ WalkLosesEnd(modes[e.output], e.mode)
     IN  CASE e.output \notin Proxies -> UNCHANGED <<modes, currentMode, undefined>>
           [] lost -> undefined' = "modes" /\ UNCHANGED <<modes, currentMode>>
           [] OTHER ->
                /\ modes' = [modes EXCEPT ![e.output] = WithMode(@, e.mode, e.current)]
                /\ currentMode' = [currentMode EXCEPT ![e.output] = IF e.current THEN e.mode ELSE @]
                /\ UNCHANGED undefined
  /\ UNCHANGED <<serverVars, output, surfaceVars>>

\* Surface::Private::removeOutput: takes one occurrence of o off the list.
Without(list, o) ==
  LET places == {k \in DOMAIN list : list[k] = o}
      first == CHOOSE k \in places : \A j \in places : k <= j
  IN  IF places = {} THEN list
      ELSE RemoveAt(list, first)

\* Mutant: nobody listens to removed().
outputRemovedUnheard ==
  /\ Takes("remove")
  /\ LET o == Head(events).output
     IN  output' = [output EXCEPT ![o] = IF @ = "bound" THEN "removed" ELSE "deleted"]
  /\ UNCHANGED <<serverVars, modes, currentMode, surfaceVars, undefined>>

\* wl_registry.global_remove: an Output there is emits removed(), on which the
\* surface has a slot for each enterCallback; it is not created any more.
outputRemoved ==
  /\ Takes("remove")
  /\ LET o == Head(events).output
     IN  /\ output' = [output EXCEPT ![o] = IF @ = "bound" THEN "removed" ELSE "deleted"]
         /\ outputs' = IF output[o] = "bound" /\ surface # "deleted"
                         THEN Without(outputs, o) ELSE outputs
  /\ UNCHANGED <<serverVars, modes, currentMode, surface, frameCallbackInstalled, undefined>>

\* The name of an output whose proxy is gone is a null pointer in the event,
\* for which Output::get() has no Output: each has a proxy.
enterCallback ==
  /\ Takes("enter")
  /\ outputs' = IF surface = "valid" /\ Head(events).output \in Proxies
                  THEN Append(outputs, Head(events).output) ELSE outputs
  /\ UNCHANGED <<serverVars, outputVars, surface, frameCallbackInstalled, undefined>>

\* Mutant: only removed() takes an output off the list.
leaveCallbackUnheard ==
  /\ Takes("leave")
  /\ UNCHANGED <<serverVars, outputVars, surfaceVars, undefined>>

leaveCallback ==
  /\ Takes("leave")
  /\ outputs' = IF surface = "valid" /\ Head(events).output \in Proxies
                  THEN Without(outputs, Head(events).output) ELSE outputs
  /\ UNCHANGED <<serverVars, outputVars, surface, frameCallbackInstalled, undefined>>

\* Mutant: the flag stays.
frameCallbackKeepingFlag ==
  /\ Takes("frame")
  /\ undefined' = IF surface = "deleted" THEN "frame" ELSE "no"
  /\ UNCHANGED <<serverVars, outputVars, surfaceVars>>

\* The callback has a proxy of its own, which nobody destroys with the Surface.
frameCallback ==
  /\ Takes("frame")
  /\ IF surface = "deleted"
       THEN undefined' = "frame" /\ UNCHANGED frameCallbackInstalled
       ELSE frameCallbackInstalled' = FALSE /\ UNCHANGED undefined
  /\ UNCHANGED <<serverVars, outputVars, surface, outputs>>
-----------------------------------------------------------------------------
ServerNext ==
  \/ \E o \in OutputIds : Move(o)
  \/ \E o \in OutputIds, m \in Modes : SwitchMode(o, m)
  \/ \E o \in OutputIds, leaves \in BOOLEAN : Unplug(o, leaves)
  \/ Render

UserNext ==
  \/ \E o \in OutputIds, all \in BOOLEAN : CreateOutput(o, all)
  \/ \E o \in OutputIds : DeleteOutput(o)
  \/ CreateSurface
  \/ Commit
  \/ \E end \in {"released", "deleted"} : EndSurface(end)

DispatchEvent ==
  addMode \/ outputRemoved \/ enterCallback \/ leaveCallback \/ frameCallback

Next ==
  /\ undefined = "no"
  /\ \/ ServerNext /\ UNCHANGED undefined
     \/ UserNext /\ UNCHANGED undefined
     \/ DispatchEvent

Spec == Init /\ [][Next]_vars
-----------------------------------------------------------------------------
Event == [type : {"mode"}, output : OutputIds, mode : Modes, current : BOOLEAN]
           \union [type : {"remove", "enter", "leave"}, output : OutputIds]
           \union {FrameEvent}

\* Outputs enter the surface and leave it, and are not listed twice.
TypeOK ==
  /\ gone \subseteq OutputIds /\ on \subseteq OutputIds
  /\ inMode \in [OutputIds -> Modes]
  /\ frameDue \in BOOLEAN /\ frameCallbackInstalled \in BOOLEAN
  /\ changes \in 0 .. MaxChanges
  /\ events \in Seq(Event)
  /\ output \in [OutputIds -> {"none", "bound", "removed", "deleted"}]
  /\ \A o \in OutputIds : modes[o] \in Seq([mode : Modes, current : BOOLEAN])
  /\ currentMode \in [OutputIds -> {0} \union Modes]
  /\ surface \in {"none", "valid", "released", "deleted"}
  /\ outputs \in Seq(OutputIds)
  /\ \A j, k \in DOMAIN outputs : outputs[j] = outputs[k] => j = k
  /\ undefined \in {"no", "modes", "frame"}

\* Modes come one by one and move between the flags and the list (addMode):
\* no mode is listed twice, the one that is flagged, and no other, is the
\* current mode, and with no mode event on its way it is the compositor's.
ModesFollow ==
  \A o \in OutputIds :
    LET list == modes[o]
        flagged == {k \in DOMAIN list : list[k].current}
    IN  /\ \A j, k \in DOMAIN list : list[j].mode = list[k].mode => j = k
        /\ {list[k].mode : k \in flagged} = {currentMode[o]} \ {0}
        /\ output[o] = "bound" /\ o \notin gone /\ undefined = "no"
             /\ (\A k \in DOMAIN events : events[k].type # "mode" \/ events[k].output # o)
             => currentMode[o] = inMode[o]

\* With no event on its way the surface lists once each output it is on that
\* there is an Output for, and no other output that still exists; unplugged
\* ones have left the list, whether the compositor sent a leave event or not.
SurfaceFollows ==
  surface = "valid" /\ events = <<>> /\ undefined = "no" =>
    \A o \in Proxies :
      Cardinality({k \in DOMAIN outputs : outputs[k] = o}) =
        IF o \in on \ gone THEN 1 ELSE 0

FramesComing == {k \in DOMAIN events : events[k].type = "frame"}

\* A surface that waits for a frame is owed one by the compositor or by an
\* event on its way; two are never owed, so the assertion that no callback is
\* installed (setupFrameCallback) holds for a user that waits for each.
FrameIsOwed ==
  surface = "valid" =>
    /\ frameCallbackInstalled <=> frameDue \/ FramesComing # {}
    /\ \A j, k \in FramesComing : j = k /\ ~frameDue

\* output.h, of modes(): "The Modes of this Output".  A mode that becomes
\* current again while another precedes it in the list makes addMode() use an
\* iterator that its own erase() has invalidated.
ModesAreDefined == undefined # "modes"
=============================================================================
