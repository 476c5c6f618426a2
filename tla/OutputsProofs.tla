---------------------------- MODULE OutputsProofs ----------------------------
(***************************************************************************)
(* Theorems about Outputs, for any number of outputs, modes and changes in *)
(* the compositor: types, the modes of an Output and the one that is       *)
(* current, the outputs a surface lists, and the frame a surface that      *)
(* waits for one is owed.                                                  *)
(***************************************************************************)
EXTENDS Outputs, Replay, FiniteSetTheorems, WellFoundedInduction, TLAPS

\* What RemoveAt leaves.
LEMMA RemoveAtFacts ==
  ASSUME NEW S, NEW s \in Seq(S), NEW k \in DOMAIN s
  PROVE  /\ RemoveAt(s, k) \in Seq(S)
         /\ Len(RemoveAt(s, k)) = Len(s) - 1 /\ DOMAIN RemoveAt(s, k) = 1 .. Len(s) - 1
         /\ \A n \in 1 .. Len(s) - 1 : RemoveAt(s, k)[n] = IF n < k THEN s[n] ELSE s[n + 1]
BY WithoutOne DEF RemoveAt

WireInv == inMode \in [OutputIds -> Modes] /\ events \in Seq(Event)

\* Frames are asked for by a surface that is valid, and one at a time.
FrameInv ==
  /\ surface \in {"none", "valid", "released", "deleted"}
  /\ frameDue \in BOOLEAN /\ frameCallbackInstalled \in BOOLEAN
  /\ surface # "valid" => ~frameDue
  /\ surface = "none" => ~frameCallbackInstalled /\ FramesComing = {}
  /\ FrameIsOwed

Inv == WireInv /\ FrameInv
-----------------------------------------------------------------------------
LEMMA ModeCountType == ModeCount \in Nat /\ DOMAIN [m \in Modes |-> m] = 1 .. ModeCount
BY OutputsAssumption DEF Modes

LEMMA Initially ==
  ASSUME Init
  PROVE  Inv
<1>1. WireInv
  BY DEF Init, WireInv
<1>2. FrameInv
  <2>1. FramesComing = {}
    BY DEF Init, FramesComing
  <2> QED
    BY <2>1 DEF Init, FrameInv, FrameIsOwed
<1> QED
  BY <1>1, <1>2 DEF Inv

LEMMA EventTypes ==
  /\ \A o \in OutputIds : /\ RemoveEvent(o) \in Event /\ EnterEvent(o) \in Event
                          /\ LeaveEvent(o) \in Event
                          /\ \A m \in Modes, c \in BOOLEAN : ModeEvent(o, m, c) \in Event
  /\ FrameEvent \in Event /\ FrameEvent.type = "frame"
  /\ \A o \in OutputIds : /\ RemoveEvent(o).type # "frame" /\ EnterEvent(o).type # "frame"
                          /\ LeaveEvent(o).type # "frame"
                          /\ \A m \in Modes, c \in BOOLEAN : ModeEvent(o, m, c).type # "frame"
BY DEF Event, RemoveEvent, EnterEvent, LeaveEvent, ModeEvent, FrameEvent

\* What the compositor sends: no frame, or one.
LEMMA Sending ==
  ASSUME events \in Seq(Event), NEW news \in Seq(Event), events' = events \o news,
         \A k \in DOMAIN news : news[k].type # "frame"
  PROVE  events' \in Seq(Event) /\ FramesComing' = FramesComing
<1>1. /\ events' \in Seq(Event) /\ Len(events') = Len(events) + Len(news)
      /\ Len(events) \in Nat /\ Len(news) \in Nat
      /\ \A k \in 1 .. Len(events) : events'[k] = events[k]
  OBVIOUS
<1>2. ASSUME NEW k \in DOMAIN events', k \notin DOMAIN events
      PROVE  events'[k].type # "frame"
  <2>1. k - Len(events) \in DOMAIN news /\ events'[k] = news[k - Len(events)]
    BY <1>2
  <2> QED
    BY <2>1
<1>3. DOMAIN events = 1 .. Len(events) /\ DOMAIN events' = 1 .. Len(events')
  BY <1>1
<1> QED
  BY <1>1, <1>2, <1>3 DEF FramesComing

LEMMA SendingOne ==
  ASSUME events \in Seq(Event), NEW e \in Event, events' = Append(events, e)
  PROVE  /\ events' \in Seq(Event)
         /\ FramesComing' = IF e.type = "frame" THEN FramesComing \union {Len(events) + 1}
                                                ELSE FramesComing
<1>1. /\ events' \in Seq(Event) /\ Len(events) \in Nat
      /\ DOMAIN events = 1 .. Len(events) /\ DOMAIN events' = 1 .. Len(events) + 1
      /\ events'[Len(events) + 1] = e
      /\ \A k \in 1 .. Len(events) : events'[k] = events[k]
  OBVIOUS
<1> QED
  BY <1>1 DEF FramesComing

\* What the client takes.
LEMMA Taking ==
  ASSUME events \in Seq(Event), NEW t, Takes(t)
  PROVE  /\ events' \in Seq(Event)
         /\ FramesComing' = {k - 1 : k \in FramesComing \ {1}}
         /\ t = "frame" <=> 1 \in FramesComing
<1>1. /\ events # <<>> /\ events' = Tail(events) /\ Head(events).type = t
  BY DEF Takes
<1>2. /\ events' \in Seq(Event) /\ Len(events) \in Nat \ {0}
      /\ DOMAIN events = 1 .. Len(events) /\ DOMAIN events' = 1 .. Len(events) - 1
      /\ Head(events) = events[1]
      /\ \A k \in 1 .. Len(events) - 1 : events'[k] = events[k + 1]
  BY <1>1
<1>3. ASSUME NEW k \in FramesComing' PROVE k + 1 \in FramesComing \ {1} /\ k = (k + 1) - 1
  BY <1>2, <1>3 DEF FramesComing
<1>4. ASSUME NEW k \in FramesComing \ {1} PROVE k - 1 \in FramesComing'
  <2>1. k - 1 \in 1 .. Len(events) - 1 /\ (k - 1) + 1 = k /\ events[k].type = "frame"
    BY <1>2, <1>4 DEF FramesComing
  <2> QED
    BY <1>2, <2>1 DEF FramesComing
<1> QED
  BY <1>1, <1>2, <1>3, <1>4 DEF FramesComing

\* The steps that neither send nor handle a frame.
LEMMA FramesAlone ==
  ASSUME FrameInv, FramesComing' = FramesComing,
         UNCHANGED <<surface, frameDue, frameCallbackInstalled>>
  PROVE  FrameInv'
BY DEF FrameInv, FrameIsOwed

LEMMA FramesShifted ==
  ASSUME FrameInv, FramesComing' = {k - 1 : k \in FramesComing}, FramesComing \subseteq Nat,
         UNCHANGED <<surface, frameDue, frameCallbackInstalled>>
  PROVE  FrameInv'
BY DEF FrameInv, FrameIsOwed
-----------------------------------------------------------------------------
LEMMA ServerSteps ==
  ASSUME Inv, ServerNext
  PROVE  Inv'
<1> USE DEF Inv, WireInv, outputVars, surfaceVars
<1>1. ASSUME NEW o \in OutputIds, Move(o) PROVE Inv'
  <2>1. UNCHANGED <<inMode, surface, frameDue, frameCallbackInstalled>>
    BY <1>1 DEF Move
  <2>2. events' = events \/ \E e \in {LeaveEvent(o), EnterEvent(o)} : events' = Append(events, e)
    BY <1>1 DEF Move
  <2>3. events' \in Seq(Event) /\ FramesComing' = FramesComing
    BY <2>2, EventTypes, SendingOne DEF FramesComing
  <2> QED
    BY <2>1, <2>3, FramesAlone
<1>2. ASSUME NEW o \in OutputIds, NEW m \in Modes, SwitchMode(o, m) PROVE Inv'
  <2>1. /\ UNCHANGED <<surface, frameDue, frameCallbackInstalled>>
        /\ inMode' \in [OutputIds -> Modes]
    BY <1>2 DEF SwitchMode
  <2>2. events' = events \/ events' = Append(events, ModeEvent(o, m, TRUE))
    BY <1>2 DEF SwitchMode
  <2>3. events' \in Seq(Event) /\ FramesComing' = FramesComing
    BY <2>2, EventTypes, SendingOne DEF FramesComing
  <2> QED
    BY <2>1, <2>3, FramesAlone
<1>3. ASSUME NEW o \in OutputIds, NEW leaves \in BOOLEAN, Unplug(o, leaves) PROVE Inv'
  <2>1. UNCHANGED <<inMode, surface, frameDue, frameCallbackInstalled>>
    BY <1>3 DEF Unplug
  <2>2. events' = Append(events, LeaveEvent(o)) \o <<RemoveEvent(o)>>
          \/ events' = events \o <<RemoveEvent(o)>>
    BY <1>3 DEF Unplug
  <2>3. /\ <<LeaveEvent(o), RemoveEvent(o)>> \in Seq(Event)
        /\ <<RemoveEvent(o)>> \in Seq(Event)
    BY EventTypes
  <2>4. Append(events, LeaveEvent(o)) \o <<RemoveEvent(o)>>
          = events \o <<LeaveEvent(o), RemoveEvent(o)>>
    BY EventTypes
  <2>5. PICK news \in {<<LeaveEvent(o), RemoveEvent(o)>>, <<RemoveEvent(o)>>} :
               events' = events \o news
    BY <2>2, <2>4
  <2>6. \A k \in DOMAIN news : news[k].type # "frame"
    <3>1. RemoveEvent(o).type # "frame" /\ LeaveEvent(o).type # "frame"
      BY EventTypes
    <3>2. CASE news = <<LeaveEvent(o), RemoveEvent(o)>>
      <4>1. DOMAIN news = {1, 2} /\ news[1] = LeaveEvent(o) /\ news[2] = RemoveEvent(o)
        BY <3>2
      <4> QED
        BY <3>1, <4>1
    <3>3. CASE news = <<RemoveEvent(o)>>
      <4>1. DOMAIN news = {1} /\ news[1] = RemoveEvent(o)
        BY <3>3
      <4> QED
        BY <3>1, <4>1
    <3> QED
      BY <2>5, <3>2, <3>3
  <2>7. events' \in Seq(Event) /\ FramesComing' = FramesComing
    BY <2>3, <2>5, <2>6, Sending
  <2> QED
    BY <2>1, <2>7, FramesAlone
<1>4. CASE Render
  <2>1. /\ frameDue /\ ~frameDue' /\ frameDue' \in BOOLEAN
        /\ events' = Append(events, FrameEvent)
        /\ UNCHANGED <<inMode, surface, frameCallbackInstalled>>
    BY <1>4 DEF Render
  <2>2. events' \in Seq(Event) /\ FramesComing' = FramesComing \union {Len(events) + 1}
    BY <2>1, EventTypes, SendingOne
  <2>3. surface = "valid" /\ frameCallbackInstalled /\ FramesComing = {}
    BY <2>1 DEF FrameInv, FrameIsOwed
  <2>4. FrameInv'
    BY <2>1, <2>2, <2>3 DEF FrameInv, FrameIsOwed
  <2> QED
    BY <2>1, <2>2, <2>4
<1> QED
  BY <1>1, <1>2, <1>3, <1>4 DEF ServerNext

LEMMA UserSteps ==
  ASSUME Inv, UserNext
  PROVE  Inv'
<1> USE DEF Inv, WireInv, outputVars, surfaceVars, serverVars
<1>1. ASSUME NEW o \in OutputIds, NEW all \in BOOLEAN, CreateOutput(o, all) PROVE Inv'
  <2> DEFINE list == IF all THEN [m \in Modes |-> m] ELSE <<inMode[o]>>
             first == [k \in DOMAIN list |-> ModeEvent(o, list[k], list[k] = inMode[o])]
  <2>1. UNCHANGED <<inMode, surface, frameDue, frameCallbackInstalled>>
    BY <1>1 DEF CreateOutput
  <2>2. list \in Seq(Modes)
    <3>1. inMode[o] \in Modes
      OBVIOUS
    <3>2. <<inMode[o]>> \in Seq(Modes)
      BY <3>1
    <3>3. [m \in Modes |-> m] \in Seq(Modes)
      BY ModeCountType DEF Modes
    <3> QED
      BY <3>2, <3>3
  <2>6. \/ events' = events
        \/ events' = events \o Append(first, EnterEvent(o))
        \/ events' = events \o first
    BY <1>1 DEF CreateOutput
  <2> HIDE DEF list
  <2>3. \A k \in DOMAIN list : /\ list[k] \in Modes /\ (list[k] = inMode[o]) \in BOOLEAN
    BY <2>2
  <2>4. \A k \in DOMAIN list : /\ ModeEvent(o, list[k], list[k] = inMode[o]) \in Event
                               /\ ModeEvent(o, list[k], list[k] = inMode[o]).type # "frame"
    BY <2>3, EventTypes
  <2>5. first \in Seq(Event) /\ \A k \in DOMAIN first : first[k].type # "frame"
    BY <2>2, <2>4
  <2> HIDE DEF first
  <2>7. Append(first, EnterEvent(o)) \in Seq(Event)
    BY <2>5, EventTypes
  <2>8. \A k \in DOMAIN Append(first, EnterEvent(o)) :
          Append(first, EnterEvent(o))[k].type # "frame"
    BY <2>5, EventTypes
  <2>9. events' \in Seq(Event) /\ FramesComing' = FramesComing
    <3>1. CASE events' = events
      BY <3>1 DEF FramesComing
    <3>2. CASE events' = events \o Append(first, EnterEvent(o))
      BY <2>7, <2>8, <3>2, Sending
    <3>3. CASE events' = events \o first
      BY <2>5, <3>3, Sending
    <3> QED
      BY <2>6, <3>1, <3>2, <3>3
  <2> QED
    BY <2>1, <2>9, FramesAlone
<1>2. ASSUME NEW o \in OutputIds, DeleteOutput(o) PROVE Inv'
  BY <1>2, FramesAlone DEF DeleteOutput, FramesComing
<1>3. CASE CreateSurface
  <2>1. /\ surface = "none" /\ surface' = "valid"
        /\ UNCHANGED <<inMode, events, frameDue, frameCallbackInstalled>>
    BY <1>3 DEF CreateSurface
  <2>2. FramesComing' = FramesComing
    BY <2>1 DEF FramesComing
  <2>3. FrameInv'
    BY <2>1, <2>2 DEF FrameInv, FrameIsOwed
  <2> QED
    BY <2>1, <2>3
<1>4. CASE Commit
  <2>1. /\ surface = "valid" /\ ~frameCallbackInstalled
        /\ frameCallbackInstalled' = TRUE /\ frameDue' = TRUE
        /\ UNCHANGED <<inMode, events, surface>>
    BY <1>4 DEF Commit
  <2>2. FramesComing' = {}
    BY <2>1 DEF FrameInv, FrameIsOwed, FramesComing
  <2>3. FrameInv'
    BY <2>1, <2>2 DEF FrameInv, FrameIsOwed
  <2> QED
    BY <2>1, <2>3
<1>5. ASSUME NEW end \in {"released", "deleted"}, EndSurface(end) PROVE Inv'
  <2>1. /\ surface' \in {"released", "deleted"} /\ frameDue' = FALSE
        /\ UNCHANGED <<inMode, events, frameCallbackInstalled>>
    BY <1>5 DEF EndSurface
  <2>2. FrameInv'
    BY <2>1 DEF FrameInv, FrameIsOwed
  <2> QED
    BY <2>1, <2>2
<1> QED
  BY <1>1, <1>2, <1>3, <1>4, <1>5 DEF UserNext

LEMMA EventSteps ==
  ASSUME Inv, DispatchEvent
  PROVE  Inv'
<1> USE DEF Inv, WireInv, outputVars, surfaceVars, serverVars
<1>1. FramesComing \subseteq Nat \ {0}
  BY DEF FramesComing
<1>2. CASE addMode \/ outputRemoved \/ enterCallback \/ leaveCallback
  <2>1. PICK t \in {"mode", "remove", "enter", "leave"} : Takes(t)
    BY <1>2 DEF addMode, outputRemoved, enterCallback, leaveCallback
  <2>2. UNCHANGED <<inMode, surface, frameDue, frameCallbackInstalled>>
    BY <1>2 DEF addMode, outputRemoved, enterCallback, leaveCallback
  <2>3. /\ events' \in Seq(Event) /\ 1 \notin FramesComing
        /\ FramesComing' = {k - 1 : k \in FramesComing \ {1}}
    BY <2>1, Taking
  <2>4. FramesComing' = {k - 1 : k \in FramesComing}
    BY <2>3
  <2>5. FrameInv'
    BY <1>1, <2>2, <2>4, FramesShifted
  <2> QED
    BY <2>2, <2>3, <2>5
<1>3. CASE frameCallback
  <2>1. /\ UNCHANGED <<inMode, surface, frameDue>>
        /\ surface # "deleted" => frameCallbackInstalled' = FALSE
        /\ surface = "deleted" => UNCHANGED frameCallbackInstalled
    BY <1>3 DEF frameCallback
  <2>2. /\ events' \in Seq(Event) /\ 1 \in FramesComing
        /\ FramesComing' = {k - 1 : k \in FramesComing \ {1}}
    BY <1>3, Taking DEF frameCallback
  <2>3. surface # "none"
    BY <2>2 DEF FrameInv
  <2>4. CASE surface = "valid"
    <3>1. FramesComing = {1} /\ ~frameDue
      BY <2>2, <2>4 DEF FrameInv, FrameIsOwed
    <3>2. FramesComing' = {}
      BY <2>2, <3>1
    <3> QED
      BY <2>1, <2>2, <2>4, <3>1, <3>2 DEF FrameInv, FrameIsOwed
  <2>5. CASE surface # "valid"
    BY <2>1, <2>2, <2>3, <2>5 DEF FrameInv, FrameIsOwed
  <2> QED
    BY <2>4, <2>5
<1> QED
  BY <1>2, <1>3 DEF DispatchEvent
-----------------------------------------------------------------------------
(***************************************************************************)
(* Types, and the modes of an Output.                                      *)
(***************************************************************************)
Entry == [mode : Modes, current : BOOLEAN]

TypesInv ==
  /\ gone \subseteq OutputIds /\ on \subseteq OutputIds
  /\ changes \in 0 .. MaxChanges
  /\ output \in [OutputIds -> {"none", "bound", "removed", "deleted"}]
  /\ modes \in [OutputIds -> Seq(Entry)]
  /\ currentMode \in [OutputIds -> {0} \union Modes]
  /\ outputs \in Seq(OutputIds)
  /\ undefined \in {"no", "modes", "frame"}

\* An output that is not created has no modes, is on no list, and all that may
\* be on its way about it is that it is unplugged.
NoneInv ==
  \A o \in OutputIds : output[o] = "none" =>
    /\ modes[o] = <<>> /\ currentMode[o] = 0 /\ o \notin ToSet(outputs)
    /\ \A k \in DOMAIN events :
         events[k].type \in {"mode", "enter", "leave"} => events[k].output # o

\* No mode is listed twice, and the current one has the flag.
ListInv ==
  \A o \in OutputIds :
    /\ \A j, k \in DOMAIN modes[o] : modes[o][j].mode = modes[o][k].mode => j = k
    /\ \A k \in DOMAIN modes[o] : modes[o][k].current <=> modes[o][k].mode = currentMode[o]
    /\ currentMode[o] # 0 => \E k \in DOMAIN modes[o] : modes[o][k].mode = currentMode[o]

\* A mode that is announced without the flag is announced for the first time.
NewInv ==
  \A k \in DOMAIN events : events[k].type = "mode" /\ ~events[k].current =>
    /\ \A i \in DOMAIN modes[events[k].output] :
         modes[events[k].output][i].mode # events[k].mode
    /\ \A j \in DOMAIN events :
         /\ j < k /\ events[j].type = "mode" /\ events[j].output = events[k].output
         => events[j].mode # events[k].mode

\* The mode that is announced last as current is the one the output is in.
CurrentAt(k, o) == events[k].type = "mode" /\ events[k].output = o /\ events[k].current
CurrentOf(o) ==
  /\ \A k \in DOMAIN events :
       CurrentAt(k, o) /\ (\A j \in DOMAIN events : k < j => ~CurrentAt(j, o))
         => events[k].mode = inMode[o]
  /\ (\A k \in DOMAIN events : ~CurrentAt(k, o)) => currentMode[o] = inMode[o]
CurrentInv ==
  undefined = "no" =>
    \A o \in OutputIds : output[o] = "bound" /\ o \notin gone => CurrentOf(o)

ModesInv == TypesInv /\ NoneInv /\ ListInv /\ NewInv /\ CurrentInv

(***************************************************************************)
(* The outputs a surface is on.                                            *)
(***************************************************************************)
\* Whether the surface is on o, in the client and in the compositor, and what
\* an event does to that.
Places == {"on", "off"}
Listed(o) == IF o \in ToSet(outputs) THEN "on" ELSE "off"
Shown(o) == IF o \in on \ gone THEN "on" ELSE "off"
Moving(o) ==
  {m \in Places \X Event \X Places :
     CASE m[2].type = "enter" /\ m[2].output = o -> m[1] = "off" /\ m[3] = "on"
       [] m[2].type \in {"leave", "remove"} /\ m[2].output = o -> m[3] = "off"
       [] OTHER -> m[3] = m[1]}

\* An output is unplugged once.
UnplugInv ==
  /\ \A o \in OutputIds : output[o] = "removed" => o \in gone
  /\ \A k \in DOMAIN events : events[k].type = "remove" =>
       /\ events[k].output \in gone /\ output[events[k].output] # "removed"
       /\ \A j \in DOMAIN events :
            events[j].type = "remove" /\ events[j].output = events[k].output => j = k

BeforeInv ==
  surface = "none" =>
    outputs = <<>> /\ on = {} /\ \A k \in DOMAIN events : events[k].type # "enter"

OnInv ==
  /\ \A j, k \in DOMAIN outputs : outputs[j] = outputs[k] => j = k
  /\ surface = "valid" =>
       \A o \in Proxies :
         Leads(Places, Moving(o), Listed(o), events, Shown(o))

SurfaceInv == UnplugInv /\ BeforeInv /\ OnInv

-----------------------------------------------------------------------------
LEMMA EventFacts ==
  ASSUME NEW e \in Event
  PROVE  /\ e.type \in {"mode", "remove", "enter", "leave", "frame"}
         /\ e.type # "frame" => e.output \in OutputIds
         /\ e.type = "mode" => e.mode \in Modes /\ e.current \in BOOLEAN
BY DEF Event, FrameEvent

LEMMA EventFields ==
  ASSUME NEW o, NEW m, NEW c
  PROVE  /\ RemoveEvent(o).type = "remove" /\ RemoveEvent(o).output = o
         /\ EnterEvent(o).type = "enter" /\ EnterEvent(o).output = o
         /\ LeaveEvent(o).type = "leave" /\ LeaveEvent(o).output = o
         /\ ModeEvent(o, m, c).type = "mode" /\ ModeEvent(o, m, c).output = o
         /\ ModeEvent(o, m, c).mode = m /\ ModeEvent(o, m, c).current = c
         /\ FrameEvent.type = "frame"
BY DEF RemoveEvent, EnterEvent, LeaveEvent, ModeEvent, FrameEvent

\* What is sent, and the parts of the invariant.
Sent(news) == news \in Seq(Event) /\ events' = events \o news

LEMMA NothingSent ==
  ASSUME events \in Seq(Event), events' = events
  PROVE  Sent(<<>>)
BY DEF Sent

LEMMA OneSent ==
  ASSUME events \in Seq(Event), NEW e \in Event, events' = Append(events, e)
  PROVE  Sent(<<e>>) /\ DOMAIN <<e>> = {1} /\ <<e>>[1] = e
<1>1. <<e>> \in Seq(Event) /\ DOMAIN <<e>> = {1} /\ <<e>>[1] = e
  OBVIOUS
<1>2. events \o <<e>> = Append(events, <<e>>[1])
  BY <1>1, ConcatOne
<1> QED
  BY <1>1, <1>2 DEF Sent

LEMMA NoneSent ==
  ASSUME events \in Seq(Event), NEW news, Sent(news), NoneInv,
         \A o \in OutputIds : output'[o] = "none" => output[o] = "none",
         \A k \in DOMAIN news : news[k].type \in {"mode", "enter", "leave"}
                                  => output'[news[k].output] # "none",
         UNCHANGED <<modes, currentMode, outputs>>
  PROVE  NoneInv'
<1>1. /\ \A k \in DOMAIN events : k \in DOMAIN events' /\ events'[k] = events[k]
      /\ \A k \in DOMAIN events' : k \notin DOMAIN events =>
           k - Len(events) \in DOMAIN news /\ events'[k] = news[k - Len(events)]
  BY Behind DEF Sent
<1>2. ToSet(outputs)' = ToSet(outputs)
  BY DEF ToSet
<1>3. ASSUME NEW o \in OutputIds, output'[o] = "none", NEW k \in DOMAIN events',
             events'[k].type \in {"mode", "enter", "leave"}, events'[k].output = o
      PROVE  FALSE
  <2>1. CASE k \in DOMAIN events
    BY <1>1, <1>3, <2>1 DEF NoneInv
  <2>2. CASE k \notin DOMAIN events
    BY <1>1, <1>3, <2>2
  <2> QED
    BY <2>1, <2>2
<1> QED
  BY <1>2, <1>3 DEF NoneInv

LEMMA NewSent ==
  ASSUME events \in Seq(Event), NEW news, Sent(news), NewInv, UNCHANGED modes,
         \A k \in DOMAIN news : news[k].type = "mode" /\ ~news[k].current =>
           /\ \A i \in DOMAIN modes[news[k].output] :
                modes[news[k].output][i].mode # news[k].mode
           /\ \A j \in DOMAIN events :
                events[j].type = "mode" /\ events[j].output = news[k].output
                  => events[j].mode # news[k].mode
           /\ \A j \in DOMAIN news :
                j < k /\ news[j].type = "mode" /\ news[j].output = news[k].output
                  => news[j].mode # news[k].mode
  PROVE  NewInv'
<1>1. /\ \A k \in DOMAIN events : k \in DOMAIN events' /\ events'[k] = events[k]
      /\ \A k \in DOMAIN events' : k \notin DOMAIN events =>
           k - Len(events) \in DOMAIN news /\ events'[k] = news[k - Len(events)]
      /\ DOMAIN events = 1 .. Len(events) /\ Len(events) \in Nat
      /\ Len(news) \in Nat /\ DOMAIN events' = 1 .. Len(events) + Len(news)
  BY Behind DEF Sent
<1>2. ASSUME NEW k \in DOMAIN events', events'[k].type = "mode", ~events'[k].current
      PROVE  /\ \A i \in DOMAIN modes[events'[k].output] :
                  modes[events'[k].output][i].mode # events'[k].mode
             /\ \A j \in DOMAIN events' :
                  j < k /\ events'[j].type = "mode" /\ events'[j].output = events'[k].output
                    => events'[j].mode # events'[k].mode
  <2>1. CASE k \in DOMAIN events
    <3>1. events'[k] = events[k] /\ \A j \in DOMAIN events' : j < k =>
              j \in DOMAIN events /\ events'[j] = events[j]
      BY <1>1, <2>1
    <3>2. /\ \A i \in DOMAIN modes[events[k].output] :
               modes[events[k].output][i].mode # events[k].mode
          /\ \A j \in DOMAIN events :
               j < k /\ events[j].type = "mode" /\ events[j].output = events[k].output
                 => events[j].mode # events[k].mode
      BY <1>2, <2>1, <3>1 DEF NewInv
    <3>3. ASSUME NEW j \in DOMAIN events', j < k, events'[j].type = "mode",
                 events'[j].output = events'[k].output
          PROVE  events'[j].mode # events'[k].mode
      BY <3>1, <3>2, <3>3
    <3> QED
      BY <3>1, <3>2, <3>3
  <2>2. CASE k \notin DOMAIN events
    <3>1. k - Len(events) \in DOMAIN news /\ events'[k] = news[k - Len(events)]
      BY <1>1, <2>2
    <3>2. \A j \in DOMAIN events' : j < k /\ j \notin DOMAIN events =>
            /\ j - Len(events) \in DOMAIN news /\ j - Len(events) < k - Len(events)
            /\ events'[j] = news[j - Len(events)]
      BY <1>1
    <3> DEFINE i == k - Len(events)
    <3>3. news[i].type = "mode" /\ ~news[i].current
      BY <1>2, <3>1
    <3>4. ASSUME NEW j \in DOMAIN events', j < k, events'[j].type = "mode",
                 events'[j].output = events'[k].output
          PROVE  events'[j].mode # events'[k].mode
      <4>1. CASE j \in DOMAIN events
        BY <1>1, <3>1, <3>3, <3>4, <4>1
      <4>2. CASE j \notin DOMAIN events
        <5> DEFINE h == j - Len(events)
        <5>1. h \in DOMAIN news /\ h < i /\ events'[j] = news[h]
          BY <3>2, <3>4, <4>2
        <5> HIDE DEF h, i
        <5> QED
          BY <3>1, <3>3, <3>4, <5>1 DEF i
      <4> QED
        BY <4>1, <4>2
    <3> HIDE DEF i
    <3> QED
      BY <3>1, <3>3, <3>4 DEF i
  <2> QED
    BY <2>1, <2>2
<1> QED
  BY <1>2 DEF NewInv

LEMMA CurrentSent ==
  ASSUME events \in Seq(Event), NEW news, Sent(news), NEW o \in OutputIds, UNCHANGED currentMode,
         \A k \in DOMAIN news :
           news[k].type = "mode" /\ news[k].output = o /\ news[k].current
             => news[k].mode = inMode'[o],
         \/ inMode'[o] = inMode[o] /\ CurrentOf(o)
         \/ \E k \in DOMAIN news :
              news[k].type = "mode" /\ news[k].output = o /\ news[k].current
  PROVE  CurrentOf(o)'
<1>1. /\ \A k \in DOMAIN events : k \in DOMAIN events' /\ events'[k] = events[k]
      /\ \A k \in DOMAIN events' : k \notin DOMAIN events =>
           k - Len(events) \in DOMAIN news /\ events'[k] = news[k - Len(events)]
      /\ \A k \in DOMAIN news : Len(events) + k \in DOMAIN events'
                                  /\ events'[Len(events) + k] = news[k]
      /\ DOMAIN events = 1 .. Len(events) /\ Len(events) \in Nat
      /\ DOMAIN news = 1 .. Len(news) /\ Len(news) \in Nat
  BY Behind DEF Sent
<1>2. \A k \in DOMAIN events : CurrentAt(k, o)' <=> CurrentAt(k, o)
  BY <1>1 DEF CurrentAt
<1>3. \A k \in DOMAIN events' : k \notin DOMAIN events /\ CurrentAt(k, o)'
          => events'[k].mode = inMode'[o]
  BY <1>1 DEF CurrentAt
<1>4. CASE \E k \in DOMAIN news : news[k].type = "mode" /\ news[k].output = o /\ news[k].current
  <2>1. PICK k \in DOMAIN news : news[k].type = "mode" /\ news[k].output = o /\ news[k].current
    BY <1>4
  <2>2. PICK n \in DOMAIN events' : n = Len(events) + k /\ events'[n] = news[k]
    BY <1>1, <2>1
  <2>3. \A j \in DOMAIN events : j < n
    BY <1>1, <2>2
  <2>4. CurrentAt(n, o)'
    BY <2>1, <2>2 DEF CurrentAt
  <2>5. ASSUME NEW j \in DOMAIN events', CurrentAt(j, o)',
               \A i \in DOMAIN events' : j < i => ~CurrentAt(i, o)'
        PROVE  events'[j].mode = inMode'[o]
    BY <1>3, <2>2, <2>3, <2>4, <2>5
  <2> QED
    BY <2>2, <2>4, <2>5 DEF CurrentOf
<1>5. CASE inMode'[o] = inMode[o] /\ CurrentOf(o)
  <2>1. ASSUME NEW k \in DOMAIN events', CurrentAt(k, o)',
               \A j \in DOMAIN events' : k < j => ~CurrentAt(j, o)'
        PROVE  events'[k].mode = inMode'[o]
    <3>1. CASE k \in DOMAIN events
      <4>1. CurrentAt(k, o) /\ \A j \in DOMAIN events : k < j => ~CurrentAt(j, o)
        BY <1>1, <1>2, <2>1, <3>1
      <4> QED
        BY <1>1, <1>5, <3>1, <4>1 DEF CurrentOf
    <3> QED
      BY <1>3, <2>1, <3>1
  <2>2. ASSUME \A k \in DOMAIN events' : ~CurrentAt(k, o)'
        PROVE  currentMode'[o] = inMode'[o]
    BY <1>1, <1>2, <1>5, <2>2 DEF CurrentOf
  <2> QED
    BY <2>1, <2>2 DEF CurrentOf
<1> QED
  BY <1>4, <1>5

\* What is sent, unless it is about modes.
LEMMA QuietlySent ==
  ASSUME events \in Seq(Event), NEW news, Sent(news), NoneInv, ListInv, NewInv, CurrentInv,
         \A k \in DOMAIN news :
           /\ news[k].type # "mode"
           /\ news[k].type \in {"enter", "leave"} => output[news[k].output] # "none",
         UNCHANGED <<inMode, output, modes, currentMode, outputs, undefined>>, gone \subseteq gone'
  PROVE  NoneInv' /\ ListInv' /\ NewInv' /\ CurrentInv'
<1>1. NoneInv'
  BY NoneSent
<1>2. NewInv'
  BY NewSent
<1>3. ListInv'
  BY DEF ListInv
<1>4. ASSUME NEW o \in OutputIds, CurrentOf(o) PROVE CurrentOf(o)'
  BY <1>4, CurrentSent
<1>5. CurrentInv'
  BY <1>4 DEF CurrentInv
<1> QED
  BY <1>1, <1>2, <1>3, <1>5

-----------------------------------------------------------------------------
\* Types of what is a list without m, and with m at its end.
OnceEach(list) == \A j, k \in DOMAIN list : list[j].mode = list[k].mode => j = k

LEMMA OthersFacts ==
  ASSUME NEW list \in Seq(Entry), OnceEach(list), NEW m, ~WalkLosesEnd(list, m)
  PROVE  \E d \in {0, 1} :
           /\ d <= Len(list)
           /\ Others(list, m) = SubSeq(list, d + 1, Len(list))
           /\ \A i \in DOMAIN list : list[i].mode = m <=> i <= d
<1> DEFINE Erased(n) == /\ \A k \in 1 .. n : list[k].mode = m
                        /\ n < Len(list) => list[n + 1].mode # m
           d == IF 1 \in DOMAIN list /\ list[1].mode = m THEN 1 ELSE 0
<1>1. DOMAIN list = 1 .. Len(list) /\ Len(list) \in Nat
  BY SeqDomain
<1>2. d \in {0, 1} /\ d <= Len(list) /\ d \in 0 .. Len(list)
  BY <1>1
<1>3. \A i \in DOMAIN list : list[i].mode = m <=> i <= d
  <2>1. ASSUME NEW i \in DOMAIN list, list[i].mode = m PROVE i = 1
    <3>1. \A j \in 1 .. i - 1 : list[j].mode = m
      BY <2>1 DEF WalkLosesEnd
    <3>2. i # 1 => 1 \in 1 .. i - 1 /\ 1 \in DOMAIN list
      BY <1>1
    <3> QED
      BY <2>1, <3>1, <3>2 DEF OnceEach
  <2> QED
    BY <1>1, <2>1
<1>4. Erased(d)
  BY <1>1, <1>2, <1>3
<1>5. ASSUME NEW n \in 0 .. Len(list), Erased(n) PROVE n = d
  <2>1. n = 0 => d = 0
    BY <1>1, <1>5
  <2>2. n >= 1 => n = 1 /\ d = 1
    <3>1. n >= 1 => 1 \in DOMAIN list /\ list[1].mode = m
      BY <1>1, <1>5
    <3>2. n >= 2 => 2 \in DOMAIN list /\ list[2].mode = m
      BY <1>1, <1>5
    <3> QED
      BY <1>1, <3>1, <3>2 DEF OnceEach
  <2> QED
    BY <1>1, <2>1, <2>2
<1> HIDE DEF d
<1>6. (CHOOSE n \in 0 .. Len(list) : Erased(n)) = d
  BY <1>2, <1>4, <1>5
<1>7. Others(list, m) = SubSeq(list, d + 1, Len(list))
  BY <1>6 DEF Others
<1> QED
  BY <1>2, <1>3, <1>7

LEMMA SuffixFacts ==
  ASSUME NEW S, NEW s \in Seq(S), NEW d \in Nat, d + 1 \in 1 .. Len(s) + 1
  PROVE  /\ SubSeq(s, d + 1, Len(s)) \in Seq(S) /\ Len(SubSeq(s, d + 1, Len(s))) = Len(s) - d
         /\ \A k \in 1 .. Len(s) - d : SubSeq(s, d + 1, Len(s))[k] = s[k + d]
OBVIOUS

\* The list that addMode leaves.
LEMMA WithModeFacts ==
  ASSUME NEW list \in Seq(Entry), OnceEach(list), NEW m \in Modes, NEW c \in BOOLEAN,
         IF c THEN ~WalkLosesEnd(list, m) ELSE \A i \in DOMAIN list : list[i].mode # m,
         NEW r, r = WithMode(list, m, c)
  PROVE  /\ r \in Seq(Entry) /\ OnceEach(r)
         /\ \E n \in DOMAIN r :
              /\ r[n] = [mode |-> m, current |-> c]
              /\ \A k \in DOMAIN r : k # n =>
                   \E i \in DOMAIN list : /\ r[k].mode = list[i].mode /\ list[i].mode # m
                                          /\ r[k].current = (~c /\ list[i].current)
         /\ ~c => \A i \in DOMAIN list : i \in DOMAIN r /\ r[i] = list[i]
<1> DEFINE others == Others(list, m)
           kept == IF c THEN [k \in DOMAIN others |-> [others[k] EXCEPT !.current = FALSE]]
                        ELSE list
           last == [mode |-> m, current |-> c]
<1>1. DOMAIN list = 1 .. Len(list) /\ Len(list) \in Nat
  BY SeqDomain
<1>2. PICK d \in {0, 1} :
        /\ d <= Len(list)
        /\ kept \in Seq(Entry) /\ Len(kept) = Len(list) - d
        /\ \A k \in 1 .. Len(list) - d :
             kept[k].mode = list[k + d].mode /\ kept[k].current = (~c /\ list[k + d].current)
        /\ \A k \in 1 .. Len(list) - d : list[k + d].mode # m
        /\ ~c => d = 0 /\ kept = list
  <2>1. CASE c
    <3>1. PICK d \in {0, 1} :
            /\ d <= Len(list)
            /\ Others(list, m) = SubSeq(list, d + 1, Len(list))
            /\ \A i \in DOMAIN list : list[i].mode = m <=> i <= d
      BY <2>1, OthersFacts
    <3> DEFINE part == SubSeq(list, d + 1, Len(list))
    <3>2. /\ part \in Seq(Entry) /\ Len(part) = Len(list) - d
          /\ \A k \in 1 .. Len(list) - d : part[k] = list[k + d]
      <4>1. d \in Nat /\ d + 1 <= Len(list) + 1 /\ d + 1 \in 1 .. Len(list) + 1
        BY <1>1, <3>1
      <4> QED
        BY <1>1, <4>1, SuffixFacts
    <3> HIDE DEF part
    <3>3. DOMAIN part = 1 .. Len(list) - d /\ \A k \in DOMAIN part : part[k] \in Entry
      BY <3>2, SeqDomain, Element
    <3>4. kept = [k \in 1 .. Len(list) - d |-> [part[k] EXCEPT !.current = FALSE]]
      BY <2>1, <3>1, <3>3 DEF part
    <3> HIDE DEF kept
    <3>5. \A k \in 1 .. Len(list) - d : kept[k] = [part[k] EXCEPT !.current = FALSE]
      BY <3>4
    <3>6. \A k \in 1 .. Len(list) - d :
            kept[k] \in Entry /\ kept[k].mode = part[k].mode /\ kept[k].current = FALSE
      BY <3>3, <3>5 DEF Entry
    <3>7. Len(list) - d \in Nat
      BY <1>1, <3>1
    <3>8. kept \in Seq(Entry) /\ Len(kept) = Len(list) - d
      BY <3>4, <3>6, <3>7
    <3>9. \A k \in 1 .. Len(list) - d : list[k + d].mode # m
      BY <1>1, <3>1
    <3> QED
      BY <2>1, <3>1, <3>2, <3>6, <3>8, <3>9
  <2>2. CASE ~c
    <3>1. kept = list
      BY <2>2
    <3>2. \A k \in 1 .. Len(list) : list[k].mode # m /\ k + 0 = k
      BY <1>1, <2>2
    <3>3. /\ 0 \in {0, 1} /\ 0 <= Len(list) /\ Len(list) - 0 = Len(list)
          /\ \A k \in 1 .. Len(list) : list[k].current \in BOOLEAN
      <4>1. \A k \in 1 .. Len(list) : list[k] \in Entry
        BY <1>1, Element
      <4> QED
        BY <1>1, <4>1 DEF Entry
    <3> HIDE DEF kept
    <3>4. \A k \in 1 .. Len(list) - 0 :
            /\ kept[k].mode = list[k + 0].mode /\ kept[k].current = (~c /\ list[k + 0].current)
            /\ list[k + 0].mode # m
      BY <2>2, <3>1, <3>2, <3>3
    <3> QED
      BY <2>2, <3>1, <3>3, <3>4
  <2> QED
    BY <2>1, <2>2
<1>3. r = kept \o <<last>>
  BY DEF WithMode
<1> HIDE DEF kept, others
<1>4. last \in Entry /\ last.mode = m /\ last.current = c
  BY DEF Entry
<1> HIDE DEF last
<1> DEFINE n == Len(list) - d + 1
<1>5. /\ r \in Seq(Entry) /\ DOMAIN r = 1 .. n /\ r[n] = last
      /\ \A k \in 1 .. n - 1 : r[k] = kept[k]
      /\ n - 1 = Len(list) - d /\ n \in Nat \ {0}
  <2>1. r = Append(kept, last)
    <3>1. <<last>> \in Seq(Entry) /\ DOMAIN <<last>> = {1} /\ <<last>>[1] = last
      BY <1>4
    <3> QED
      BY <1>2, <1>3, <3>1, ConcatOne
  <2>2. n = Len(kept) + 1 /\ Len(kept) \in Nat
    BY <1>1, <1>2
  <2> HIDE DEF n
  <2>3. /\ r \in Seq(Entry) /\ DOMAIN r = 1 .. n /\ r[n] = last
        /\ \A k \in 1 .. n - 1 : r[k] = kept[k]
    BY <1>2, <1>4, <2>1, <2>2
  <2> QED
    BY <1>2, <2>2, <2>3
<1> HIDE DEF n
<1>6. ASSUME NEW k \in DOMAIN r, k # n
      PROVE  /\ k \in 1 .. Len(list) - d /\ k + d \in DOMAIN list /\ r[k].mode = list[k + d].mode
             /\ list[k + d].mode # m /\ r[k].current = (~c /\ list[k + d].current)
  <2>1. k \in 1 .. n - 1 /\ k \in 1 .. Len(list) - d
    BY <1>5, <1>6
  <2>2. r[k] = kept[k] /\ k + d \in DOMAIN list
    BY <1>1, <1>2, <1>5, <2>1
  <2> QED
    BY <1>2, <2>1, <2>2
<1>7. OnceEach(r)
  <2> SUFFICES ASSUME NEW j \in DOMAIN r, NEW k \in DOMAIN r, r[j].mode = r[k].mode PROVE j = k
    BY DEF OnceEach
  <2>1. CASE j # n /\ k # n
    <3>1. j + d = k + d
      BY <1>6, <2>1 DEF OnceEach
    <3> QED
      BY <1>5, <3>1
  <2>2. CASE j = n \/ k = n
    BY <1>4, <1>5, <1>6, <2>2
  <2> QED
    BY <2>1, <2>2
<1>8. n \in DOMAIN r /\ r[n] = [mode |-> m, current |-> c]
  BY <1>5 DEF last
<1>9. ~c => \A i \in DOMAIN list : i \in DOMAIN r /\ r[i] = list[i]
  BY <1>1, <1>2, <1>5
<1> QED
  BY <1>5, <1>6, <1>7, <1>8, <1>9


\* What is taken, and the parts of the invariant.
LEMMA NoneTaken ==
  ASSUME events \in Seq(Event), events # <<>>, events' = Tail(events), NoneInv,
         \A o \in OutputIds : output'[o] = "none" =>
           /\ output[o] = "none" /\ modes'[o] = modes[o] /\ currentMode'[o] = currentMode[o]
           /\ o \in ToSet(outputs') => o \in ToSet(outputs)
  PROVE  NoneInv'
<1>1. \A k \in DOMAIN events' : k + 1 \in DOMAIN events /\ events'[k] = events[k + 1]
  BY TailIndices
<1>2. ToSet(outputs)' = ToSet(outputs')
  BY DEF ToSet
<1> QED
  BY <1>1, <1>2 DEF NoneInv

LEMMA NewTaken ==
  ASSUME events \in Seq(Event), events # <<>>, events' = Tail(events), NewInv,
         \A k \in DOMAIN events : k # 1 /\ events[k].type = "mode" /\ ~events[k].current =>
           \A i \in DOMAIN modes'[events[k].output] :
             modes'[events[k].output][i].mode # events[k].mode
  PROVE  NewInv'
<1>1. \A k \in DOMAIN events' : /\ k + 1 \in DOMAIN events /\ k + 1 # 1 /\ k \in Nat
                                /\ events'[k] = events[k + 1]
  BY TailIndices
<1>2. ASSUME NEW k \in DOMAIN events', events'[k].type = "mode", ~events'[k].current
      PROVE  /\ \A i \in DOMAIN modes'[events'[k].output] :
                  modes'[events'[k].output][i].mode # events'[k].mode
             /\ \A j \in DOMAIN events' :
                  j < k /\ events'[j].type = "mode" /\ events'[j].output = events'[k].output
                    => events'[j].mode # events'[k].mode
  <2>1. /\ \A j \in DOMAIN events :
             j < k + 1 /\ events[j].type = "mode" /\ events[j].output = events[k + 1].output
               => events[j].mode # events[k + 1].mode
    BY <1>1, <1>2 DEF NewInv
  <2>2. \A j \in DOMAIN events' : j < k => j + 1 < k + 1
    BY <1>1
  <2>3. \A i \in DOMAIN modes'[events[k + 1].output] :
          modes'[events[k + 1].output][i].mode # events[k + 1].mode
    BY <1>1, <1>2
  <2>4. ASSUME NEW j \in DOMAIN events', j < k, events'[j].type = "mode",
               events'[j].output = events'[k].output
        PROVE  events'[j].mode # events'[k].mode
    BY <1>1, <2>1, <2>2, <2>4
  <2> QED
    BY <1>1, <1>2, <2>3, <2>4
<1> QED
  BY <1>2 DEF NewInv

LEMMA CurrentTaken ==
  ASSUME events \in Seq(Event), events # <<>>, events' = Tail(events),
         NEW o \in OutputIds, CurrentOf(o), UNCHANGED inMode,
         currentMode'[o] = IF CurrentAt(1, o) THEN events[1].mode ELSE currentMode[o]
  PROVE  CurrentOf(o)'
<1>1. /\ 1 \in DOMAIN events
      /\ \A k \in DOMAIN events' : /\ k + 1 \in DOMAIN events /\ events'[k] = events[k + 1]
                                   /\ k + 1 # 1 /\ k \in Nat
      /\ \A k \in DOMAIN events : k # 1 =>
           k - 1 \in DOMAIN events' /\ events'[k - 1] = events[k] /\ k = (k - 1) + 1
      /\ \A k \in DOMAIN events : k \in Nat \ {0}
  BY TailIndices, SeqDomain
<1>2. \A k \in DOMAIN events' : CurrentAt(k, o)' <=> CurrentAt(k + 1, o)
  BY <1>1 DEF CurrentAt
<1>3. ASSUME NEW k \in DOMAIN events', CurrentAt(k, o)',
             \A j \in DOMAIN events' : k < j => ~CurrentAt(j, o)'
      PROVE  events'[k].mode = inMode'[o]
  <2>1. ASSUME NEW j \in DOMAIN events, k + 1 < j PROVE ~CurrentAt(j, o)
    <3>1. j - 1 \in DOMAIN events' /\ k < j - 1 /\ (j - 1) + 1 = j
      BY <1>1, <2>1
    <3>2. PICK i \in DOMAIN events' : i = j - 1
      BY <3>1
    <3>3. k < i /\ i + 1 = j
      BY <3>1, <3>2
    <3> QED
      BY <1>2, <1>3, <3>3
  <2>2. CurrentAt(k + 1, o)
    BY <1>2, <1>3
  <2> QED
    BY <1>1, <2>1, <2>2 DEF CurrentOf
<1>4. ASSUME \A k \in DOMAIN events' : ~CurrentAt(k, o)'
      PROVE  currentMode'[o] = inMode'[o]
  <2>1. ASSUME NEW j \in DOMAIN events, j # 1 PROVE ~CurrentAt(j, o)
    <3>1. PICK i \in DOMAIN events' : i = j - 1 /\ i + 1 = j
      BY <1>1, <2>1
    <3> QED
      BY <1>2, <1>4, <3>1
  <2>2. CASE CurrentAt(1, o)
    <3>1. \A j \in DOMAIN events : 1 < j => ~CurrentAt(j, o)
      BY <2>1
    <3> QED
      BY <1>1, <2>2, <3>1 DEF CurrentOf
  <2>3. CASE ~CurrentAt(1, o)
    BY <2>1, <2>3 DEF CurrentOf
  <2> QED
    BY <2>2, <2>3
<1> QED
  BY <1>3, <1>4 DEF CurrentOf

\* The handlers, unless a mode is taken.
LEMMA QuietlyTaken ==
  ASSUME events \in Seq(Event), NEW t, Takes(t), t # "mode", NoneInv, ListInv, NewInv, CurrentInv,
         undefined = "no", UNCHANGED <<inMode, gone, modes, currentMode>>,
         \A o \in OutputIds : /\ output'[o] \in {"none", "bound"} => output[o] = output'[o]
                              /\ output'[o] = "none" /\ o \in ToSet(outputs') => o \in ToSet(outputs)
  PROVE  NoneInv' /\ ListInv' /\ NewInv' /\ CurrentInv'
<1>1. events # <<>> /\ events' = Tail(events) /\ events[1].type = t
  BY TailIndices DEF Takes
<1>2. NoneInv'
  BY <1>1, NoneTaken
<1>3. NewInv'
  BY <1>1, NewTaken DEF NewInv
<1>4. ListInv'
  BY DEF ListInv
<1>5. CurrentInv'
  <2>1. \A o : ~CurrentAt(1, o)
    BY <1>1 DEF CurrentAt
  <2>2. ASSUME NEW o \in OutputIds, CurrentOf(o) PROVE CurrentOf(o)'
    BY <1>1, <2>1, <2>2, CurrentTaken
  <2> QED
    BY <2>2 DEF CurrentInv
<1> QED
  BY <1>2, <1>3, <1>4, <1>5

LEMMA addModeKeeps ==
  ASSUME WireInv, ModesInv, undefined = "no", addMode
  PROVE  ModesInv'
<1> DEFINE e == events[1]
           o == events[1].output
           list == modes[o]
<1>1. /\ events \in Seq(Event) /\ events # <<>> /\ events' = Tail(events)
      /\ Head(events) = e /\ e.type = "mode" /\ 1 \in DOMAIN events /\ e \in Event
  BY TailIndices, Element DEF WireInv, addMode, Takes
<1>2. o \in OutputIds /\ e.mode \in Modes /\ e.current \in BOOLEAN
  BY <1>1, EventFacts
<1>3. UNCHANGED <<gone, inMode, on, changes, output, outputs>>
  BY DEF addMode, serverVars, surfaceVars
<1>4. CASE UNCHANGED <<modes, currentMode>> /\ (undefined' = "modes" \/ (o \notin Proxies /\ UNCHANGED undefined))
  <2>1. TypesInv'
    BY <1>3, <1>4 DEF ModesInv, TypesInv
  <2>2. NoneInv'
    BY <1>1, <1>3, <1>4, NoneTaken DEF ModesInv
  <2>3. NewInv'
    BY <1>1, <1>4, NewTaken DEF ModesInv, NewInv
  <2>4. ListInv'
    BY <1>4 DEF ModesInv, ListInv
  <2>5. ASSUME NEW p \in OutputIds, output[p] = "bound", o \notin Proxies, CurrentOf(p)
        PROVE  CurrentOf(p)'
    <3>1. ~CurrentAt(1, p)
      BY <2>5 DEF CurrentAt, Proxies
    <3> QED
      BY <1>1, <1>3, <1>4, <2>5, <3>1, CurrentTaken
  <2>6. CurrentInv'
    BY <1>3, <1>4, <2>5 DEF ModesInv, CurrentInv
  <2> QED
    BY <2>1, <2>2, <2>3, <2>4, <2>6 DEF ModesInv
<1>5. CASE /\ o \in Proxies /\ ~(e.current /\ WalkLosesEnd(modes[o], e.mode)) /\ UNCHANGED undefined
           /\ modes' = [modes EXCEPT ![o] = WithMode(@, e.mode, e.current)]
           /\ currentMode' = [currentMode EXCEPT ![o] = IF e.current THEN e.mode ELSE @]
  <2> DEFINE r == WithMode(list, e.mode, e.current)
  <2>1. /\ list \in Seq(Entry) /\ OnceEach(list)
        /\ modes'[o] = r /\ currentMode'[o] = IF e.current THEN e.mode ELSE currentMode[o]
        /\ \A p \in OutputIds : p # o => modes'[p] = modes[p] /\ currentMode'[p] = currentMode[p]
    BY <1>2, <1>5 DEF ModesInv, TypesInv, ListInv, OnceEach
  <2>2. ~e.current => \A i \in DOMAIN list : list[i].mode # e.mode
    BY <1>1 DEF ModesInv, NewInv
  <2>3. IF e.current THEN ~WalkLosesEnd(list, e.mode) ELSE \A i \in DOMAIN list : list[i].mode # e.mode
    BY <1>5, <2>2
  <2>4. /\ r \in Seq(Entry) /\ OnceEach(r)
        /\ \E n \in DOMAIN r :
              /\ r[n] = [mode |-> e.mode, current |-> e.current]
              /\ \A k \in DOMAIN r : k # n =>
                   \E i \in DOMAIN list : /\ r[k].mode = list[i].mode /\ list[i].mode # e.mode
                                          /\ r[k].current = (~e.current /\ list[i].current)
        /\ ~e.current => \A i \in DOMAIN list : i \in DOMAIN r /\ r[i] = list[i]
    <3> DEFINE m == e.mode
               c == e.current
    <3>1. m \in Modes /\ c \in BOOLEAN /\ list \in Seq(Entry) /\ OnceEach(list)
      BY <1>2, <2>1
    <3>2. IF c THEN ~WalkLosesEnd(list, m) ELSE \A i \in DOMAIN list : list[i].mode # m
      BY <2>3
    <3>3. r = WithMode(list, m, c)
      OBVIOUS
    <3> HIDE DEF list, m, c, r
    <3>4. /\ r \in Seq(Entry) /\ OnceEach(r)
          /\ \E n \in DOMAIN r :
              /\ r[n] = [mode |-> m, current |-> c]
              /\ \A k \in DOMAIN r : k # n =>
                   \E i \in DOMAIN list : /\ r[k].mode = list[i].mode /\ list[i].mode # m
                                          /\ r[k].current = (~c /\ list[i].current)
          /\ ~c => \A i \in DOMAIN list : i \in DOMAIN r /\ r[i] = list[i]
      BY <3>1, <3>2, <3>3, WithModeFacts
    <3> QED
      BY <3>4 DEF m, c
  <2>5. PICK n \in DOMAIN r :
              /\ r[n] = [mode |-> e.mode, current |-> e.current]
              /\ \A k \in DOMAIN r : k # n =>
                   \E i \in DOMAIN list : /\ r[k].mode = list[i].mode /\ list[i].mode # e.mode
                                          /\ r[k].current = (~e.current /\ list[i].current)
    BY <2>4
  <2> HIDE DEF r
  <2>6. TypesInv'
    BY <1>2, <1>3, <1>5, <2>1, <2>4 DEF ModesInv, TypesInv
  <2>7. output[o] # "none"
    BY <1>5 DEF Proxies
  <2>8. NoneInv'
    BY <1>1, <1>3, <2>1, <2>7, NoneTaken DEF ModesInv
  <2>9. ASSUME NEW k \in DOMAIN events, k # 1, events[k].type = "mode", ~events[k].current,
               NEW i \in DOMAIN modes'[events[k].output]
        PROVE  modes'[events[k].output][i].mode # events[k].mode
    <3>1. /\ events[k].output \in OutputIds
      BY <1>1, <2>9, Element, EventFacts
    <3>2. CASE events[k].output # o
      BY <2>1, <2>9, <3>1, <3>2 DEF ModesInv, NewInv
    <3>3. CASE events[k].output = o
      <4>1. k > 1
        BY <1>1, <2>9, SeqDomain
      <4>2. e.mode # events[k].mode
        BY <1>1, <2>9, <3>3, <4>1 DEF ModesInv, NewInv
      <4>3. \A j \in DOMAIN list : list[j].mode # events[k].mode
        BY <2>9, <3>3 DEF ModesInv, NewInv
      <4> QED
        BY <2>1, <2>5, <2>9, <3>3, <4>2, <4>3
    <3> QED
      BY <3>2, <3>3
  <2>10. NewInv'
    BY <1>1, <2>9, NewTaken DEF ModesInv
  <2>11. ListInv'
    <3>1. \A k \in DOMAIN list : list[k].current <=> list[k].mode = currentMode[o]
      BY <1>2 DEF ModesInv, ListInv
    <3>2. currentMode[o] # 0 => \E k \in DOMAIN list : list[k].mode = currentMode[o]
      BY <1>2 DEF ModesInv, ListInv
    <3>3. \A k \in DOMAIN r : r[k].current <=> r[k].mode = currentMode'[o]
      <4> SUFFICES ASSUME NEW k \in DOMAIN r
                   PROVE  r[k].current <=> r[k].mode = currentMode'[o]
        OBVIOUS
      <4>1. CASE k = n
        <5>1. r[k].mode = e.mode /\ r[k].current = e.current
          BY <2>5, <4>1
        <5>2. CASE e.current
          BY <2>1, <5>1, <5>2
        <5>3. CASE ~e.current
          <6>1. currentMode'[o] = currentMode[o] /\ e.mode # currentMode[o]
            BY <1>2, <2>1, <2>2, <3>2, <5>3 DEF Modes
          <6> QED
            BY <5>1, <5>3, <6>1
        <5> QED
          BY <5>2, <5>3
      <4>2. CASE k # n
        <5>1. PICK i \in DOMAIN list : /\ r[k].mode = list[i].mode /\ list[i].mode # e.mode
                                       /\ r[k].current = (~e.current /\ list[i].current)
          BY <2>5, <4>2
        <5> QED
          BY <2>1, <3>1, <5>1
      <4> QED
        BY <4>1, <4>2
    <3>4. currentMode'[o] # 0 => \E k \in DOMAIN r : r[k].mode = currentMode'[o]
      <4>1. CASE e.current
        <5>1. r[n].mode = currentMode'[o]
          BY <2>1, <2>5, <4>1
        <5> QED
          BY <5>1
      <4>2. CASE ~e.current
        BY <2>1, <2>4, <3>2, <4>2
      <4> QED
        BY <4>1, <4>2
    <3>5. \A p \in OutputIds : p # o =>
            /\ OnceEach(modes'[p])
            /\ \A k \in DOMAIN modes'[p] : modes'[p][k].current <=> modes'[p][k].mode = currentMode'[p]
            /\ currentMode'[p] # 0 => \E k \in DOMAIN modes'[p] : modes'[p][k].mode = currentMode'[p]
      BY <2>1 DEF ModesInv, ListInv, OnceEach
    <3> HIDE DEF list, o, e
    <3>6. \A p \in OutputIds :
            /\ OnceEach(modes'[p])
            /\ \A k \in DOMAIN modes'[p] : modes'[p][k].current <=> modes'[p][k].mode = currentMode'[p]
            /\ currentMode'[p] # 0 => \E k \in DOMAIN modes'[p] : modes'[p][k].mode = currentMode'[p]
      BY <2>1, <2>4, <3>3, <3>4, <3>5
    <3> QED
      BY <3>6 DEF ListInv, OnceEach
  <2>12. ASSUME NEW p \in OutputIds, CurrentOf(p) PROVE CurrentOf(p)'
    <3>1. currentMode'[p] = IF CurrentAt(1, p) THEN events[1].mode ELSE currentMode[p]
      BY <1>1, <2>1 DEF CurrentAt
    <3> QED
      BY <1>1, <1>3, <2>12, <3>1, CurrentTaken
  <2>13. CurrentInv'
    BY <1>3, <1>5, <2>12 DEF ModesInv, CurrentInv
  <2> QED
    BY <2>6, <2>8, <2>10, <2>11, <2>13 DEF ModesInv
<1>6. \/ UNCHANGED <<modes, currentMode>> /\ (undefined' = "modes" \/ (o \notin Proxies /\ UNCHANGED undefined))
      \/ /\ o \in Proxies /\ ~(e.current /\ WalkLosesEnd(modes[o], e.mode)) /\ UNCHANGED undefined
         /\ modes' = [modes EXCEPT ![o] = WithMode(@, e.mode, e.current)]
         /\ currentMode' = [currentMode EXCEPT ![o] = IF e.current THEN e.mode ELSE @]
  <2> DEFINE lost == e.current /\ WalkLosesEnd(modes[o], e.mode)
  <2>1. CASE o \notin Proxies
    BY <1>1, <2>1 DEF addMode
  <2>2. CASE o \in Proxies /\ lost
    BY <1>1, <2>2 DEF addMode
  <2>3. CASE o \in Proxies /\ ~lost
    BY <1>1, <2>3 DEF addMode
  <2> QED
    BY <2>1, <2>2, <2>3
<1> QED
  BY <1>4, <1>5, <1>6


\* What unplugging says, and what the creation of an Output brings about.
LEMMA UnplugSays ==
  ASSUME WireInv, NEW o \in OutputIds, NEW leaves \in BOOLEAN, Unplug(o, leaves)
  PROVE  \E news :
           /\ Sent(news)
           /\ \A k \in DOMAIN news : /\ news[k] \in {LeaveEvent(o), RemoveEvent(o)}
                                     /\ news[k] = LeaveEvent(o) => o \in Proxies
           /\ \E n \in DOMAIN news : \A k \in DOMAIN news : news[k] = RemoveEvent(o) <=> k = n
<1>1. RemoveEvent(o) # LeaveEvent(o) /\ RemoveEvent(o) \in Event /\ LeaveEvent(o) \in Event
  BY EventFields, EventTypes
<1>2. CASE leaves /\ o \in on \intersect Proxies
  <2> DEFINE news == <<LeaveEvent(o), RemoveEvent(o)>>
  <2>1. events' = Append(events, LeaveEvent(o)) \o <<RemoveEvent(o)>>
    BY <1>2 DEF Unplug
  <2>2. Append(events, LeaveEvent(o)) \o <<RemoveEvent(o)>> = events \o news
    BY <1>1 DEF WireInv
  <2>3. news \in Seq(Event) /\ DOMAIN news = {1, 2} /\ news[1] = LeaveEvent(o) /\ news[2] = RemoveEvent(o)
    BY <1>1
  <2>4. Sent(news)
    BY <2>1, <2>2, <2>3 DEF Sent
  <2> HIDE DEF news
  <2> QED
    BY <1>1, <1>2, <2>3, <2>4
<1>3. CASE ~(leaves /\ o \in on \intersect Proxies)
  <2> DEFINE news == <<RemoveEvent(o)>>
  <2>1. events' = events \o news
    BY <1>3 DEF Unplug
  <2>2. news \in Seq(Event) /\ DOMAIN news = {1} /\ news[1] = RemoveEvent(o)
    BY <1>1
  <2>3. Sent(news)
    BY <2>1, <2>2 DEF Sent
  <2> HIDE DEF news
  <2> QED
    BY <1>1, <2>2, <2>3
<1> QED
  BY <1>2, <1>3

\* What is sent about an Output that is created: each mode once and which one
\* is current, and whether the surface is on it.
Announced(news, o) ==
  /\ Sent(news)
  /\ \A k \in DOMAIN news : news[k].output = o /\ news[k].type \in {"mode", "enter"}
  /\ \A k \in DOMAIN news : news[k].type = "mode" =>
       /\ news[k].current <=> news[k].mode = inMode[o]
       /\ \A j \in DOMAIN news :
            j < k /\ news[j].type = "mode" => news[j].mode # news[k].mode
  /\ o \notin gone => \E k \in DOMAIN news : news[k].type = "mode" /\ news[k].mode = inMode[o]
  /\ (o \in on \ gone) <=> \E k \in DOMAIN news : news[k].type = "enter"
  /\ \A j, k \in DOMAIN news :
       news[j].type = "enter" /\ news[k].type = "enter" => j = k

LEMMA CreateOutputSays ==
  ASSUME WireInv, NEW o \in OutputIds, NEW all \in BOOLEAN, CreateOutput(o, all)
  PROVE  \E news : Announced(news, o)
<1> DEFINE list == IF all THEN [m \in Modes |-> m] ELSE <<inMode[o]>>
           first == [k \in DOMAIN list |-> ModeEvent(o, list[k], list[k] = inMode[o])]
           both == Append(first, EnterEvent(o))
<1>1. /\ list \in Seq(Modes) /\ \A j, k \in DOMAIN list : list[j] = list[k] => j = k
      /\ \E k \in DOMAIN list : list[k] = inMode[o]
  <2>1. inMode[o] \in Modes /\ <<inMode[o]>> \in Seq(Modes)
    BY DEF WireInv
  <2>2. [m \in Modes |-> m] \in Seq(Modes)
    BY ModeCountType DEF Modes
  <2>3. DOMAIN <<inMode[o]>> = {1} /\ <<inMode[o]>>[1] = inMode[o]
    OBVIOUS
  <2>4. CASE all
    BY <2>1, <2>2, <2>4
  <2>5. CASE ~all
    BY <2>1, <2>3, <2>5
  <2> QED
    BY <2>4, <2>5
<1>2. events' = IF o \in gone THEN events ELSE events \o (IF o \in on THEN both ELSE first)
  BY DEF CreateOutput
<1> HIDE DEF list
<1>3. \A k \in DOMAIN list : /\ list[k] \in Modes /\ (list[k] = inMode[o]) \in BOOLEAN
  BY <1>1, Element
<1>4. \A k \in DOMAIN list : ModeEvent(o, list[k], list[k] = inMode[o]) \in Event
  BY <1>3, EventTypes
<1>5. /\ first \in Seq(Event) /\ DOMAIN first = DOMAIN list
      /\ \A k \in DOMAIN first : first[k] = ModeEvent(o, list[k], list[k] = inMode[o])
  <2>1. DOMAIN list = 1 .. Len(list) /\ Len(list) \in Nat
    BY <1>1, SeqDomain
  <2> QED
    BY <1>4, <2>1
<1> HIDE DEF first
<1>6. \A k \in DOMAIN first : /\ first[k].type = "mode" /\ first[k].output = o
                              /\ first[k].mode = list[k] /\ first[k].current = (list[k] = inMode[o])
  BY <1>5, EventFields
<1>7. /\ both \in Seq(Event) /\ DOMAIN both = DOMAIN first \union {Len(first) + 1}
      /\ Len(first) + 1 \notin DOMAIN first /\ both[Len(first) + 1] = EnterEvent(o)
      /\ \A k \in DOMAIN first : both[k] = first[k]
  BY <1>5, EventTypes
<1>8. EnterEvent(o).type = "enter" /\ EnterEvent(o).output = o
  BY EventFields
<1> HIDE DEF both
<1>9. CASE o \in gone
  <2>1. Sent(<<>>) /\ DOMAIN <<>> = {}
    BY <1>2, <1>9, NothingSent DEF WireInv
  <2> QED
    BY <1>9, <2>1 DEF Announced
<1>10. \A j, k \in DOMAIN first : j < k => first[j].mode # first[k].mode
  <2>1. DOMAIN list = 1 .. Len(list) /\ Len(list) \in Nat
    BY <1>1, SeqDomain
  <2> QED
    BY <1>1, <1>5, <1>6, <2>1
<1>11. CASE o \notin gone /\ o \notin on
  <2>1. Sent(first)
    BY <1>2, <1>5, <1>11 DEF Sent
  <2>2. \E k \in DOMAIN first : first[k].type = "mode" /\ first[k].mode = inMode[o]
    BY <1>1, <1>5, <1>6
  <2>3. \A k \in DOMAIN first :
          /\ first[k].output = o /\ first[k].type = "mode" /\ first[k].type # "enter"
          /\ first[k].current <=> first[k].mode = inMode[o]
    BY <1>5, <1>6
  <2> QED
    BY <1>10, <1>11, <2>1, <2>2, <2>3 DEF Announced
<1>12. CASE o \notin gone /\ o \in on
  <2>1. Sent(both)
    BY <1>2, <1>7, <1>12 DEF Sent
  <2>2. \E k \in DOMAIN both : both[k].type = "mode" /\ both[k].mode = inMode[o]
    BY <1>1, <1>5, <1>6, <1>7
  <2>3. \A k \in DOMAIN both : both[k].type = "mode" => k \in DOMAIN first
    BY <1>7, <1>8
  <2>4. \A k \in DOMAIN both : both[k].type = "enter" <=> k = Len(first) + 1
    BY <1>6, <1>7, <1>8
  <2>5. \A k \in DOMAIN both : both[k].output = o /\ both[k].type \in {"mode", "enter"}
    BY <1>6, <1>7, <1>8
  <2>6. \A k \in DOMAIN both : both[k].type = "mode" =>
                /\ both[k].current <=> both[k].mode = inMode[o]
                /\ \A j \in DOMAIN both :
                     j < k /\ both[j].type = "mode" => both[j].mode # both[k].mode
    <3>1. \A k \in DOMAIN first :
            both[k].mode = list[k] /\ both[k].current = (list[k] = inMode[o])
      BY <1>6, <1>7
    <3>2. \A j, k \in DOMAIN first : j < k => both[j].mode # both[k].mode
      BY <1>7, <1>10
    <3> QED
      BY <2>3, <3>1, <3>2
  <2> QED
    BY <1>7, <1>12, <2>1, <2>2, <2>4, <2>5, <2>6 DEF Announced
<1> QED
  BY <1>9, <1>11, <1>12

\* What removeOutput leaves.
LEMMA WithoutType ==
  ASSUME NEW S, NEW list \in Seq(S), NEW o
  PROVE  Without(list, o) \in Seq(S) /\ ToSet(Without(list, o)) \subseteq ToSet(list)
<1> DEFINE places == {k \in DOMAIN list : list[k] = o}
           first == CHOOSE k \in places : \A j \in places : k <= j
           t == Without(list, o)
<1>1. CASE places = {}
  BY <1>1 DEF Without
<1>2. CASE places # {}
  <2>1. first \in places
    <3>1. places \subseteq Nat
      BY SeqDomain
    <3> HIDE DEF places
    <3>2. \E k \in places : \A j \in places : k <= j
      <4>1. PICK k \in places : \A j \in places : <<j, k>> \notin OpToRel(<, Nat)
        BY <1>2, <3>1, NatLessThanWellFounded, WFMin
      <4>2. \A j \in places : ~(j < k)
        BY <3>1, <4>1 DEF OpToRel
      <4> QED
        BY <3>1, <4>2
    <3> QED
      BY <3>2
  <2>2. t = RemoveAt(list, first)
    BY <1>2 DEF Without
  <2> HIDE DEF first, t
  <2>3. /\ t \in Seq(S) /\ DOMAIN t = 1 .. Len(list) - 1
        /\ \A n \in 1 .. Len(list) - 1 : t[n] = IF n < first THEN list[n] ELSE list[n + 1]
    BY <2>1, <2>2, RemoveAtFacts
  <2>4. DOMAIN list = 1 .. Len(list) /\ Len(list) \in Nat
    BY SeqDomain
  <2>5. \A n \in DOMAIN t : t[n] \in ToSet(list)
    BY <2>3, <2>4 DEF ToSet
  <2> QED
    BY <2>3, <2>5 DEF t, ToSet
<1> QED
  BY <1>1, <1>2

LEMMA WithoutFacts ==
  ASSUME NEW S, NEW list \in Seq(S), NEW o,
         \A j, k \in DOMAIN list : list[j] = list[k] => j = k,
         NEW t, t = Without(list, o)
  PROVE  /\ ToSet(t) = ToSet(list) \ {o}
         /\ \A j, k \in DOMAIN t : t[j] = t[k] => j = k
<1> DEFINE places == {k \in DOMAIN list : list[k] = o}
           first == CHOOSE k \in places : \A j \in places : k <= j
<1>1. DOMAIN list = 1 .. Len(list) /\ Len(list) \in Nat
  BY SeqDomain
<1>2. CASE places = {}
  BY <1>2 DEF Without, ToSet
<1>3. CASE places # {}
  <2>1. PICK n : places = {n}
    BY <1>3
  <2>2. n \in DOMAIN list /\ list[n] = o /\ first = n
    BY <1>1, <2>1
  <2>3. t = RemoveAt(list, n)
    BY <1>3, <2>2 DEF Without
  <2> HIDE DEF places, first
  <2>4. /\ t \in Seq(S) /\ Len(t) = Len(list) - 1 /\ DOMAIN t = 1 .. Len(list) - 1
        /\ \A k \in 1 .. Len(list) - 1 : t[k] = IF k < n THEN list[k] ELSE list[k + 1]
    BY <2>2, <2>3, RemoveAtFacts
  <2>5. ASSUME NEW x \in ToSet(t) PROVE x \in ToSet(list) \ {o}
    <3>1. PICK k \in DOMAIN t : x = t[k]
      BY <2>5 DEF ToSet
    <3>2. PICK j \in DOMAIN list : j # n /\ x = list[j]
      <4>1. CASE k < n
        BY <1>1, <2>2, <2>4, <3>1, <4>1
      <4>2. CASE k >= n
        <5>1. k + 1 \in DOMAIN list /\ k + 1 # n /\ x = list[k + 1]
          BY <1>1, <2>2, <2>4, <3>1, <4>2
        <5> QED
          BY <5>1
      <4> QED
        BY <1>1, <2>2, <2>4, <3>1, <4>1, <4>2
    <3> QED
      BY <2>2, <3>2 DEF ToSet
  <2>6. ASSUME NEW x \in ToSet(list) \ {o} PROVE x \in ToSet(t)
    <3>1. PICK j \in DOMAIN list : j # n /\ x = list[j]
      BY <2>2, <2>6 DEF ToSet
    <3>2. CASE j < n
      BY <1>1, <2>2, <2>4, <3>1, <3>2 DEF ToSet
    <3>3. CASE j > n
      <4>1. j - 1 \in DOMAIN t /\ t[j - 1] = list[j]
        BY <1>1, <2>2, <2>4, <3>1, <3>3
      <4> QED
        BY <3>1, <4>1 DEF ToSet
    <3> QED
      BY <1>1, <2>2, <3>1, <3>2, <3>3
  <2>7. ASSUME NEW j \in DOMAIN t, NEW k \in DOMAIN t, t[j] = t[k] PROVE j = k
    <3> DEFINE place(i) == IF i < n THEN i ELSE i + 1
    <3>1. \A i \in DOMAIN t : t[i] = list[place(i)] /\ place(i) \in DOMAIN list
      BY <1>1, <2>2, <2>4
    <3>2. place(j) = place(k)
      BY <2>7, <3>1
    <3>3. j \in Nat /\ k \in Nat /\ n \in Nat
      BY <1>1, <2>2, <2>4
    <3> QED
      BY <3>2, <3>3
  <2> QED
    BY <2>5, <2>6, <2>7
<1> QED
  BY <1>2, <1>3


LEMMA ServerKeepsModes ==
  ASSUME WireInv, ModesInv, undefined = "no", ServerNext, UNCHANGED undefined
  PROVE  ModesInv'
<1> USE DEF WireInv, outputVars, surfaceVars
<1>1. /\ UNCHANGED <<output, modes, currentMode, outputs>>
      /\ gone \subseteq gone' /\ gone' \subseteq OutputIds /\ on' \subseteq OutputIds
      /\ changes' \in 0 .. MaxChanges
  <2>1. /\ UNCHANGED <<output, modes, currentMode, outputs>>
        /\ gone \subseteq gone' /\ gone' \subseteq OutputIds /\ on' \subseteq OutputIds
    BY DEF ServerNext, Move, SwitchMode, Unplug, Render, ModesInv, TypesInv
  <2>2. Change \/ changes' = changes
    BY DEF ServerNext, Move, SwitchMode, Unplug, Render
  <2>3. changes' \in 0 .. MaxChanges
    BY <2>2, OutputsAssumption DEF Change, ModesInv, TypesInv
  <2> QED
    BY <2>1, <2>3
<1>2. TypesInv'
  BY <1>1 DEF ModesInv, TypesInv
<1>3. ASSUME NEW news, Sent(news), UNCHANGED inMode,
             \A k \in DOMAIN news :
               /\ news[k].type # "mode"
               /\ news[k].type \in {"enter", "leave"} => output[news[k].output] # "none"
      PROVE  ModesInv'
  BY <1>1, <1>2, <1>3, QuietlySent DEF ModesInv
<1>4. ASSUME events' = events, UNCHANGED inMode PROVE ModesInv'
  <2>1. Sent(<<>>) /\ DOMAIN <<>> = {}
    BY <1>4, NothingSent
  <2> QED
    BY <1>3, <1>4, <2>1
<1>5. ASSUME NEW o \in OutputIds, Move(o) PROVE ModesInv'
  <2>1. UNCHANGED inMode
    BY <1>5 DEF Move
  <2>2. CASE o \notin Proxies
    BY <1>4, <1>5, <2>1, <2>2 DEF Move
  <2>3. CASE o \in Proxies
    <3>1. PICK e \in {LeaveEvent(o), EnterEvent(o)} : events' = Append(events, e)
      BY <1>5, <2>3 DEF Move
    <3>2. e \in Event /\ e.type # "mode" /\ e.output = o
      BY EventTypes, EventFields
    <3>3. Sent(<<e>>) /\ DOMAIN <<e>> = {1} /\ <<e>>[1] = e
      BY <3>1, <3>2, OneSent
    <3>4. output[o] # "none"
      BY <2>3 DEF Proxies
    <3> QED
      BY <1>3, <2>1, <3>2, <3>3, <3>4
  <2> QED
    BY <2>2, <2>3
<1>6. ASSUME NEW o \in OutputIds, NEW leaves \in BOOLEAN, Unplug(o, leaves) PROVE ModesInv'
  <2>1. UNCHANGED inMode
    BY <1>6 DEF Unplug
  <2>2. PICK news : /\ Sent(news)
                    /\ \A k \in DOMAIN news : /\ news[k] \in {LeaveEvent(o), RemoveEvent(o)}
                                              /\ news[k] = LeaveEvent(o) => o \in Proxies
    BY <1>6, UnplugSays
  <2>3. ASSUME NEW k \in DOMAIN news
        PROVE  /\ news[k].type # "mode"
               /\ news[k].type \in {"enter", "leave"} => output[news[k].output] # "none"
    BY <2>2, EventFields DEF Proxies
  <2> QED
    BY <1>3, <2>1, <2>2, <2>3
<1>7. CASE Render
  <2>1. events' = Append(events, FrameEvent) /\ UNCHANGED inMode
    BY <1>7 DEF Render
  <2>2. /\ Sent(<<FrameEvent>>) /\ DOMAIN <<FrameEvent>> = {1}
        /\ <<FrameEvent>>[1] = FrameEvent
    BY <2>1, EventTypes, OneSent
  <2> QED
    BY <1>3, <2>1, <2>2, EventTypes DEF FrameEvent
<1>8. ASSUME NEW o \in OutputIds, NEW m \in Modes, SwitchMode(o, m) PROVE ModesInv'
  <2>1. /\ inMode' = [inMode EXCEPT ![o] = m] /\ UNCHANGED gone /\ inMode \in [OutputIds -> Modes]
    BY <1>8 DEF SwitchMode
  <2>2. PICK news : /\ Sent(news)
                    /\ \A k \in DOMAIN news : news[k] = ModeEvent(o, m, TRUE) /\ o \in Proxies
                    /\ o \in Proxies => 1 \in DOMAIN news
    <3>1. CASE o \notin Proxies
      <4>1. Sent(<<>>) /\ DOMAIN <<>> = {}
        BY <1>8, <3>1, NothingSent DEF SwitchMode
      <4> QED
        BY <3>1, <4>1
    <3>2. CASE o \in Proxies
      <4> DEFINE e == ModeEvent(o, m, TRUE)
      <4>1. events' = Append(events, e) /\ e \in Event
        BY <1>8, <3>2, EventTypes DEF SwitchMode
      <4>2. Sent(<<e>>) /\ DOMAIN <<e>> = {1} /\ <<e>>[1] = e
        BY <4>1, OneSent
      <4> QED
        BY <3>2, <4>2
    <3> QED
      BY <3>1, <3>2
  <2>3. \A k \in DOMAIN news : /\ news[k].type = "mode" /\ news[k].output = o
                               /\ news[k].mode = m /\ news[k].current /\ output[o] # "none"
    <3> DEFINE e == ModeEvent(o, m, TRUE)
    <3>1. e.type = "mode" /\ e.output = o /\ e.mode = m /\ e.current = TRUE
      BY DEF ModeEvent
    <3>2. o \in Proxies => output[o] # "none"
      BY DEF Proxies
    <3> HIDE DEF e
    <3> QED
      BY <2>2, <3>1, <3>2 DEF e
  <2>4. NoneInv'
    BY <1>1, <2>2, <2>3, NoneSent DEF ModesInv
  <2>5. NewInv'
    BY <1>1, <2>2, <2>3, NewSent DEF ModesInv
  <2>6. ListInv'
    BY <1>1 DEF ModesInv, ListInv
  <2>7. ASSUME NEW p \in OutputIds, output[p] = "bound", CurrentOf(p) PROVE CurrentOf(p)'
    <3>1. CASE p = o
      <4>1. inMode'[p] = m /\ 1 \in DOMAIN news
        BY <2>1, <2>2, <2>7, <3>1 DEF Proxies
      <4> QED
        BY <1>1, <2>2, <2>3, <3>1, <4>1, CurrentSent
    <3>2. CASE p # o
      <4>1. inMode'[p] = inMode[p]
        BY <2>1, <3>2
      <4> QED
        BY <1>1, <2>2, <2>3, <2>7, <3>2, <4>1, CurrentSent
    <3> QED
      BY <3>1, <3>2
  <2>8. CurrentInv'
    BY <1>1, <2>1, <2>7 DEF ModesInv, CurrentInv
  <2> QED
    BY <1>2, <2>4, <2>5, <2>6, <2>8 DEF ModesInv
<1> QED
  BY <1>5, <1>6, <1>7, <1>8 DEF ServerNext

LEMMA CreateOutputKeepsModes ==
  ASSUME WireInv, ModesInv, undefined = "no", UNCHANGED undefined,
         NEW o \in OutputIds, NEW all \in BOOLEAN, CreateOutput(o, all)
  PROVE  ModesInv'
<1>0. PICK news : Announced(news, o)
  BY CreateOutputSays
<1> USE DEF WireInv, outputVars, surfaceVars, serverVars
<1>1. /\ output[o] = "none" /\ output' = [output EXCEPT ![o] = "bound"]
      /\ UNCHANGED <<gone, inMode, on, changes, modes, currentMode, outputs>>
  BY DEF CreateOutput
<1>2. TypesInv'
  BY <1>1 DEF ModesInv, TypesInv
<1>3. /\ output'[o] = "bound" /\ \A p \in OutputIds : p # o => output'[p] = output[p]
      /\ modes[o] = <<>> /\ currentMode[o] = 0
      /\ \A k \in DOMAIN events :
           events[k].type \in {"mode", "enter", "leave"} => events[k].output # o
  BY <1>1 DEF ModesInv, TypesInv, NoneInv
<1>5. NoneInv'
  BY <1>1, <1>3, <1>0, NoneSent DEF ModesInv, Announced
<1>6. NewInv'
  <2>1. \A k \in DOMAIN news : news[k].type = "mode" /\ ~news[k].current =>
           /\ \A i \in DOMAIN modes[news[k].output] :
                modes[news[k].output][i].mode # news[k].mode
           /\ \A j \in DOMAIN events :
                events[j].type = "mode" /\ events[j].output = news[k].output
                  => events[j].mode # news[k].mode
           /\ \A j \in DOMAIN news :
                j < k /\ news[j].type = "mode" /\ news[j].output = news[k].output
                  => news[j].mode # news[k].mode
    BY <1>3, <1>0 DEF Announced
  <2> QED
    BY <1>1, <1>0, <2>1, NewSent DEF ModesInv, Announced
<1>7. ListInv'
  BY <1>1 DEF ModesInv, ListInv
<1>8. ASSUME NEW p \in OutputIds, p # o \/ o \notin gone, p # o => CurrentOf(p) PROVE CurrentOf(p)'
  <2>1. CASE p = o
    <3>1. PICK k \in DOMAIN news : news[k].type = "mode" /\ news[k].mode = inMode[o]
      BY <1>0, <1>8, <2>1 DEF Announced
    <3>2. news[k].output = o /\ news[k].current
      BY <1>0, <3>1 DEF Announced
    <3> QED
      BY <1>1, <1>0, <2>1, <3>1, <3>2, CurrentSent DEF Announced
  <2>2. CASE p # o
    BY <1>1, <1>0, <1>8, <2>2, CurrentSent DEF Announced
  <2> QED
    BY <2>1, <2>2
<1>9. CurrentInv'
  BY <1>1, <1>3, <1>8 DEF ModesInv, CurrentInv
<1> QED
  BY <1>2, <1>5, <1>6, <1>7, <1>9 DEF ModesInv

LEMMA UserKeepsModes ==
  ASSUME WireInv, ModesInv, undefined = "no", UserNext, UNCHANGED undefined
  PROVE  ModesInv'
<1> USE DEF WireInv, outputVars, surfaceVars, serverVars
<1>1. CASE \E o \in OutputIds, all \in BOOLEAN : CreateOutput(o, all)
  BY <1>1, CreateOutputKeepsModes
<1>2. ASSUME UNCHANGED <<events, inMode, gone, modes, currentMode, outputs>>,
             on' \subseteq OutputIds, UNCHANGED changes,
             output' \in [OutputIds -> {"none", "bound", "removed", "deleted"}],
             \A o \in OutputIds : output'[o] \in {"none", "bound"} => output'[o] = output[o]
      PROVE  ModesInv'
  <2>1. Sent(<<>>) /\ DOMAIN <<>> = {}
    BY <1>2, NothingSent
  <2>2. TypesInv'
    BY <1>2 DEF ModesInv, TypesInv
  <2>3. NoneInv'
    BY <1>2, <2>1, NoneSent DEF ModesInv
  <2>4. NewInv' /\ ListInv'
    BY <1>2 DEF ModesInv, NewInv, ListInv
  <2>5. \A o \in OutputIds : CurrentOf(o)' <=> CurrentOf(o)
    BY <1>2 DEF CurrentOf, CurrentAt
  <2>6. CurrentInv'
    BY <1>2, <2>5 DEF ModesInv, CurrentInv
  <2> QED
    BY <2>2, <2>3, <2>4, <2>6 DEF ModesInv
<1>3. ASSUME NEW o \in OutputIds, DeleteOutput(o) PROVE ModesInv'
  BY <1>2, <1>3 DEF DeleteOutput, ModesInv, TypesInv
<1>4. CASE CreateSurface \/ Commit \/ \E end \in {"released", "deleted"} : EndSurface(end)
  BY <1>2, <1>4 DEF CreateSurface, Commit, EndSurface, ModesInv, TypesInv
<1> QED
  BY <1>1, <1>3, <1>4 DEF UserNext

LEMMA EventsKeepModes ==
  ASSUME WireInv, ModesInv, undefined = "no", DispatchEvent
  PROVE  ModesInv'
<1> USE DEF WireInv, outputVars, surfaceVars, serverVars
<1>1. CASE addMode
  BY <1>1, addModeKeeps
<1>2. ASSUME NEW t \in {"remove", "enter", "leave", "frame"}, Takes(t),
             UNCHANGED <<inMode, gone, on, changes, modes, currentMode>>,
             outputs' \in Seq(OutputIds), undefined' \in {"no", "modes", "frame"},
             output' \in [OutputIds -> {"none", "bound", "removed", "deleted"}],
             \A o \in OutputIds :
               /\ output'[o] \in {"none", "bound"} => output[o] = output'[o]
               /\ output'[o] = "none" /\ o \in ToSet(outputs') => o \in ToSet(outputs)
      PROVE  ModesInv'
  <2>1. TypesInv'
    BY <1>2 DEF ModesInv, TypesInv
  <2>2. NoneInv' /\ ListInv' /\ NewInv' /\ CurrentInv'
    BY <1>2, QuietlyTaken DEF ModesInv
  <2> QED
    BY <2>1, <2>2 DEF ModesInv
<1>3. \A o \in OutputIds : /\ Without(outputs, o) \in Seq(OutputIds)
                           /\ ToSet(Without(outputs, o)) \subseteq ToSet(outputs)
  BY WithoutType DEF ModesInv, TypesInv
<1>4. /\ events # <<>> => Head(events) \in Event
      /\ outputs \in Seq(OutputIds) /\ undefined \in {"no", "modes", "frame"}
      /\ output \in [OutputIds -> {"none", "bound", "removed", "deleted"}]
  BY TailIndices, Element DEF ModesInv, TypesInv
<1>5. CASE outputRemoved
  <2> DEFINE o == Head(events).output
  <2>1. Takes("remove") /\ o \in OutputIds
    BY <1>4, <1>5, EventFacts DEF outputRemoved, Takes
  <2>2. /\ output' = [output EXCEPT ![o] = IF @ = "bound" THEN "removed" ELSE "deleted"]
        /\ outputs' = Without(outputs, o) \/ outputs' = outputs
        /\ UNCHANGED <<inMode, gone, on, changes, modes, currentMode, undefined>>
    BY <1>5 DEF outputRemoved
  <2> HIDE DEF o
  <2>3. \A p \in OutputIds : output'[p] \in {"none", "bound"} => output[p] = output'[p]
    BY <1>4, <2>1, <2>2
  <2>4. outputs' \in Seq(OutputIds) /\ ToSet(outputs') \subseteq ToSet(outputs)
    BY <1>3, <1>4, <2>1, <2>2
  <2>5. output' \in [OutputIds -> {"none", "bound", "removed", "deleted"}]
    BY <1>4, <2>1, <2>2
  <2> QED
    BY <1>2, <1>4, <2>1, <2>2, <2>3, <2>4, <2>5
<1>6. CASE enterCallback
  <2> DEFINE o == Head(events).output
  <2>1. /\ Takes("enter")
        /\ outputs' = outputs \/ (o \in Proxies /\ outputs' = Append(outputs, o))
        /\ UNCHANGED <<inMode, gone, on, changes, output, modes, currentMode, undefined>>
    BY <1>6 DEF enterCallback
  <2> HIDE DEF o
  <2>2. /\ outputs' \in Seq(OutputIds)
        /\ \A p \in OutputIds : output[p] = "none" /\ p \in ToSet(outputs') => p \in ToSet(outputs)
    <3>1. CASE o \in Proxies /\ outputs' = Append(outputs, o)
      <4>1. o \in OutputIds /\ output[o] # "none"
        BY <3>1 DEF Proxies
      <4>2. /\ outputs' \in Seq(OutputIds) /\ DOMAIN outputs' = DOMAIN outputs \union {Len(outputs) + 1}
            /\ outputs'[Len(outputs) + 1] = o /\ \A k \in DOMAIN outputs : outputs'[k] = outputs[k]
        BY <1>4, <3>1, <4>1
      <4> QED
        BY <4>1, <4>2 DEF ToSet
    <3> QED
      BY <1>4, <2>1, <3>1
  <2> QED
    BY <1>2, <1>4, <2>1, <2>2
<1>7. CASE leaveCallback
  <2>1. /\ Takes("leave")
        /\ outputs' = outputs
             \/ (Head(events).output \in Proxies /\ outputs' = Without(outputs, Head(events).output))
        /\ UNCHANGED <<inMode, gone, on, changes, output, modes, currentMode, undefined>>
    BY <1>7 DEF leaveCallback
  <2>2. outputs' \in Seq(OutputIds) /\ ToSet(outputs') \subseteq ToSet(outputs)
    BY <1>3, <1>4, <2>1 DEF Proxies
  <2> QED
    BY <1>2, <1>4, <2>1, <2>2
<1>8. CASE frameCallback
  <2>1. /\ Takes("frame") /\ undefined' \in {"no", "modes", "frame"}
        /\ UNCHANGED <<inMode, gone, on, changes, output, modes, currentMode, outputs>>
    BY <1>4, <1>8 DEF frameCallback
  <2> QED
    BY <1>2, <1>4, <2>1
<1> QED
  BY <1>1, <1>5, <1>6, <1>7, <1>8 DEF DispatchEvent

-----------------------------------------------------------------------------
LEMMA MovingFacts ==
  ASSUME NEW o, NEW s, NEW e, NEW t
  PROVE  <<s, e, t>> \in Moving(o) <=>
           /\ s \in Places /\ e \in Event /\ t \in Places
           /\ CASE e.type = "enter" /\ e.output = o -> s = "off" /\ t = "on"
                [] e.type \in {"leave", "remove"} /\ e.output = o -> t = "off"
                [] OTHER -> t = s
<1> DEFINE move == <<s, e, t>>
<1>1. move[1] = s /\ move[2] = e /\ move[3] = t
  OBVIOUS
<1>2. move \in Places \X Event \X Places <=> s \in Places /\ e \in Event /\ t \in Places
  OBVIOUS
<1> HIDE DEF move
<1>3. move \in Moving(o) <=>
        /\ move \in Places \X Event \X Places
        /\ CASE move[2].type = "enter" /\ move[2].output = o -> move[1] = "off" /\ move[3] = "on"
             [] move[2].type \in {"leave", "remove"} /\ move[2].output = o -> move[3] = "off"
             [] OTHER -> move[3] = move[1]
  BY DEF Moving
<1> QED
  BY <1>1, <1>2, <1>3 DEF move

LEMMA MovingStays == \A o : Moving(o)' = Moving(o)
BY DEF Moving

\* How an output is unplugged once.
LEMMA UnplugSent ==
  ASSUME events \in Seq(Event), NEW news, Sent(news), UnplugInv, gone \subseteq gone',
         \A o \in OutputIds : output'[o] = "removed" => output[o] = "removed",
         gone \subseteq OutputIds,
         \A k \in DOMAIN news : news[k].type = "remove" =>
           /\ news[k].output \in gone' \ gone
           /\ \A j \in DOMAIN news : news[j].type = "remove" => j = k
  PROVE  UnplugInv'
<1>1. /\ \A k \in DOMAIN events : k \in DOMAIN events' /\ events'[k] = events[k]
      /\ \A k \in DOMAIN events' : k \notin DOMAIN events =>
           k - Len(events) \in DOMAIN news /\ events'[k] = news[k - Len(events)]
      /\ DOMAIN events = 1 .. Len(events) /\ Len(events) \in Nat
      /\ DOMAIN events' = 1 .. Len(events) + Len(news) /\ Len(news) \in Nat
      /\ DOMAIN news = 1 .. Len(news)
  BY Behind DEF Sent
<1>2. \A o \in OutputIds : output'[o] = "removed" => o \in gone'
  BY DEF UnplugInv
<1>3. ASSUME NEW k \in DOMAIN events', events'[k].type = "remove"
      PROVE  /\ events'[k].output \in gone' /\ output'[events'[k].output] # "removed"
             /\ \A j \in DOMAIN events' :
                  events'[j].type = "remove" /\ events'[j].output = events'[k].output => j = k
  <2>0. Sent(news) /\ events' \in Seq(Event)
    BY DEF Sent
  <2>1. events'[k].output \in OutputIds
    <3>1. events'[k] \in Event
      BY <2>0, Element
    <3> QED
      BY <1>3, <3>1, EventFacts
  <2>2. CASE k \in DOMAIN events
    <3>1. /\ events[k].type = "remove" /\ events'[k] = events[k]
      BY <1>1, <1>3, <2>2
    <3>2. /\ events[k].output \in gone /\ output[events[k].output] # "removed"
          /\ \A j \in DOMAIN events :
               events[j].type = "remove" /\ events[j].output = events[k].output => j = k
      BY <2>2, <3>1 DEF UnplugInv
    <3>3. ASSUME NEW j \in DOMAIN events', events'[j].type = "remove",
                 events'[j].output = events'[k].output
          PROVE  j = k
      <4>1. j \in DOMAIN events
        <5> SUFFICES ASSUME j \notin DOMAIN events PROVE FALSE
          OBVIOUS
        <5>1. PICK i \in DOMAIN news : events'[j] = news[i]
          BY <1>1
        <5> QED
          BY <3>1, <3>2, <3>3, <5>1
      <4> QED
        BY <1>1, <3>1, <3>2, <3>3, <4>1
    <3> QED
      BY <2>1, <3>1, <3>2, <3>3
  <2>3. CASE k \notin DOMAIN events
    <3>1. PICK i \in DOMAIN news : events'[k] = news[i] /\ i = k - Len(events)
      BY <1>1, <2>3
    <3>2. /\ events'[k].output \in gone' /\ events'[k].output \notin gone
          /\ \A j \in DOMAIN news : news[j].type = "remove" => j = i
      BY <1>3, <3>1
    <3>3. output'[events'[k].output] # "removed"
      BY <2>1, <3>2 DEF UnplugInv
    <3>4. ASSUME NEW j \in DOMAIN events', events'[j].type = "remove",
                 events'[j].output = events'[k].output
          PROVE  j = k
      <4>1. j \notin DOMAIN events
        BY <1>1, <3>2, <3>4 DEF UnplugInv
      <4>2. j - Len(events) \in DOMAIN news /\ events'[j] = news[j - Len(events)]
        BY <1>1, <4>1
      <4>3. j - Len(events) = k - Len(events)
        BY <3>1, <3>2, <3>4, <4>2
      <4> QED
        BY <1>1, <4>3
    <3> QED
      BY <3>2, <3>3, <3>4
  <2> QED
    BY <2>2, <2>3
<1> QED
  BY <1>2, <1>3 DEF UnplugInv

LEMMA UnplugTaken ==
  ASSUME events \in Seq(Event), events # <<>>, events' = Tail(events), UnplugInv,
         UNCHANGED gone,
         \A o \in OutputIds : output'[o] = "removed" =>
           output[o] = "removed" \/ (events[1].type = "remove" /\ events[1].output = o)
  PROVE  UnplugInv'
<1>1. /\ 1 \in DOMAIN events
      /\ \A k \in DOMAIN events' : /\ k + 1 \in DOMAIN events /\ events'[k] = events[k + 1]
                                   /\ k + 1 # 1 /\ k \in Nat
  BY TailIndices
<1>2. \A o \in OutputIds : output'[o] = "removed" => o \in gone'
  BY <1>1 DEF UnplugInv
<1>3. ASSUME NEW k \in DOMAIN events', events'[k].type = "remove"
      PROVE  /\ events'[k].output \in gone' /\ output'[events'[k].output] # "removed"
             /\ \A j \in DOMAIN events' :
                  events'[j].type = "remove" /\ events'[j].output = events'[k].output => j = k
  <2>1. /\ events[k + 1].type = "remove" /\ k + 1 \in DOMAIN events /\ events'[k] = events[k + 1]
        /\ events[k + 1] \in Event
    BY <1>1, <1>3, Element
  <2>2. /\ events[k + 1].output \in gone /\ output[events[k + 1].output] # "removed"
        /\ \A j \in DOMAIN events :
             events[j].type = "remove" /\ events[j].output = events[k + 1].output => j = k + 1
        /\ events[k + 1].output \in OutputIds
    BY <2>1, EventFacts DEF UnplugInv
  <2>3. output'[events'[k].output] # "removed"
    BY <1>1, <2>1, <2>2
  <2>4. ASSUME NEW j \in DOMAIN events', events'[j].type = "remove",
               events'[j].output = events'[k].output
        PROVE  j = k
    <3>1. j + 1 = k + 1
      BY <1>1, <2>1, <2>2, <2>4
    <3> QED
      BY <1>1, <3>1
  <2> QED
    BY <2>1, <2>2, <2>3, <2>4
<1> QED
  BY <1>2, <1>3 DEF UnplugInv

\* What is sent leads on.
OnOf(o) == Leads(Places, Moving(o), Listed(o), events, Shown(o))

LEMMA OnSent ==
  ASSUME events \in Seq(Event), NEW news, Sent(news), UNCHANGED outputs, NEW o, OnOf(o),
         Leads(Places, Moving(o), Shown(o), news, Shown(o)')
  PROVE  OnOf(o)'
<1>1. Listed(o)' = Listed(o) /\ Moving(o)' = Moving(o)
  BY MovingStays DEF Listed
<1>2. Leads(Places, Moving(o), Listed(o), events \o news, Shown(o)')
  BY LeadsThrough DEF OnOf, Sent
<1> QED
  BY <1>1, <1>2 DEF OnOf, Sent

\* What does not concern an output.
LEMMA Unconcerned ==
  ASSUME NEW es \in Seq(Event), NEW o, NEW s \in Places,
         \A k \in DOMAIN es : es[k].type \in {"enter", "leave", "remove"} => es[k].output # o
  PROVE  Leads(Places, Moving(o), s, es, s)
<1>1. \A k \in DOMAIN es : <<s, es[k], s>> \in Moving(o)
  BY Element, MovingFacts
<1> QED
  BY <1>1, LeadsSame

LEMMA NotEntered ==
  ASSUME NEW es \in Seq(Event), NEW o,
         \A k \in DOMAIN es : es[k].type = "enter" => es[k].output # o
  PROVE  Leads(Places, Moving(o), "off", es, "off")
<1>1. "off" \in Places
  BY DEF Places
<1>2. \A k \in DOMAIN es : <<"off", es[k], "off">> \in Moving(o)
  BY <1>1, Element, MovingFacts
<1> QED
  BY <1>1, <1>2, LeadsSame


LEMMA BeforeSent ==
  ASSUME events \in Seq(Event), NEW news, Sent(news), BeforeInv, UNCHANGED <<surface, outputs>>,
         surface = "none" => on' = {} /\ \A k \in DOMAIN news : news[k].type # "enter"
  PROVE  BeforeInv'
<1>1. /\ \A k \in DOMAIN events : k \in DOMAIN events' /\ events'[k] = events[k]
      /\ \A k \in DOMAIN events' : k \notin DOMAIN events =>
           k - Len(events) \in DOMAIN news /\ events'[k] = news[k - Len(events)]
  BY Behind DEF Sent
<1> QED
  BY <1>1 DEF BeforeInv

LEMMA ServerKeepsSurface ==
  ASSUME WireInv, TypesInv, SurfaceInv, ServerNext
  PROVE  SurfaceInv'
<1> USE DEF WireInv
<1>1. UNCHANGED <<output, surface, outputs>>
  BY DEF ServerNext, Move, SwitchMode, Unplug, Render, outputVars, surfaceVars
<1>2. Proxies' = Proxies /\ gone \subseteq OutputIds
  BY <1>1 DEF Proxies, TypesInv
<1>3. ASSUME NEW news, Sent(news), gone \subseteq gone',
             \A k \in DOMAIN news : news[k].type = "remove" =>
               /\ news[k].output \in gone' \ gone
               /\ \A j \in DOMAIN news : news[j].type = "remove" => j = k,
             surface = "none" => on' = {} /\ \A k \in DOMAIN news : news[k].type # "enter",
             surface = "valid" => \A o \in Proxies :
               Leads(Places, Moving(o), Shown(o), news, Shown(o)')
      PROVE  SurfaceInv'
  <2>1. UnplugInv'
    BY <1>1, <1>2, <1>3, UnplugSent DEF SurfaceInv
  <2>2. BeforeInv'
    BY <1>1, <1>3, BeforeSent DEF SurfaceInv
  <2>3. surface = "valid" => \A o \in Proxies : OnOf(o)'
    BY <1>1, <1>3, OnSent DEF SurfaceInv, OnInv, OnOf
  <2>4. OnInv'
    BY <1>1, <1>2, <2>3 DEF SurfaceInv, OnInv, OnOf
  <2> QED
    BY <2>1, <2>2, <2>4 DEF SurfaceInv
<1>4. ASSUME NEW news, Sent(news), UNCHANGED <<gone, on>>,
             \A k \in DOMAIN news : news[k].type \notin {"remove", "enter", "leave"}
      PROVE  SurfaceInv'
  <2>1. \A o \in Proxies : Leads(Places, Moving(o), Shown(o), news, Shown(o)')
    <3>1. \A o : Shown(o)' = Shown(o) /\ Shown(o) \in Places
      BY <1>4 DEF Shown, Places
    <3>2. news \in Seq(Event)
      BY <1>4 DEF Sent
    <3> QED
      BY <1>4, <3>1, <3>2, Unconcerned
  <2>2. surface = "none" => on' = {}
    BY <1>4 DEF SurfaceInv, BeforeInv
  <2> QED
    BY <1>3, <1>4, <2>1, <2>2
<1>5. ASSUME NEW o \in OutputIds, NEW m \in Modes, SwitchMode(o, m) PROVE SurfaceInv'
  <2>1. UNCHANGED <<gone, on>>
    BY <1>5 DEF SwitchMode
  <2>2. CASE o \notin Proxies
    <3>1. Sent(<<>>) /\ DOMAIN <<>> = {}
      BY <1>5, <2>2, NothingSent DEF SwitchMode
    <3> QED
      BY <1>4, <2>1, <3>1
  <2>3. CASE o \in Proxies
    <3> DEFINE e == ModeEvent(o, m, TRUE)
    <3>1. events' = Append(events, e) /\ e \in Event /\ e.type = "mode"
      BY <1>5, <2>3, EventTypes DEF SwitchMode, ModeEvent
    <3>2. Sent(<<e>>) /\ DOMAIN <<e>> = {1} /\ <<e>>[1] = e
      BY <3>1, OneSent
    <3> QED
      BY <1>4, <2>1, <3>1, <3>2
  <2> QED
    BY <2>2, <2>3
<1>6. CASE Render
  <2>1. events' = Append(events, FrameEvent) /\ UNCHANGED <<gone, on>>
    BY <1>6 DEF Render
  <2>2. /\ Sent(<<FrameEvent>>) /\ DOMAIN <<FrameEvent>> = {1}
        /\ <<FrameEvent>>[1] = FrameEvent /\ FrameEvent.type = "frame"
    BY <2>1, EventTypes, OneSent
  <2> QED
    BY <1>4, <2>1, <2>2
<1>7. ASSUME NEW o \in OutputIds, Move(o) PROVE SurfaceInv'
  <2>1. /\ surface = "valid" /\ UNCHANGED gone /\ (o \notin gone \/ o \in on)
        /\ on' = IF o \in on THEN on \ {o} ELSE on \union {o}
    BY <1>7 DEF Move
  <2>2. CASE o \notin Proxies
    <3>1. Sent(<<>>) /\ DOMAIN <<>> = {} /\ <<>> \in Seq(Event)
      BY <1>7, <2>2, NothingSent DEF Move
    <3>2. ASSUME NEW p \in Proxies
          PROVE  Leads(Places, Moving(p), Shown(p), <<>>, Shown(p)')
      <4>1. Shown(p)' = Shown(p) /\ Shown(p) \in Places
        BY <2>1, <2>2, <3>2 DEF Shown, Places
      <4> QED
        BY <3>1, <4>1, Unconcerned
    <3> QED
      BY <1>3, <2>1, <3>1, <3>2
  <2>3. CASE o \in Proxies
    <3> DEFINE e == IF o \in on THEN LeaveEvent(o) ELSE EnterEvent(o)
    <3>1. /\ events' = Append(events, e) /\ e \in Event /\ e.type \in {"enter", "leave"}
          /\ e.output = o
          /\ e.type = "enter" <=> o \notin on
      BY <1>7, <2>3, EventTypes, EventFields DEF Move
    <3> HIDE DEF e
    <3>2. PICK news : Sent(news) /\ news \in Seq(Event) /\ DOMAIN news = {1} /\ news[1] = e
      BY <3>1, OneSent DEF Sent
    <3>3. \A k \in DOMAIN news : /\ news[k].type \in {"enter", "leave"} /\ news[k].output = o
      BY <3>1, <3>2
    <3>4. ASSUME NEW p \in Proxies
          PROVE  Leads(Places, Moving(p), Shown(p), news, Shown(p)')
      <4>1. CASE p # o
        <5>1. Shown(p)' = Shown(p) /\ Shown(p) \in Places
          BY <2>1, <4>1 DEF Shown, Places
        <5> QED
          BY <3>2, <3>3, <4>1, <5>1, Unconcerned
      <4>2. CASE p = o
        <5>1. Shown(o) \in Places /\ Shown(o)' \in Places
          BY DEF Shown, Places
        <5>2. IF e.type = "enter" THEN Shown(o) = "off" /\ Shown(o)' = "on" ELSE Shown(o)' = "off"
          BY <2>1, <3>1 DEF Shown
        <5>3. <<Shown(o), news[1], Shown(o)'>> \in Moving(o)
          BY <3>1, <3>2, <5>1, <5>2, MovingFacts
        <5>4. \A k \in DOMAIN news : ~(k < 1) /\ ~(k > 1)
          BY <3>2
        <5> QED
          BY <3>2, <4>2, <5>1, <5>3, <5>4, LeadsOnce
      <4> QED
        BY <4>1, <4>2
    <3> QED
      BY <1>3, <2>1, <3>2, <3>3, <3>4
  <2> QED
    BY <2>2, <2>3
<1>8. ASSUME NEW o \in OutputIds, NEW leaves \in BOOLEAN, Unplug(o, leaves) PROVE SurfaceInv'
  <2>1. /\ o \notin gone /\ gone' = gone \union {o} /\ on' \subseteq on
        /\ \A p \in OutputIds : p # o => (p \in on' <=> p \in on)
    BY <1>8 DEF Unplug
  <2>2. PICK news :
           /\ Sent(news)
           /\ \A k \in DOMAIN news : /\ news[k] \in {LeaveEvent(o), RemoveEvent(o)}
                                     /\ news[k] = LeaveEvent(o) => o \in Proxies
           /\ \E n \in DOMAIN news : \A k \in DOMAIN news : news[k] = RemoveEvent(o) <=> k = n
    BY <1>8, UnplugSays
  <2>3. /\ LeaveEvent(o).type = "leave" /\ RemoveEvent(o).type = "remove"
        /\ LeaveEvent(o).output = o /\ RemoveEvent(o).output = o
    BY EventFields
  <2>4. \A k \in DOMAIN news :
          /\ news[k].type \in {"leave", "remove"} /\ news[k].output = o
          /\ news[k].type = "remove" => news[k] = RemoveEvent(o)
    BY <2>2, <2>3
  <2>5. news \in Seq(Event) /\ news # <<>>
    BY <2>2 DEF Sent
  <2>6. ASSUME NEW p \in Proxies
        PROVE  Leads(Places, Moving(p), Shown(p), news, Shown(p)')
    <3>1. CASE p # o
      <4>1. Shown(p)' = Shown(p) /\ Shown(p) \in Places
        BY <2>1, <2>6, <3>1 DEF Proxies, Shown, Places
      <4> QED
        BY <2>4, <2>5, <3>1, <4>1, Unconcerned
    <3>2. CASE p = o
      <4>1. Shown(o) \in Places /\ Shown(o)' \in Places
        BY DEF Shown, Places
      <4>2. Shown(o)' = "off"
        BY <2>1 DEF Shown
      <4>3. \A k \in DOMAIN news : news[k] \in Event
        BY <2>5, Element
      <4>4. \A k \in DOMAIN news : \A x \in Places : <<x, news[k], Shown(o)'>> \in Moving(o)
        BY <2>4, <4>1, <4>2, <4>3, MovingFacts
      <4> QED
        BY <2>5, <3>2, <4>1, <4>4, LeadsAnyway
    <3> QED
      BY <3>1, <3>2
  <2>7. surface = "none" => on' = {}
    BY <2>1 DEF SurfaceInv, BeforeInv
  <2> QED
    BY <1>3, <2>1, <2>2, <2>4, <2>6, <2>7
<1> QED
  BY <1>5, <1>6, <1>7, <1>8 DEF ServerNext


LEMMA UserKeepsSurface ==
  ASSUME WireInv, TypesInv, NoneInv, SurfaceInv, UserNext
  PROVE  SurfaceInv'
<1>0. /\ events \in Seq(Event) /\ output \in [OutputIds -> {"none", "bound", "removed", "deleted"}]
      /\ gone \subseteq OutputIds
  BY DEF WireInv, TypesInv
<1>1. ASSUME NEW o \in OutputIds, NEW all \in BOOLEAN, CreateOutput(o, all) PROVE SurfaceInv'
  <2>1. /\ output[o] = "none" /\ output' = [output EXCEPT ![o] = "bound"]
        /\ UNCHANGED <<gone, on, surface, outputs>>
    BY <1>1 DEF CreateOutput, serverVars, surfaceVars
  <2>2. PICK news : Announced(news, o)
    BY <1>1, CreateOutputSays
  <2>3. /\ Sent(news) /\ news \in Seq(Event)
        /\ \A k \in DOMAIN news : news[k].output = o /\ news[k].type \in {"mode", "enter"}
        /\ (o \in on \ gone) <=> \E k \in DOMAIN news : news[k].type = "enter"
        /\ \A j, k \in DOMAIN news :
             news[j].type = "enter" /\ news[k].type = "enter" => j = k
    BY <2>2 DEF Announced, Sent
  <2>4. \A p \in OutputIds : output'[p] = "removed" => output[p] = "removed"
    BY <1>0, <2>1
  <2>5. UnplugInv'
    BY <1>0, <2>1, <2>3, <2>4, UnplugSent DEF SurfaceInv
  <2>6. BeforeInv'
    <3>1. surface = "none" => on' = {} /\ \A k \in DOMAIN news : news[k].type # "enter"
      BY <2>1, <2>3 DEF SurfaceInv, BeforeInv
    <3> QED
      BY <1>0, <2>1, <2>3, <3>1, BeforeSent DEF SurfaceInv
  <2>7. ASSUME NEW p \in Proxies', surface = "valid" PROVE OnOf(p)'
    <3>1. Shown(p)' = Shown(p) /\ Shown(p) \in Places
      BY <2>1 DEF Shown, Places
    <3>2. CASE p # o
      <4>1. p \in Proxies
        BY <1>0, <2>1, <2>7, <3>2 DEF Proxies
      <4>2. Leads(Places, Moving(p), Shown(p), news, Shown(p)')
        BY <2>3, <3>1, <3>2, Unconcerned
      <4>3. OnOf(p)
        BY <2>7, <4>1 DEF SurfaceInv, OnInv, OnOf
      <4> QED
        BY <1>0, <2>1, <2>3, <4>2, <4>3, OnSent
    <3>3. CASE p = o
      <4>1. Listed(o) = "off" /\ Listed(o)' = "off"
        BY <2>1 DEF NoneInv, Listed
      <4>2. \A k \in DOMAIN events : events[k].type = "enter" => events[k].output # o
        BY <2>1 DEF NoneInv
      <4>3. Leads(Places, Moving(o), "off", events, "off")
        BY <1>0, <4>2, NotEntered
      <4>4. Leads(Places, Moving(o), "off", news, Shown(o))
        <5>1. CASE o \in on \ gone
          <6>1. PICK n \in DOMAIN news : news[n].type = "enter"
            BY <2>3, <5>1
          <6>2. \A k \in DOMAIN news : k # n => news[k].type = "mode"
            BY <2>3, <6>1
          <6>3. \A k \in DOMAIN news : news[k] \in Event /\ k \in Nat
            BY <2>3, Element, SeqDomain
          <6>4. "off" \in Places /\ "on" \in Places
            BY DEF Places
          <6>5. <<"off", news[n], "on">> \in Moving(o)
            BY <2>3, <6>1, <6>3, <6>4, MovingFacts
          <6>6. \A k \in DOMAIN news : k # n =>
                  <<"off", news[k], "off">> \in Moving(o) /\ <<"on", news[k], "on">> \in Moving(o)
            BY <6>2, <6>3, <6>4, MovingFacts
          <6>7. Leads(Places, Moving(o), "off", news, "on")
            BY <2>3, <6>3, <6>4, <6>5, <6>6, LeadsOnce
          <6> QED
            BY <5>1, <6>7 DEF Shown
        <5>2. CASE o \notin on \ gone
          <6>1. \A k \in DOMAIN news : news[k].type = "enter" => news[k].output # o
            BY <2>3, <5>2
          <6> QED
            BY <2>3, <5>2, <6>1, NotEntered DEF Shown
        <5> QED
          BY <5>1, <5>2
      <4>5. Leads(Places, Moving(o), "off", events \o news, Shown(o))
        BY <1>0, <2>3, <4>3, <4>4, LeadsThrough
      <4> QED
        BY <2>3, <3>1, <3>3, <4>1, <4>5, MovingStays DEF OnOf, Sent
    <3> QED
      BY <3>2, <3>3
  <2>8. OnInv'
    BY <2>1, <2>7 DEF SurfaceInv, OnInv, OnOf
  <2> QED
    BY <2>5, <2>6, <2>8 DEF SurfaceInv
<1>2. ASSUME NEW o \in OutputIds, DeleteOutput(o) PROVE SurfaceInv'
  <2>1. /\ output' = [output EXCEPT ![o] = "deleted"]
        /\ UNCHANGED <<gone, on, events, surface, outputs>>
    BY <1>2 DEF DeleteOutput, serverVars, surfaceVars
  <2>2. /\ \A p \in OutputIds : output'[p] = "removed" => output[p] = "removed"
        /\ Proxies' \subseteq Proxies
    BY <1>0, <2>1 DEF Proxies
  <2>3. Sent(<<>>) /\ DOMAIN <<>> = {}
    BY <1>0, <2>1, NothingSent
  <2>4. UnplugInv'
    BY <1>0, <2>1, <2>2, <2>3, UnplugSent DEF SurfaceInv
  <2>5. BeforeInv'
    BY <2>1 DEF SurfaceInv, BeforeInv
  <2>6. OnInv'
    BY <2>1, <2>2, MovingStays DEF SurfaceInv, OnInv, Listed, Shown
  <2> QED
    BY <2>4, <2>5, <2>6 DEF SurfaceInv
<1>3. CASE CreateSurface
  <2>1. /\ surface = "none" /\ surface' = "valid"
        /\ UNCHANGED <<gone, on, events, output, outputs>>
    BY <1>3 DEF CreateSurface, serverVars, outputVars
  <2>2. UnplugInv' /\ BeforeInv'
    BY <2>1 DEF SurfaceInv, UnplugInv, BeforeInv
  <2>3. outputs = <<>> /\ on = {} /\ \A k \in DOMAIN events : events[k].type # "enter"
    BY <2>1 DEF SurfaceInv, BeforeInv
  <2>4. ASSUME NEW o PROVE OnOf(o)'
    <3>1. Listed(o)' = "off" /\ Shown(o)' = "off"
      BY <2>1, <2>3 DEF Listed, Shown, ToSet
    <3>2. Leads(Places, Moving(o), "off", events, "off")
      BY <1>0, <2>3, NotEntered
    <3> QED
      BY <2>1, <3>1, <3>2, MovingStays DEF OnOf
  <2>5. OnInv'
    BY <2>1, <2>4 DEF SurfaceInv, OnInv, OnOf
  <2> QED
    BY <2>2, <2>5 DEF SurfaceInv
<1>4. CASE Commit
  <2>1. surface = "valid" /\ UNCHANGED <<gone, on, events, output, surface, outputs>>
    BY <1>4 DEF Commit, outputVars
  <2>2. UnplugInv' /\ BeforeInv'
    BY <2>1 DEF SurfaceInv, UnplugInv, BeforeInv
  <2>3. \A o : OnOf(o)' <=> OnOf(o)
    BY <2>1, MovingStays DEF OnOf, Listed, Shown
  <2>4. Proxies' = Proxies
    BY <2>1 DEF Proxies
  <2>5. OnInv'
    BY <2>1, <2>3, <2>4 DEF SurfaceInv, OnInv, OnOf
  <2> QED
    BY <2>2, <2>5 DEF SurfaceInv
<1>5. ASSUME NEW end \in {"released", "deleted"}, EndSurface(end) PROVE SurfaceInv'
  BY <1>5 DEF EndSurface, outputVars, SurfaceInv, UnplugInv, BeforeInv, OnInv
<1> QED
  BY <1>1, <1>2, <1>3, <1>4, <1>5 DEF UserNext

\* What is taken leads from the new state, if the client did what the event says.
LEMMA OnTaken ==
  ASSUME events \in Seq(Event), events # <<>>, events' = Tail(events), NEW o, OnOf(o),
         UNCHANGED <<gone, on>>,
         \A r \in Places : <<Listed(o), events[1], r>> \in Moving(o) => Listed(o)' = r
  PROVE  OnOf(o)'
<1>1. Head(events) = events[1]
  BY TailIndices
<1>2. PICK r \in Places : <<Listed(o), events[1], r>> \in Moving(o)
                          /\ Leads(Places, Moving(o), r, Tail(events), Shown(o))
  BY <1>1, LeadsFrom DEF OnOf
<1>3. Listed(o)' = r /\ Shown(o)' = Shown(o)
  BY <1>2 DEF Shown
<1> QED
  BY <1>2, <1>3, MovingStays DEF OnOf

LEMMA EventsKeepSurface ==
  ASSUME WireInv, TypesInv, NoneInv, SurfaceInv, DispatchEvent
  PROVE  SurfaceInv'
<1> DEFINE e == events[1]
           o == events[1].output
<1>0. /\ events \in Seq(Event) /\ output \in [OutputIds -> {"none", "bound", "removed", "deleted"}]
      /\ gone \subseteq OutputIds /\ outputs \in Seq(OutputIds)
      /\ \A j, k \in DOMAIN outputs : outputs[j] = outputs[k] => j = k
  BY DEF WireInv, TypesInv, SurfaceInv, OnInv
<1>1. PICK t \in {"mode", "remove", "enter", "leave", "frame"} : Takes(t)
  BY DEF DispatchEvent, addMode, outputRemoved, enterCallback, leaveCallback, frameCallback
<1>2. /\ events # <<>> /\ events' = Tail(events) /\ Head(events) = e /\ 1 \in DOMAIN events
      /\ e \in Event /\ e.type = t
      /\ \A k \in DOMAIN events' : k + 1 \in DOMAIN events /\ events'[k] = events[k + 1]
  BY <1>0, <1>1, TailIndices, Element DEF Takes
<1>3. UNCHANGED <<gone, on, surface>>
  BY DEF DispatchEvent, addMode, outputRemoved, enterCallback, leaveCallback, frameCallback,
         serverVars, surfaceVars
<1>4. UNCHANGED output
        \/ (t = "remove" /\ output' = [output EXCEPT ![o] = IF @ = "bound" THEN "removed" ELSE "deleted"])
  BY <1>1, <1>2 DEF DispatchEvent, addMode, outputRemoved, enterCallback, leaveCallback, frameCallback,
         outputVars, Takes
<1>5. e.type # "frame" => o \in OutputIds
  BY <1>2, EventFacts
<1>6. Proxies' \subseteq Proxies
  BY <1>0, <1>2, <1>4, <1>5 DEF Proxies
<1>7. UnplugInv'
  <2>1. \A p \in OutputIds : output'[p] = "removed" =>
           output[p] = "removed" \/ (events[1].type = "remove" /\ events[1].output = p)
    BY <1>0, <1>2, <1>4, <1>5
  <2> QED
    BY <1>0, <1>2, <1>3, <2>1, UnplugTaken DEF SurfaceInv
<1>8. ASSUME surface = "none" => outputs' = <<>>,
             \A j, k \in DOMAIN outputs' : outputs'[j] = outputs'[k] => j = k,
             surface = "valid" => \A p \in Proxies', r \in Places :
               <<Listed(p), e, r>> \in Moving(p) => Listed(p)' = r
      PROVE  SurfaceInv'
  <2>1. BeforeInv'
    BY <1>2, <1>3, <1>8 DEF SurfaceInv, BeforeInv
  <2>2. ASSUME surface = "valid", NEW p \in Proxies' PROVE OnOf(p)'
    <3>1. OnOf(p)
      BY <1>6, <2>2 DEF SurfaceInv, OnInv, OnOf
    <3>2. \A r \in Places : <<Listed(p), e, r>> \in Moving(p) => Listed(p)' = r
      BY <1>8, <2>2
    <3> QED
      BY <1>0, <1>2, <1>3, <3>1, <3>2, OnTaken
  <2>3. OnInv'
    BY <1>3, <1>8, <2>2 DEF OnInv, OnOf
  <2> QED
    BY <1>7, <2>1, <2>3 DEF SurfaceInv
<1>9. outputs = <<>> => \A p : Without(outputs, p) = <<>>
  BY DEF Without
<1>10. surface = "none" => outputs = <<>>
  BY DEF SurfaceInv, BeforeInv
<1> HIDE DEF e, o
<1>11. \A p, r : <<Listed(p), e, r>> \in Moving(p) =>
         CASE e.type = "enter" /\ o = p -> p \notin ToSet(outputs) /\ r = "on"
           [] e.type \in {"leave", "remove"} /\ o = p -> r = "off"
           [] OTHER -> r = Listed(p)
  BY MovingFacts DEF Listed, e, o
<1>12. CASE UNCHANGED outputs /\ t \in {"mode", "frame"}
  BY <1>0, <1>2, <1>8, <1>10, <1>11, <1>12 DEF Listed
<1>13. CASE outputRemoved
  <2>1. /\ t = "remove"
        /\ output' = [output EXCEPT ![o] = IF @ = "bound" THEN "removed" ELSE "deleted"]
        /\ outputs' = IF output[o] = "bound" /\ surface # "deleted"
                        THEN Without(outputs, o) ELSE outputs
    BY <1>1, <1>2, <1>13 DEF outputRemoved, o, e, Takes
  <2>2. o \in OutputIds /\ output[o] # "removed"
    <3>1. output[o] # "removed"
      BY <1>2, <2>1 DEF SurfaceInv, UnplugInv, o, e
    <3> QED
      BY <1>2, <1>5, <2>1, <3>1
  <2>3. CASE output[o] = "bound" /\ surface # "deleted"
    <3>1. outputs' = Without(outputs, o)
      BY <2>1, <2>3
    <3>2. /\ ToSet(outputs') = ToSet(outputs) \ {o}
          /\ \A j, k \in DOMAIN outputs' : outputs'[j] = outputs'[k] => j = k
      BY <1>0, <3>1, WithoutFacts
    <3>3. \A p : Listed(p)' = IF p = o THEN "off" ELSE Listed(p)
      BY <3>2 DEF Listed
    <3> QED
      BY <1>2, <1>8, <1>9, <1>10, <1>11, <2>1, <3>1, <3>2, <3>3
  <2>4. CASE ~(output[o] = "bound" /\ surface # "deleted")
    <3>1. outputs' = outputs /\ \A p : Listed(p)' = Listed(p)
      BY <2>1, <2>4 DEF Listed
    <3>2. surface = "valid" => o \notin Proxies'
      BY <1>0, <2>1, <2>2, <2>4 DEF Proxies
    <3> QED
      BY <1>0, <1>2, <1>8, <1>10, <1>11, <2>1, <3>1, <3>2
  <2> QED
    BY <2>3, <2>4
<1>14. CASE enterCallback
  <2>1. /\ t = "enter" /\ UNCHANGED output
        /\ outputs' = IF surface = "valid" /\ o \in Proxies THEN Append(outputs, o) ELSE outputs
    BY <1>1, <1>2, <1>14 DEF enterCallback, o, e, Takes, outputVars
  <2>2. CASE surface = "valid" /\ o \in Proxies
    <3>1. /\ DOMAIN outputs' = DOMAIN outputs \union {Len(outputs) + 1}
          /\ outputs'[Len(outputs) + 1] = o /\ \A k \in DOMAIN outputs : outputs'[k] = outputs[k]
      BY <1>0, <2>1, <2>2 DEF Proxies
    <3>2. ToSet(outputs') = ToSet(outputs) \union {o}
      BY <3>1 DEF ToSet
    <3>3. o \notin ToSet(outputs)
      <4>1. OnOf(o)
        BY <2>2 DEF SurfaceInv, OnInv, OnOf
      <4>2. PICK r : <<Listed(o), e, r>> \in Moving(o)
        BY <1>0, <1>2, <4>1, LeadsFrom DEF OnOf
      <4> QED
        BY <1>2, <1>11, <2>1, <4>2
    <3>4. \A j, k \in DOMAIN outputs' : outputs'[j] = outputs'[k] => j = k
      BY <1>0, <3>1, <3>3 DEF ToSet
    <3>5. \A p : Listed(p)' = IF p = o THEN "on" ELSE Listed(p)
      BY <3>2 DEF Listed
    <3> QED
      BY <1>2, <1>8, <1>11, <2>1, <2>2, <3>4, <3>5
  <2>3. CASE ~(surface = "valid" /\ o \in Proxies)
    <3>1. outputs' = outputs /\ \A p : Listed(p)' = Listed(p)
      BY <2>1, <2>3 DEF Listed
    <3>2. surface = "valid" => o \notin Proxies'
      BY <1>6, <2>3
    <3> QED
      BY <1>0, <1>2, <1>8, <1>10, <1>11, <2>1, <3>1, <3>2
  <2> QED
    BY <2>2, <2>3
<1>15. CASE leaveCallback
  <2>1. /\ t = "leave" /\ UNCHANGED output
        /\ outputs' = IF surface = "valid" /\ o \in Proxies THEN Without(outputs, o) ELSE outputs
    BY <1>1, <1>2, <1>15 DEF leaveCallback, o, e, Takes, outputVars
  <2>2. CASE surface = "valid" /\ o \in Proxies
    <3>1. outputs' = Without(outputs, o)
      BY <2>1, <2>2
    <3>2. /\ ToSet(outputs') = ToSet(outputs) \ {o}
          /\ \A j, k \in DOMAIN outputs' : outputs'[j] = outputs'[k] => j = k
      BY <1>0, <3>1, WithoutFacts
    <3>3. \A p : Listed(p)' = IF p = o THEN "off" ELSE Listed(p)
      BY <3>2 DEF Listed
    <3> QED
      BY <1>2, <1>8, <1>11, <2>1, <2>2, <3>2, <3>3
  <2>3. CASE ~(surface = "valid" /\ o \in Proxies)
    <3>1. outputs' = outputs /\ \A p : Listed(p)' = Listed(p)
      BY <2>1, <2>3 DEF Listed
    <3>2. surface = "valid" => o \notin Proxies'
      BY <1>6, <2>3
    <3> QED
      BY <1>0, <1>2, <1>8, <1>10, <1>11, <2>1, <3>1, <3>2
  <2> QED
    BY <2>2, <2>3
<1>16. CASE addMode \/ frameCallback
  <2>1. UNCHANGED outputs /\ t \in {"mode", "frame"}
    BY <1>1, <1>16 DEF addMode, frameCallback, surfaceVars, Takes
  <2> QED
    BY <1>12, <2>1
<1> QED
  BY <1>13, <1>14, <1>15, <1>16 DEF DispatchEvent
-----------------------------------------------------------------------------
OutputsInv == Inv /\ ModesInv /\ SurfaceInv

\* The inductive invariant: the frames, the modes and the outputs, each with what
\* is on its way about them.
THEOREM Invariance == Spec => []OutputsInv
<1>1. Init => OutputsInv
  <2> SUFFICES ASSUME Init PROVE OutputsInv
    OBVIOUS
  <2>1. TypesInv
    BY OutputsAssumption DEF Init, TypesInv
  <2>2. NoneInv /\ ListInv /\ NewInv /\ CurrentInv
    BY DEF Init, NoneInv, ListInv, NewInv, CurrentInv, ToSet
  <2>3. SurfaceInv
    BY DEF Init, SurfaceInv, UnplugInv, BeforeInv, OnInv
  <2> QED
    BY <2>1, <2>2, <2>3, Initially DEF OutputsInv, ModesInv
<1>2. OutputsInv /\ [Next]_vars => OutputsInv'
  <2> SUFFICES ASSUME OutputsInv, [Next]_vars PROVE OutputsInv'
    OBVIOUS
  <2> USE DEF OutputsInv
  <2>1. WireInv /\ TypesInv /\ NoneInv
    BY DEF Inv, ModesInv
  <2>2. CASE ServerNext /\ undefined = "no" /\ UNCHANGED undefined
    BY <2>1, <2>2, ServerSteps, ServerKeepsModes, ServerKeepsSurface
  <2>3. CASE UserNext /\ undefined = "no" /\ UNCHANGED undefined
    BY <2>1, <2>3, UserSteps, UserKeepsModes, UserKeepsSurface
  <2>4. CASE DispatchEvent /\ undefined = "no"
    BY <2>1, <2>4, EventSteps, EventsKeepModes, EventsKeepSurface
  <2>5. CASE UNCHANGED vars
    <3> USE <2>5 DEF vars, serverVars, outputVars, surfaceVars
    <3>1. Inv'
      BY FramesAlone DEF Inv, WireInv, FramesComing
    <3>2. TypesInv' /\ NoneInv' /\ ListInv' /\ NewInv'
      BY DEF ModesInv, TypesInv, NoneInv, ListInv, NewInv
    <3>3. CurrentInv'
      BY DEF ModesInv, CurrentInv, CurrentOf, CurrentAt
    <3>4. UnplugInv' /\ BeforeInv'
      BY DEF SurfaceInv, UnplugInv, BeforeInv
    <3>5. OnInv'
      <4>1. \A o : OnOf(o)' <=> OnOf(o)
        BY MovingStays DEF OnOf, Listed, Shown
      <4> QED
        BY <4>1 DEF SurfaceInv, OnInv, OnOf, Proxies
    <3> QED
      BY <3>1, <3>2, <3>3, <3>4, <3>5 DEF ModesInv, SurfaceInv
  <2> QED
    BY <2>2, <2>3, <2>4, <2>5 DEF Next
<1> QED
  BY <1>1, <1>2, PTL DEF Spec

\* The attributes of outputs and surface stay within their types, and so does
\* what the compositor has on its way (modeCallback, enterCallback).
THEOREM TypeCorrect == Spec => []TypeOK
<1>1. OutputsInv => TypeOK
  BY DEF OutputsInv, Inv, WireInv, FrameInv, ModesInv, TypesInv, SurfaceInv, OnInv,
         TypeOK, Entry
<1> QED
  BY <1>1, Invariance, PTL

\* addMode() lists no mode twice, moves the flag to the mode that became
\* current, and with nothing on its way that is the mode the output is in, for
\* any number of modes and changes, up to the step in which it loses the end of
\* its list.
THEOREM ModesAreFollowed == Spec => []ModesFollow
<1>1. OutputsInv => ModesFollow
  <2> SUFFICES ASSUME OutputsInv, NEW o \in OutputIds
               PROVE  LET list == modes[o]
                          flagged == {k \in DOMAIN list : list[k].current}
                      IN  /\ \A j, k \in DOMAIN list : list[j].mode = list[k].mode => j = k
                          /\ {list[k].mode : k \in flagged} = {currentMode[o]} \ {0}
                          /\ output[o] = "bound" /\ o \notin gone /\ undefined = "no"
                               /\ (\A k \in DOMAIN events :
                                     events[k].type # "mode" \/ events[k].output # o)
                               => currentMode[o] = inMode[o]
    BY DEF ModesFollow
  <2>1. /\ \A j, k \in DOMAIN modes[o] : modes[o][j].mode = modes[o][k].mode => j = k
        /\ \A k \in DOMAIN modes[o] : modes[o][k].current <=> modes[o][k].mode = currentMode[o]
        /\ currentMode[o] # 0 => \E k \in DOMAIN modes[o] : modes[o][k].mode = currentMode[o]
    BY DEF OutputsInv, ModesInv, ListInv
  <2>2. \A k \in DOMAIN modes[o] : modes[o][k].mode # 0
    <3>1. modes[o] \in Seq(Entry)
      BY DEF OutputsInv, ModesInv, TypesInv
    <3>2. \A k \in DOMAIN modes[o] : modes[o][k] \in Entry
      BY <3>1, Element
    <3> QED
      BY <3>2 DEF Entry, Modes
  <2>3. undefined = "no" /\ output[o] = "bound" /\ o \notin gone => CurrentOf(o)
    BY DEF OutputsInv, ModesInv, CurrentInv
  <2> QED
    BY <2>1, <2>2, <2>3 DEF CurrentOf, CurrentAt
<1> QED
  BY <1>1, Invariance, PTL

\* A surface lists an Output once if it is on it and not otherwise, once nothing
\* is on its way: enter, leave and removed() replay what happens in the
\* compositor, in whatever order outputs are created, deleted, entered, left
\* and unplugged.
THEOREM SurfaceIsFollowed == Spec => []SurfaceFollows
<1>1. OutputsInv => SurfaceFollows
  <2> SUFFICES ASSUME OutputsInv, surface = "valid", events = <<>>, NEW o \in Proxies
               PROVE  Cardinality({k \in DOMAIN outputs : outputs[k] = o}) =
                        IF o \in on \ gone THEN 1 ELSE 0
    BY DEF SurfaceFollows
  <2> DEFINE places == {k \in DOMAIN outputs : outputs[k] = o}
  <2>1. Leads(Places, Moving(o), Listed(o), <<>>, Shown(o))
    BY DEF OutputsInv, SurfaceInv, OnInv
  <2>2. Listed(o) \in Places
    BY DEF Listed, Places
  <2>3. Listed(o) = Shown(o)
    BY <2>1, <2>2, LeadsNowhere
  <2>4. o \in ToSet(outputs) <=> o \in on \ gone
    BY <2>3 DEF Listed, Shown
  <2>5. \A j, k \in DOMAIN outputs : outputs[j] = outputs[k] => j = k
    BY DEF OutputsInv, SurfaceInv, OnInv
  <2>6. CASE o \in on \ gone
    <3>1. PICK k \in DOMAIN outputs : outputs[k] = o
      BY <2>4, <2>6 DEF ToSet
    <3>2. places = {k}
      BY <2>5, <3>1
    <3> QED
      BY <2>6, <3>2, FS_Singleton
  <2>7. CASE o \notin on \ gone
    <3>1. places = {}
      BY <2>4, <2>7 DEF ToSet
    <3> QED
      BY <2>7, <3>1, FS_EmptySet
  <2> QED
    BY <2>6, <2>7
<1> QED
  BY <1>1, Invariance, PTL

\* setupFrameCallback() and handleFrameCallback() take turns for a surface
\* that is valid: a frame is owed if and only if the flag is set, and never
\* two, whatever happens to outputs and to the surface in between.
THEOREM FramesAreOwed == Spec => []FrameIsOwed
<1>1. OutputsInv => FrameIsOwed
  BY DEF OutputsInv, Inv, FrameInv
<1> QED
  BY <1>1, Invariance, PTL
=============================================================================
