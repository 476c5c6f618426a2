------------------------------- MODULE TextInput -------------------------------
(***************************************************************************)
(* TextInputUnstableV0 and V2: what the input method composes and commits  *)
(* arrives in several events that are put together, and the surrounding    *)
(* text is sent with its indices turned from UTF-16 into bytes.  A         *)
(* composed text is the number of its bytes.  The input method is external.*)
(***************************************************************************)
EXTENDS Integers, Sequences, Subsequences

CONSTANTS
    Lengths,    \* Lengths of composed texts and of what is deleted.
    Characters, \* Characters of the surrounding text, out of the domain of Units.
    Modulus,    \* How many numbers there are in a uint32_t: smaller in an instance.
    MaxText,    \* Bound: the characters of a surrounding text.
    MaxEvents   \* Bound: how many events are on their way.

Versions == {"V0", "V2"}
Positions == {-1} \cup Lengths

\* The UTF-16 units of a character; "high" and "low" are the halves of a pair.
Units == [ascii |-> <<"ascii">>, latin |-> <<"latin">>, han |-> <<"han">>,
          emoji |-> <<"high", "low">>]

\* How many bytes of UTF-8 a unit or character takes; one that is invalid is replaced.
Bytes == [ascii |-> 1, latin |-> 2, han |-> 3, emoji |-> 4, invalid |-> 3]

VARIABLES
    version,        \* The protocol.
    pendingPreEdit, currentPreEdit,
    pendingCommit, currentCommit,
    said,           \* What the input method has said since its last strings.
    events,         \* The events on their way.
    meant,          \* What the input method meant by the last strings that arrived.
    asked           \* The last set_surrounding_text: the user's text and the request's.

vars == <<version, pendingPreEdit, currentPreEdit, pendingCommit, currentCommit, said,
          events, meant, asked>>

NoPreEdit == [text |-> 0, cursor |-> 0, cursorSet |-> FALSE]
NoCommit == [text |-> 0, cursor |-> 0, anchor |-> 0, beforeLength |-> 0, afterLength |-> 0]
Start == [preEdit |-> NoPreEdit, commit |-> NoCommit]
Nothing == [kind |-> "nothing"]

TypeOK ==
    /\ version \in Versions
    /\ {pendingPreEdit, currentPreEdit} \subseteq
           [text : Lengths \cup {0}, cursor : Positions \cup {0}, cursorSet : BOOLEAN]
    /\ {pendingCommit, currentCommit} \subseteq
           [text : Lengths \cup {0}, cursor : Positions \cup {0}, anchor : Positions \cup {0},
            beforeLength : Nat, afterLength : 0 .. Modulus - 1]
    /\ \A i \in DOMAIN events :
           events[i].kind \in {"preeditCursor", "preeditString", "cursorPosition",
                               "deleteSurroundingText", "commitString"}
    /\ DOMAIN said = {"preEdit", "commit"} /\ DOMAIN meant = DOMAIN said
    /\ asked.kind \in {"nothing", "setSurroundingText"}

Init ==
    /\ version \in Versions
    /\ pendingPreEdit = NoPreEdit /\ currentPreEdit = NoPreEdit
    /\ pendingCommit = NoCommit /\ currentCommit = NoCommit
    /\ said = Start /\ meant = Start
    /\ events = <<>>
    /\ asked = Nothing

-----------------------------------------------------------------------------
\* The input method.  Cursor, position and deletion wait for the next string, which
\* carries, beside the text, what they mean together.
Send(event) ==
    /\ Len(events) < MaxEvents
    /\ events' = Append(events, event)
    /\ asked' = Nothing
    /\ UNCHANGED <<version, pendingPreEdit, currentPreEdit, pendingCommit, currentCommit,
                   meant>>

SendPreeditCursor ==
    \E cursor \in Positions :
        /\ said' = [said EXCEPT !.preEdit.cursor = cursor, !.preEdit.cursorSet = TRUE]
        /\ Send([kind |-> "preeditCursor", index |-> cursor])

\* Without a cursor it is at the end of the text.
SendPreeditString ==
    \E text \in Lengths :
        /\ Send([kind |-> "preeditString", text |-> text,
                 meant |-> [said.preEdit EXCEPT
                     !.text = text, !.cursor = IF said.preEdit.cursorSet THEN @ ELSE text]])
        /\ said' = [said EXCEPT !.preEdit = NoPreEdit]

SendCursorPosition ==
    \E cursor \in Positions : \E anchor \in {0, cursor} :
        /\ said' = [said EXCEPT !.commit.cursor = cursor, !.commit.anchor = anchor]
        /\ Send([kind |-> "cursorPosition", index |-> cursor, anchor |-> anchor])

\* What is to be deleted lies around the cursor: before and after are its parts.  In
\* the first version it is told as a start, at or before the cursor, and a length.
SendDeleteSurroundingText ==
    \E before, after \in Lengths :
        /\ said' = [said EXCEPT !.commit.beforeLength = before,
                                !.commit.afterLength = after]
        /\ Send([kind |-> "deleteSurroundingText",
                 index |-> IF version = "V0" THEN -before ELSE before,
                 length |-> IF version = "V0" THEN before + after ELSE after])

SendCommitString ==
    \E text \in Lengths :
        /\ Send([kind |-> "commitString", text |-> text,
                 meant |-> [said.commit EXCEPT !.text = text]])
        /\ said' = [said EXCEPT !.commit = NoCommit]

-----------------------------------------------------------------------------
Takes(kind) ==
    /\ events # <<>>
    /\ Head(events).kind = kind
    /\ events' = Tail(events)
    /\ asked' = Nothing
    /\ UNCHANGED <<version, said>>

preeditCursorCallback ==
    /\ Takes("preeditCursor")
    /\ pendingPreEdit' = [pendingPreEdit EXCEPT !.cursor = Head(events).index,
                                                !.cursorSet = TRUE]
    /\ UNCHANGED <<currentPreEdit, pendingCommit, currentCommit, meant>>

\* The composing text that is made current by a preedit string.
Composed(text) ==
    [pendingPreEdit EXCEPT !.text = text,
                           !.cursor = IF pendingPreEdit.cursorSet THEN @ ELSE text]

preeditStringCallback ==
    /\ Takes("preeditString")
    /\ currentPreEdit' = Composed(Head(events).text)
    /\ pendingPreEdit' = NoPreEdit
    /\ meant' = [meant EXCEPT !.preEdit = Head(events).meant]
    /\ UNCHANGED <<pendingCommit, currentCommit>>

cursorPositionCallback ==
    /\ Takes("cursorPosition")
    /\ pendingCommit' = [pendingCommit EXCEPT !.cursor = Head(events).index,
                                              !.anchor = Head(events).anchor]
    /\ UNCHANGED <<pendingPreEdit, currentPreEdit, currentCommit, meant>>

\* An int32_t made absolute, and a difference of uint32_t, in the first version.
deleteSurroundingTextCallback ==
    /\ Takes("deleteSurroundingText")
    /\ LET e == Head(events)
           before == IF e.index < 0 THEN -e.index ELSE e.index
           after == IF version = "V0" THEN (e.length - before) % Modulus ELSE e.length
       IN  pendingCommit' = [pendingCommit EXCEPT !.beforeLength = before,
                                                  !.afterLength = after]
    /\ UNCHANGED <<pendingPreEdit, currentPreEdit, currentCommit, meant>>

commitStringCallback ==
    /\ Takes("commitString")
    /\ currentCommit' = [pendingCommit EXCEPT !.text = Head(events).text]
    /\ pendingCommit' = NoCommit
    /\ meant' = [meant EXCEPT !.commit = Head(events).meant]
    /\ UNCHANGED <<pendingPreEdit, currentPreEdit>>

-----------------------------------------------------------------------------
\* Whether the unit is the first half of a pair.
Opens(units, i) ==
    units[i] = "high" /\ i < Len(units) /\ units[i + 1] = "low"

\* What QString::toUtf8() writes at a unit, each byte named by its character and its
\* place in it: a pair is written at its first half, a half on its own is invalid.
Written(units, i) ==
    LET c == IF Opens(units, i) THEN "emoji"
             ELSE IF units[i] \in DOMAIN Bytes THEN units[i] ELSE "invalid"
    IN  IF i > 1 /\ Opens(units, i - 1) THEN <<>>
        ELSE [b \in 1 .. Bytes[c] |-> <<c, b>>]

toUtf8(units) == Joined([i \in DOMAIN units |-> Written(units, i)], 4)

\* QStringView::left()
left(units, n) == SubSeq(units, 1, IF n < Len(units) THEN n ELSE Len(units))

\* The index in bytes.
ByteIndex(units, index) == Len(toUtf8(left(units, index)))

\* It reads no state, so it is looked at before the input method says anything.
setSurroundingText ==
    /\ said = Start /\ meant = Start /\ events = <<>>
    /\ \E text \in UNION {[1 .. n -> Characters] : n \in 0 .. MaxText} :
       LET units == Joined([i \in DOMAIN text |-> Units[text[i]]], 2)
       IN  \E cursor, anchor \in 0 .. Len(units) :
               asked' = [kind |-> "setSurroundingText", units |-> units,
                         cursor |-> cursor, anchor |-> anchor,
                         text |-> toUtf8(units),
                         cursorByte |-> ByteIndex(units, cursor),
                         anchorByte |-> ByteIndex(units, anchor)]
    /\ UNCHANGED <<version, pendingPreEdit, currentPreEdit, pendingCommit, currentCommit,
                   said, events, meant>>

Next ==
    \/ SendPreeditCursor
    \/ SendPreeditString
    \/ SendCursorPosition
    \/ SendDeleteSurroundingText
    \/ SendCommitString
    \/ preeditCursorCallback
    \/ preeditStringCallback
    \/ cursorPositionCallback
    \/ deleteSurroundingTextCallback
    \/ commitStringCallback
    \/ setSurroundingText

Spec == Init /\ [][Next]_vars

-----------------------------------------------------------------------------
\* What is being composed and what was committed last is what the input method meant by
\* the events up to that string, in every order, with nothing left of what it said
\* before the last one (pendingPreEdit and pendingCommit; the first version's
\* deleteSurroundingText).
BatchesAreFollowed == currentPreEdit = meant.preEdit /\ currentCommit = meant.commit

\* Whether an index lies between the halves of a pair.
Splits(units, index) == index \in 1 .. Len(units) - 1 /\ units[index] = "high"

\* The bytes before the cursor and before the anchor are those of the text the user has
\* before them, whatever the characters, unless the index is within a pair
\* (setSurroundingText).
RequestsSayWhatIsMeant ==
    asked.kind = "setSurroundingText" =>
        \A pair \in {<<asked.cursor, asked.cursorByte>>, <<asked.anchor, asked.anchorByte>>} :
            \/ Splits(asked.units, pair[1])
            \/ /\ pair[2] <= Len(asked.text)
               /\ SubSeq(asked.text, 1, pair[2]) = toUtf8(left(asked.units, pair[1]))

=============================================================================
