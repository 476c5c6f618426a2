---------------------- MODULE ConnectionAndPoolProofs ----------------------
(***************************************************************************)
(* Theorems about the two parts of the client that everything else stands  *)
(* on, ShmPool and ConnectionThread.  They have no state in common.        *)
(*                                                                         *)
(* ShmPool: for every set of kinds, every number of buffers and every file *)
(* limit that leaves room for one more buffer in an int32.                 *)
(*                                                                         *)
(* ConnectionThread: for any number of servers, crashes, events and calls  *)
(* of initConnection() the handlers leave one whole connection.  The thread*)
(* is ahead of its user: what the user has set up is decided by the signals*)
(* that wait in inbox.  The invariant says of each position in inbox what  *)
(* the user will have done once it gets there.                             *)
(***************************************************************************)
EXTENDS ShmPool, ConnectionThread, TLAPS

-----------------------------------------------------------------------------
(* ShmPool.                                                                *)


(* The inductive invariant: the properties that are checked say nothing of *)
(* offset, of size, or of the order of the buffers, from which they follow.*)

SizesInv ==
  /\ size \in 1 .. FileLimit
  /\ offset \in 0 .. size
  /\ pool => serverSize = size
  /\ valid => pool
  /\ pool => shm
  /\ ~valid => buffers = <<>>

Layout ==
  /\ \A i \in DOMAIN buffers :
       0 <= buffers[i].off /\ buffers[i].off + Bytes[buffers[i].kind] <= offset
  /\ \A i, j \in DOMAIN buffers :
       i < j => buffers[i].off + Bytes[buffers[i].kind] <= buffers[j].off

IInv ==
  /\ PoolTypeOK
  /\ SizesInv
  /\ Layout
  /\ OneHolder
  /\ SharedAddressesFresh
-----------------------------------------------------------------------------
(* The sizes getBuffer computes with do not overflow.                      *)
LEMMA NoOverflow ==
  ASSUME FileFitsInt, PoolTypeOK, SizesInv, NEW k \in Kinds
  PROVE  /\ Bytes[k] \in Nat \ {0}
         /\ Wrap(offset + Bytes[k]) = offset + Bytes[k]
         /\ Grown(k) = size + Bytes[k]
<1>1. Bytes[k] \in Nat \ {0} /\ FileLimit \in Nat /\ MaxInt \in Nat
  BY ShmPoolAssumption
<1>2. FileLimit + Bytes[k] <= MaxInt
  BY DEF FileFitsInt
<1>3. offset + Bytes[k] <= MaxInt /\ size + Bytes[k] <= MaxInt
  BY <1>1, <1>2 DEF SizesInv
<1> QED
  BY <1>1, <1>3 DEF Wrap, Grown, PoolTypeOK

(* Appending a buffer at offset keeps the buffers in order and apart.      *)
LEMMA AppendKeepsLayout ==
  ASSUME FileFitsInt, PoolTypeOK, SizesInv, Layout, NEW k \in Kinds, AppendBuffer(k)
  PROVE  Layout' /\ buffers' \in Seq(Buffer) /\ offset' = offset + Bytes[k]
         /\ Len(buffers') = Len(buffers) + 1
<1> DEFINE b == [kind |-> k, off |-> offset, released |-> FALSE, used |-> FALSE]
<1>1. /\ Bytes[k] \in Nat \ {0}
      /\ offset' = offset + Bytes[k]
  BY NoOverflow DEF AppendBuffer
<1>2. b \in Buffer
  BY DEF Buffer, PoolTypeOK
<1>3. buffers' = Append(buffers, b)
  BY DEF AppendBuffer
<1>4. /\ buffers' \in Seq(Buffer)
      /\ Len(buffers') = Len(buffers) + 1
      /\ \A i \in 1 .. Len(buffers) : buffers'[i] = buffers[i]
      /\ buffers'[Len(buffers) + 1] = b
  BY <1>2, <1>3 DEF PoolTypeOK
<1>5. /\ DOMAIN buffers = 1 .. Len(buffers)
      /\ DOMAIN buffers' = 1 .. Len(buffers) + 1
      /\ Len(buffers) \in Nat
  BY <1>4 DEF PoolTypeOK
<1>6. \A i \in DOMAIN buffers : /\ buffers[i].off \in Int
                                /\ buffers[i].kind \in Kinds
                                /\ Bytes[buffers[i].kind] \in Nat
  <2>1. \A i \in DOMAIN buffers : buffers[i] \in Buffer
    BY DEF PoolTypeOK
  <2>2. \A i \in DOMAIN buffers : buffers[i].off \in Int /\ buffers[i].kind \in Kinds
    BY <2>1 DEF Buffer
  <2> QED
    BY <2>2, ShmPoolAssumption
<1>7. ASSUME NEW i \in DOMAIN buffers'
      PROVE  0 <= buffers'[i].off /\ buffers'[i].off + Bytes[buffers'[i].kind] <= offset'
  <2>1. CASE i = Len(buffers) + 1
    BY <2>1, <1>1, <1>4 DEF SizesInv
  <2>2. CASE i \in DOMAIN buffers
    <3>1. buffers[i].off + Bytes[buffers[i].kind] <= offset /\ 0 <= buffers[i].off
      BY <2>2 DEF Layout
    <3> QED
      BY <2>2, <3>1, <1>1, <1>4, <1>5, <1>6 DEF PoolTypeOK
  <2> QED
    BY <2>1, <2>2, <1>5
<1>8. ASSUME NEW i \in DOMAIN buffers', NEW j \in DOMAIN buffers', i < j
      PROVE  buffers'[i].off + Bytes[buffers'[i].kind] <= buffers'[j].off
  <2>1. i \in DOMAIN buffers
    BY <1>5, <1>8
  <2>2. CASE j = Len(buffers) + 1
    BY <2>1, <2>2, <1>4, <1>5 DEF Layout
  <2>3. CASE j \in DOMAIN buffers
    BY <2>1, <2>3, <1>4, <1>5, <1>8 DEF Layout
  <2> QED
    BY <2>2, <2>3, <1>5
<1> QED
  BY <1>1, <1>4, <1>7, <1>8 DEF Layout

(* A step that touches only the flags of one buffer moves no bytes.        *)
LEMMA FlagsKeepLayout ==
  ASSUME PoolTypeOK, SizesInv, Layout, UNCHANGED poolVars,
         NEW i \in DOMAIN buffers, NEW b \in Buffer,
         b.kind = buffers[i].kind, b.off = buffers[i].off,
         buffers' = [buffers EXCEPT ![i] = b]
  PROVE  /\ Layout' /\ SizesInv'
         /\ buffers' \in Seq(Buffer) /\ DOMAIN buffers' = DOMAIN buffers
         /\ buffers'[i] = b
         /\ \A j \in DOMAIN buffers : j # i => buffers'[j] = buffers[j]
<1>1. buffers \in Seq(Buffer) /\ offset' = offset
  BY DEF PoolTypeOK, poolVars
<1>2. /\ buffers' \in Seq(Buffer)
      /\ DOMAIN buffers' = DOMAIN buffers
      /\ buffers'[i] = b
      /\ \A j \in DOMAIN buffers : j # i => buffers'[j] = buffers[j]
  BY <1>1
<1>3. \A j \in DOMAIN buffers : /\ buffers'[j].off = buffers[j].off
                                /\ buffers'[j].kind = buffers[j].kind
  BY <1>2
<1>4. Layout'
  BY <1>1, <1>2, <1>3 DEF Layout
<1>5. buffers # <<>>
  BY <1>1
<1>6. SizesInv'
  BY <1>5 DEF SizesInv, poolVars
<1> QED
  BY <1>2, <1>4, <1>6

LEMMA InitInv == PoolInit => IInv
<1> SUFFICES ASSUME PoolInit PROVE IInv
  OBVIOUS
<1>1. PoolTypeOK
  <2>1. buffers = <<>> /\ buffers \in Seq(Buffer)
    BY DEF PoolInit
  <2>2. size \in Int /\ serverSize \in Int /\ offset \in Int
    BY ShmPoolAssumption DEF PoolInit
  <2>4. /\ shm \in BOOLEAN /\ fd \in BOOLEAN /\ pool \in BOOLEAN /\ valid \in BOOLEAN
        /\ mapping \in {"none", "mapped", "failed"}
    BY DEF PoolInit
  <2>3. drawing = {} /\ busy = {} /\ releasing = {} /\ stale = {}
    BY DEF PoolInit
  <2> QED
    BY <2>1, <2>2, <2>3, <2>4 DEF PoolTypeOK
<1>2. SizesInv
  BY ShmPoolAssumption DEF PoolInit, SizesInv
<1>3. Layout /\ OneHolder /\ SharedAddressesFresh
  BY DEF PoolInit, Layout, OneHolder, SharedAddressesFresh
<1> QED
  BY <1>1, <1>2, <1>3 DEF IInv

LEMMA SetupInv ==
  ASSUME IInv, NEW outcome \in Outcomes, Setup(outcome)
  PROVE  IInv'
<1>1. UNCHANGED <<size, offset, buffers, holderVars>>
  BY DEF Setup
<1>2. buffers = <<>>
  BY DEF IInv, SizesInv, Setup, PoolTypeOK
<1>3. PoolTypeOK'
  <2>1. shm' \in BOOLEAN /\ fd' \in BOOLEAN /\ pool' \in BOOLEAN /\ valid' \in BOOLEAN
    <3>1. /\ (outcome # "no file") \in BOOLEAN
          /\ (outcome \in {"no mapping", "ok"}) \in BOOLEAN
          /\ (outcome = "ok") \in BOOLEAN
      OBVIOUS
    <3> QED
      BY <3>1 DEF Setup
  <2>2. mapping' \in {"none", "mapped", "failed"}
    BY Zenon DEF Setup
  <2>3. serverSize' = size \/ serverSize' = 0
    BY Zenon DEF Setup
  <2>4. size \in Int
    BY DEF IInv, PoolTypeOK
  <2>5. serverSize' \in Int
    BY <2>3, <2>4
  <2> QED
    BY <1>1, <2>1, <2>2, <2>5 DEF IInv, PoolTypeOK, holderVars, Used
<1>4. SizesInv'
  BY <1>1, <1>2 DEF Setup, IInv, SizesInv
<1>5. Layout' /\ OneHolder' /\ SharedAddressesFresh'
  <2>1. stale = {}
    BY <1>2 DEF IInv, PoolTypeOK, Used
  <2> QED
    BY <1>1, <2>1 DEF IInv, Layout, OneHolder, SharedAddressesFresh, holderVars
<1> QED
  BY <1>3, <1>4, <1>5 DEF IInv

LEMMA TeardownInv ==
  ASSUME IInv, Teardown
  PROVE  IInv'
<1>1. PoolTypeOK'
  <2>1. buffers' = <<>> /\ buffers' \in Seq(Buffer)
    BY DEF Teardown
  <2>2. size' \in Int /\ serverSize' \in Int /\ offset' \in Int
    BY DEF Teardown, IInv, PoolTypeOK
  <2>4. /\ shm' \in BOOLEAN /\ fd' \in BOOLEAN /\ pool' \in BOOLEAN /\ valid' \in BOOLEAN
        /\ mapping' \in {"none", "mapped", "failed"}
    BY DEF Teardown
  <2>3. drawing' = {} /\ busy' = {} /\ releasing' = {} /\ stale' = {}
    BY DEF Teardown
  <2> QED
    BY <2>1, <2>2, <2>3, <2>4 DEF PoolTypeOK
<1>2. SizesInv'
  BY DEF IInv, PoolTypeOK, SizesInv, Teardown
<1>3. Layout' /\ OneHolder' /\ SharedAddressesFresh'
  BY DEF Teardown, Layout, OneHolder, SharedAddressesFresh
<1> QED
  BY <1>1, <1>2, <1>3 DEF IInv

LEMMA SetReleasedStep ==
  ASSUME PoolTypeOK, SizesInv, Layout, UNCHANGED poolVars,
         NEW i \in DOMAIN buffers, NEW v \in BOOLEAN,
         buffers' = [buffers EXCEPT ![i].released = v]
  PROVE  /\ Layout' /\ SizesInv' /\ Used' = Used
         /\ buffers' \in Seq(Buffer) /\ DOMAIN buffers' = DOMAIN buffers
         /\ buffers'[i].released = v
         /\ \A j \in DOMAIN buffers : j # i => buffers'[j] = buffers[j]
<1> DEFINE b == [buffers[i] EXCEPT !.released = v]
<1>1. buffers[i] \in Buffer
  BY DEF PoolTypeOK
<1>2. /\ b \in Buffer /\ b.kind = buffers[i].kind /\ b.off = buffers[i].off
      /\ b.released = v /\ b.used = buffers[i].used
      /\ buffers' = [buffers EXCEPT ![i] = b]
  BY <1>1 DEF Buffer
<1> HIDE DEF b
<1>3. /\ Layout' /\ SizesInv'
      /\ buffers' \in Seq(Buffer) /\ DOMAIN buffers' = DOMAIN buffers
      /\ buffers'[i] = b
      /\ \A j \in DOMAIN buffers : j # i => buffers'[j] = buffers[j]
  BY <1>2, FlagsKeepLayout
<1> QED
  BY <1>2, <1>3 DEF Used

LEMMA SetUsedStep ==
  ASSUME PoolTypeOK, SizesInv, Layout, UNCHANGED poolVars,
         NEW i \in DOMAIN buffers, NEW v \in BOOLEAN,
         buffers' = [buffers EXCEPT ![i].used = v]
  PROVE  /\ Layout' /\ SizesInv'
         /\ buffers' \in Seq(Buffer) /\ DOMAIN buffers' = DOMAIN buffers
         /\ buffers'[i].used = v
         /\ \A j \in DOMAIN buffers : /\ buffers'[j].released = buffers[j].released
                                      /\ j # i => buffers'[j] = buffers[j]
<1> DEFINE b == [buffers[i] EXCEPT !.used = v]
<1>1. buffers[i] \in Buffer
  BY DEF PoolTypeOK
<1>2. /\ b \in Buffer /\ b.kind = buffers[i].kind /\ b.off = buffers[i].off
      /\ b.released = buffers[i].released /\ b.used = v
      /\ buffers' = [buffers EXCEPT ![i] = b]
  BY <1>1 DEF Buffer
<1> HIDE DEF b
<1>3. /\ Layout' /\ SizesInv'
      /\ buffers' \in Seq(Buffer) /\ DOMAIN buffers' = DOMAIN buffers
      /\ buffers'[i] = b
      /\ \A j \in DOMAIN buffers : j # i => buffers'[j] = buffers[j]
  BY <1>2, FlagsKeepLayout
<1> QED
  BY <1>2, <1>3

LEMMA ReuseInv ==
  ASSUME IInv, NEW k \in Kinds, Reuse(k)
  PROVE  IInv'
<1> USE DEF IInv
<1>1. PICK i \in DOMAIN buffers :
        /\ Reusable(i, k)
        /\ buffers' = [buffers EXCEPT ![i].released = FALSE]
        /\ drawing' = drawing \union {i}
  BY DEF Reuse
<1>2. UNCHANGED <<poolVars, busy, releasing, stale>>
  BY DEF Reuse
<1>3. /\ Layout' /\ SizesInv' /\ Used' = Used
      /\ buffers' \in Seq(Buffer) /\ DOMAIN buffers' = DOMAIN buffers
      /\ ~buffers'[i].released
      /\ \A j \in DOMAIN buffers : j # i => buffers'[j] = buffers[j]
  BY <1>1, <1>2, SetReleasedStep
<1>4. PoolTypeOK'
  BY <1>1, <1>2, <1>3 DEF PoolTypeOK, poolVars
<1>5. OneHolder'
  BY <1>1, <1>2, <1>3 DEF OneHolder, Reusable
<1>6. SharedAddressesFresh'
  BY <1>2 DEF SharedAddressesFresh, poolVars
<1> QED
  BY <1>3, <1>4, <1>5, <1>6

LEMMA CreateInPlaceInv ==
  ASSUME FileFitsInt, IInv, NEW k \in Kinds, CreateInPlace(k)
  PROVE  IInv'
<1> USE DEF IInv
<1>1. /\ MustCreate(k) /\ Fits(k) /\ AppendBuffer(k)
      /\ UNCHANGED <<mapping, size, serverSize, stale>>
  BY DEF CreateInPlace
<1>2. Layout' /\ buffers' \in Seq(Buffer) /\ offset' = offset + Bytes[k]
  BY <1>1, AppendKeepsLayout
<1>3. offset + Bytes[k] <= size /\ Bytes[k] \in Nat
  BY <1>1, NoOverflow DEF Fits
<1>4. SizesInv'
  BY <1>1, <1>2, <1>3 DEF SizesInv, AppendBuffer, MustCreate
<1>5. /\ DOMAIN buffers' = DOMAIN buffers \union {Len(buffers) + 1}
      /\ Len(buffers) + 1 \notin DOMAIN buffers
      /\ \A i \in DOMAIN buffers : buffers'[i] = buffers[i]
      /\ ~buffers'[Len(buffers) + 1].released
      /\ ~buffers'[Len(buffers) + 1].used
  BY <1>1 DEF AppendBuffer, PoolTypeOK
<1>6. Used' = Used
  BY <1>5 DEF Used
<1>7. PoolTypeOK'
  BY <1>1, <1>2, <1>3, <1>5, <1>6 DEF PoolTypeOK, AppendBuffer
<1>8. OneHolder'
  BY <1>1, <1>5 DEF OneHolder, AppendBuffer, PoolTypeOK
<1>9. SharedAddressesFresh'
  BY <1>1 DEF SharedAddressesFresh
<1> QED
  BY <1>2, <1>4, <1>7, <1>8, <1>9

LEMMA CreateAfterResizeInv ==
  ASSUME FileFitsInt, IInv, NEW k \in Kinds, CreateAfterResize(k)
  PROVE  IInv'
<1> USE DEF IInv
<1>1. /\ MustCreate(k) /\ Truncatable(Grown(k)) /\ AppendBuffer(k)
      /\ size' = Grown(k) /\ serverSize' = Grown(k)
      /\ mapping' = "mapped" /\ stale' = {}
  BY DEF CreateAfterResize
<1>2. Layout' /\ buffers' \in Seq(Buffer) /\ offset' = offset + Bytes[k]
  BY <1>1, AppendKeepsLayout
<1>3. Grown(k) = size + Bytes[k] /\ Bytes[k] \in Nat \ {0} /\ Grown(k) <= FileLimit
  BY <1>1, NoOverflow DEF Truncatable
<1>4. SizesInv'
  BY <1>1, <1>2, <1>3 DEF SizesInv, AppendBuffer, MustCreate
<1>5. /\ DOMAIN buffers' = DOMAIN buffers \union {Len(buffers) + 1}
      /\ Len(buffers) + 1 \notin DOMAIN buffers
      /\ \A i \in DOMAIN buffers : buffers'[i] = buffers[i]
      /\ ~buffers'[Len(buffers) + 1].released
  BY <1>1 DEF AppendBuffer, PoolTypeOK
<1>6. PoolTypeOK'
  BY <1>1, <1>2, <1>3, <1>5 DEF PoolTypeOK, AppendBuffer
<1>7. OneHolder'
  BY <1>1, <1>5 DEF OneHolder, AppendBuffer, PoolTypeOK
<1>8. SharedAddressesFresh'
  BY <1>1 DEF SharedAddressesFresh
<1> QED
  BY <1>2, <1>4, <1>6, <1>7, <1>8

LEMMA ResizeFailsToMapInv ==
  ASSUME FileFitsInt, IInv, NEW k \in Kinds, ResizeFailsToMap(k)
  PROVE  IInv'
<1> USE DEF IInv
<1>1. /\ MustCreate(k) /\ Truncatable(Grown(k))
      /\ size' = Grown(k) /\ serverSize' = Grown(k)
      /\ mapping' = "failed" /\ stale' = Used
      /\ UNCHANGED <<shm, fd, pool, valid, offset, buffers, drawing, busy, releasing>>
  BY DEF ResizeFailsToMap
<1>2. Grown(k) = size + Bytes[k] /\ Bytes[k] \in Nat \ {0} /\ Grown(k) <= FileLimit
  BY <1>1, NoOverflow DEF Truncatable
<1>3. SizesInv'
  BY <1>1, <1>2 DEF SizesInv, MustCreate
<1>4. PoolTypeOK'
  BY <1>1, <1>2 DEF PoolTypeOK, Used
<1>5. Layout' /\ OneHolder' /\ SharedAddressesFresh'
  BY <1>1 DEF Layout, OneHolder, SharedAddressesFresh
<1> QED
  BY <1>3, <1>4, <1>5

LEMMA UseBufferInv ==
  ASSUME IInv, NEW i \in DOMAIN buffers, UseBuffer(i)
  PROVE  IInv'
<1> USE DEF IInv
<1>1. CASE Commit(i)
  <2>1. /\ i \in drawing /\ drawing' = drawing \ {i} /\ busy' = busy \union {i}
        /\ UNCHANGED <<poolVars, buffers, releasing, stale>>
    BY <1>1 DEF Commit
  <2>2. PoolTypeOK'
    BY <2>1 DEF PoolTypeOK, poolVars, Used
  <2>3. OneHolder'
    BY <2>1 DEF OneHolder
  <2> QED
    BY <2>1, <2>2, <2>3 DEF SizesInv, Layout, SharedAddressesFresh, poolVars
<1>2. CASE CompositorReleases(i)
  <2>1. /\ i \in busy /\ busy' = busy \ {i} /\ releasing' = releasing \union {i}
        /\ UNCHANGED <<poolVars, buffers, drawing, stale>>
    BY <1>2 DEF CompositorReleases
  <2>2. PoolTypeOK'
    BY <2>1 DEF PoolTypeOK, poolVars, Used
  <2>3. OneHolder'
    BY <2>1 DEF OneHolder
  <2> QED
    BY <2>1, <2>2, <2>3 DEF SizesInv, Layout, SharedAddressesFresh, poolVars
<1>3. CASE GiveBack(i) \/ ReleaseEvent(i)
  <2>1. /\ i \in drawing \union releasing
        /\ drawing' = drawing \ {i} /\ releasing' = releasing \ {i}
        /\ buffers' = [buffers EXCEPT ![i].released = TRUE]
        /\ UNCHANGED <<poolVars, busy, stale>>
    BY <1>3 DEF GiveBack, ReleaseEvent, OneHolder
  <2>2. /\ Layout' /\ SizesInv' /\ Used' = Used
        /\ buffers' \in Seq(Buffer) /\ DOMAIN buffers' = DOMAIN buffers
        /\ buffers'[i].released
        /\ \A j \in DOMAIN buffers : j # i => buffers'[j] = buffers[j]
    BY <2>1, SetReleasedStep
  <2>3. PoolTypeOK'
    BY <2>1, <2>2 DEF PoolTypeOK, poolVars
  <2>4. OneHolder'
    BY <2>1, <2>2 DEF OneHolder
  <2> QED
    BY <2>1, <2>2, <2>3, <2>4 DEF SharedAddressesFresh, poolVars
<1>4. CASE Redraw(i)
  <2>1. /\ buffers[i].released
        /\ drawing' = drawing \union {i}
        /\ buffers' = [buffers EXCEPT ![i].released = FALSE]
        /\ UNCHANGED <<poolVars, busy, releasing, stale>>
    BY <1>4 DEF Redraw
  <2>2. /\ Layout' /\ SizesInv' /\ Used' = Used
        /\ buffers' \in Seq(Buffer) /\ DOMAIN buffers' = DOMAIN buffers
        /\ ~buffers'[i].released
        /\ \A j \in DOMAIN buffers : j # i => buffers'[j] = buffers[j]
    BY <2>1, SetReleasedStep
  <2>3. PoolTypeOK'
    BY <2>1, <2>2 DEF PoolTypeOK, poolVars
  <2>4. OneHolder'
    BY <2>1, <2>2 DEF OneHolder
  <2> QED
    BY <2>1, <2>2, <2>3, <2>4 DEF SharedAddressesFresh, poolVars
<1>5. CASE SetUsed(i)
  <2>1. /\ buffers' = [buffers EXCEPT ![i].used = TRUE]
        /\ UNCHANGED <<poolVars, holderVars>>
    BY <1>5 DEF SetUsed
  <2>2. /\ Layout' /\ SizesInv'
        /\ buffers' \in Seq(Buffer) /\ DOMAIN buffers' = DOMAIN buffers
        /\ buffers'[i].used
        /\ \A j \in DOMAIN buffers : /\ buffers'[j].released = buffers[j].released
                                     /\ j # i => buffers'[j] = buffers[j]
    BY <2>1, SetUsedStep
  <2>3. ASSUME NEW j \in Used PROVE j \in Used'
    <3>1. CASE j = i
      BY <2>2, <3>1 DEF Used
    <3>2. CASE j # i
      BY <2>2, <3>2 DEF Used
    <3> QED
      BY <3>1, <3>2
  <2>4. PoolTypeOK'
    BY <2>1, <2>2, <2>3 DEF PoolTypeOK, poolVars, holderVars
  <2>5. OneHolder'
    BY <2>1, <2>2 DEF OneHolder, holderVars
  <2> QED
    BY <2>1, <2>2, <2>4, <2>5 DEF SharedAddressesFresh, poolVars, holderVars
<1>6. CASE ClearUsed(i)
  <2>1. /\ buffers' = [buffers EXCEPT ![i].used = FALSE]
        /\ stale' = stale \ {i}
        /\ UNCHANGED <<poolVars, drawing, busy, releasing>>
    BY <1>6 DEF ClearUsed
  <2>2. /\ Layout' /\ SizesInv'
        /\ buffers' \in Seq(Buffer) /\ DOMAIN buffers' = DOMAIN buffers
        /\ \A j \in DOMAIN buffers : /\ buffers'[j].released = buffers[j].released
                                     /\ j # i => buffers'[j] = buffers[j]
    BY <2>1, SetUsedStep
  <2>3. stale' \subseteq Used'
    BY <2>1, <2>2 DEF Used, PoolTypeOK
  <2>4. PoolTypeOK'
    BY <2>1, <2>2, <2>3 DEF PoolTypeOK, poolVars
  <2>5. OneHolder'
    BY <2>1, <2>2 DEF OneHolder
  <2> QED
    BY <2>1, <2>2, <2>4, <2>5 DEF SharedAddressesFresh, poolVars
<1> QED
  BY <1>1, <1>2, <1>3, <1>4, <1>5, <1>6 DEF UseBuffer

LEMMA NextInv ==
  ASSUME FileFitsInt, IInv, [PoolNext]_shmVars
  PROVE  IInv'
<1>1. CASE \E outcome \in Outcomes : Setup(outcome)
  BY <1>1, SetupInv
<1>2. CASE Teardown
  BY <1>2, TeardownInv
<1>3. ASSUME NEW k \in Kinds, GetBuffer(k)
      PROVE  IInv'
  <2>1. CASE ResizeFailsToTruncate(k)
    BY <2>1 DEF ResizeFailsToTruncate, IInv, shmVars, poolVars, holderVars, PoolTypeOK, Used,
                SizesInv, Layout, OneHolder, SharedAddressesFresh
  <2> QED
    BY <1>3, <2>1, ReuseInv, CreateInPlaceInv, CreateAfterResizeInv, ResizeFailsToMapInv
    DEF GetBuffer
<1>4. CASE \E i \in DOMAIN buffers : UseBuffer(i)
  BY <1>4, UseBufferInv
<1>5. CASE UNCHANGED shmVars
  BY <1>5 DEF IInv, shmVars, poolVars, holderVars, PoolTypeOK, Used,
              SizesInv, Layout, OneHolder, SharedAddressesFresh
<1> QED
  BY <1>1, <1>2, <1>3, <1>4, <1>5 DEF PoolNext

(* The inductive invariant holds of every reachable state, for every set   *)
(* of kinds and every file limit that fits an int32 (resizePool, getBuffer)*)
THEOREM PoolInvariance ==
  ASSUME FileFitsInt
  PROVE  PoolSpec => []IInv
<1>1. PoolInit => IInv
  BY InitInv
<1>2. IInv /\ [PoolNext]_shmVars => IInv'
  BY NextInv
<1> QED
  BY <1>1, <1>2, PTL DEF PoolSpec
-----------------------------------------------------------------------------
(* No two buffers share a byte (getBuffer's offset bookkeeping).           *)
THEOREM Disjointness ==
  ASSUME FileFitsInt
  PROVE  PoolSpec => []BuffersDisjoint
<1>1. IInv => BuffersDisjoint
  BY DEF IInv, Layout, BuffersDisjoint, BytesOf, PoolTypeOK
<1> QED
  BY <1>1, PoolInvariance, PTL

(* Every buffer lies in the memory the compositor was told of: resizePool  *)
(* grew the pool by enough before the buffer was created.                  *)
THEOREM Containment ==
  ASSUME FileFitsInt
  PROVE  PoolSpec => []BuffersInsidePool
<1>1. ASSUME IInv PROVE BuffersInsidePool
  <2> SUFFICES ASSUME NEW i \in DOMAIN buffers
               PROVE  0 <= BytesOf(i).lo /\ BytesOf(i).hi <= serverSize
    BY DEF BuffersInsidePool
  <2>1. serverSize = size
    BY <1>1 DEF IInv, SizesInv
  <2>2. buffers[i] \in Buffer
    BY <1>1 DEF IInv, PoolTypeOK
  <2>3. Bytes[buffers[i].kind] \in Nat /\ buffers[i].off \in Int
    BY <2>2, ShmPoolAssumption DEF Buffer
  <2> QED
    BY <1>1, <2>1, <2>3 DEF IInv, SizesInv, Layout, BytesOf
<1> QED
  BY <1>1, PoolInvariance, PTL

(* A buffer handed out again is held by nobody: not by the user, not by    *)
(* the compositor, and no release event for it is still to come.           *)
THEOREM ExclusiveUse ==
  ASSUME FileFitsInt
  PROVE  PoolSpec => []NoReuseWhileHeld
<1>1. IInv => NoReuseWhileHeld
  BY DEF IInv, OneHolder, NoReuseWhileHeld, Reusable, Used
<1> QED
  BY <1>1, PoolInvariance, PTL

(* The state of the pool is of its type: no size or offset overflows, and  *)
(* whoever holds a buffer holds one that exists (getBuffer, teardown).     *)
THEOREM PoolTypeCorrect ==
  ASSUME FileFitsInt
  PROVE  PoolSpec => []PoolTypeOK
<1>1. IInv => PoolTypeOK
  BY DEF IInv
<1> QED
  BY <1>1, PoolInvariance, PTL

(* While the pool is mapped no user works with an address of an earlier    *)
(* mapping: resizePool() told those who share memory (poolResized).        *)
THEOREM Freshness ==
  ASSUME FileFitsInt
  PROVE  PoolSpec => []SharedAddressesFresh
<1>1. IInv => SharedAddressesFresh
  BY DEF IInv
<1> QED
  BY <1>1, PoolInvariance, PTL

(* A living pool only grows, as wl_shm_pool.resize and the file's seal     *)
(* demand.                                                                 *)
THEOREM Monotonicity ==
  ASSUME FileFitsInt
  PROVE  PoolSpec => PoolNeverShrinks
<1>1. ASSUME IInv, [PoolNext]_shmVars, pool, pool'
      PROVE  serverSize' >= serverSize
  <2>1. CASE \E outcome \in Outcomes : Setup(outcome)
    BY <1>1, <2>1 DEF Setup, IInv, SizesInv
  <2>2. CASE Teardown
    BY <1>1, <2>2 DEF Teardown
  <2>3. ASSUME NEW k \in Kinds, GetBuffer(k)
        PROVE  serverSize' >= serverSize
    <3>1. serverSize = size /\ Grown(k) >= size
      BY <1>1, NoOverflow DEF IInv, SizesInv
    <3> QED
      BY <1>1, <2>3, <3>1
      DEF GetBuffer, Reuse, CreateInPlace, CreateAfterResize, ResizeFailsToMap,
          ResizeFailsToTruncate, shmVars, poolVars, IInv, PoolTypeOK
  <2>4. CASE \E i \in DOMAIN buffers : UseBuffer(i)
    <3>1. UNCHANGED poolVars
      BY <2>4 DEF UseBuffer, Commit, GiveBack, SetUsed, ClearUsed, Redraw,
                  CompositorReleases, ReleaseEvent
    <3> QED
      BY <1>1, <3>1 DEF poolVars, IInv, PoolTypeOK
  <2>5. CASE UNCHANGED shmVars
    BY <1>1, <2>5 DEF shmVars, poolVars, IInv, PoolTypeOK
  <2> QED
    BY <1>1, <2>1, <2>2, <2>3, <2>4, <2>5 DEF PoolNext
<1>2. IInv /\ [PoolNext]_shmVars => [pool /\ pool' => serverSize' >= serverSize]_shmVars
  BY <1>1
<1> QED
  BY <1>2, PoolInvariance, PTL DEF PoolSpec, PoolNeverShrinks
-----------------------------------------------------------------------------
(* The pool implements MemoryLender: each step lends one range, takes one  *)
(* or all of them back, or leaves what is lent alone.                      *)

Lent == {BytesOf(i) : i \in LentBuffers}

AllApart ==
  /\ \A i \in DOMAIN buffers : BytesOf(i) \in Lender!Range
  /\ \A i, j \in DOMAIN buffers :
       i # j => Lender!Apart(BytesOf(i), BytesOf(j)) /\ BytesOf(i) # BytesOf(j)

LEMMA BytesApart == IInv => AllApart
<1> SUFFICES ASSUME IInv PROVE AllApart
  OBVIOUS
<1> USE DEF IInv
<1>1. \A i \in DOMAIN buffers : buffers[i] \in Buffer
  BY DEF PoolTypeOK
<1>2. \A i \in DOMAIN buffers : /\ buffers[i].off \in Int
                                /\ Bytes[buffers[i].kind] \in Nat \ {0}
  BY <1>1, ShmPoolAssumption DEF Buffer
<1>3. \A i \in DOMAIN buffers : /\ BytesOf(i) \in Lender!Range
                                /\ BytesOf(i).lo < BytesOf(i).hi
  BY <1>2 DEF BytesOf, Lender!Range
<1>4. \A i, j \in DOMAIN buffers : i < j => BytesOf(i).hi <= BytesOf(j).lo
  BY DEF Layout, BytesOf
<1>5. \A i, j \in DOMAIN buffers :
        i # j => Lender!Apart(BytesOf(i), BytesOf(j))
  <2>1. \A i, j \in DOMAIN buffers : i # j => i < j \/ j < i
    BY DEF PoolTypeOK
  <2> QED
    BY <1>4, <2>1 DEF Lender!Apart
<1>6. \A i, j \in DOMAIN buffers : i # j => BytesOf(i) # BytesOf(j)
  BY <1>3, <1>5 DEF Lender!Apart, Lender!Range
<1> QED
  BY <1>3, <1>5, <1>6 DEF AllApart

(* Handing a buffer to the user lends its bytes.                           *)
LEMMA Lending ==
  ASSUME IInv', NEW i \in DOMAIN buffers', i \notin LentBuffers,
         LentBuffers' = LentBuffers \union {i},
         \A j \in LentBuffers : j \in DOMAIN buffers' /\ BytesOf(j)' = BytesOf(j)
  PROVE  Lender!Next
<1> DEFINE r == BytesOf(i)'
<1>1. r \in Lender!Range /\ \A j \in LentBuffers : Lender!Apart(r, BytesOf(j))
  <2>1. \A j \in LentBuffers : j \in DOMAIN buffers' /\ j # i
    OBVIOUS
  <2>2. /\ BytesOf(i)' \in Lender!Range
        /\ \A j \in LentBuffers : Lender!Apart(BytesOf(i)', BytesOf(j)')
    <3>1. AllApart'
      BY BytesApart, PTL
    <3> QED
      BY <2>1, <3>1 DEF AllApart, Lender!Apart, Lender!Range, BytesOf
  <2> QED
    BY <2>2
<1>2. Lent' = Lent \union {r}
  BY DEF Lent
<1> QED
  BY <1>1, <1>2 DEF Lent, Lender!Next, Lender!Lend

(* A buffer nobody may use any more gives its bytes back.                  *)
LEMMA TakingBack ==
  ASSUME IInv, NEW i \in LentBuffers,
         LentBuffers' = LentBuffers \ {i},
         \A j \in LentBuffers : BytesOf(j)' = BytesOf(j)
  PROVE  Lender!Next
<1>1. AllApart
  BY BytesApart
<1>2. \A j \in LentBuffers : j # i => BytesOf(j) # BytesOf(i)
  BY <1>1 DEF AllApart, LentBuffers
<1>3. BytesOf(i) \in Lent /\ Lent' = Lent \ {BytesOf(i)}
  BY <1>2 DEF Lent
<1> QED
  BY <1>3 DEF Lent, Lender!Next, Lender!TakeBack

(* Where a step moves no bytes and frees or hands out none, the lender     *)
(* takes no step.                                                          *)
LEMMA LendingNothing ==
  ASSUME LentBuffers' = LentBuffers,
         \A j \in LentBuffers : BytesOf(j)' = BytesOf(j)
  PROVE  Lent' = Lent
BY DEF Lent

(* The flags of one buffer change: what is lent changes by that buffer.    *)
LEMMA FlagStepImplements ==
  ASSUME IInv, IInv', NEW i \in DOMAIN buffers,
         \/ \E v \in BOOLEAN : buffers' = [buffers EXCEPT ![i].released = v]
         \/ \E v \in BOOLEAN : buffers' = [buffers EXCEPT ![i].used = v]
  PROVE  Lender!Next \/ Lent' = Lent
<1>1. buffers \in Seq(Buffer) /\ buffers[i] \in Buffer
  BY DEF IInv, PoolTypeOK
<1>2. /\ DOMAIN buffers' = DOMAIN buffers
      /\ \A j \in DOMAIN buffers : j # i => buffers'[j] = buffers[j]
  BY <1>1
<1>3. buffers'[i].off = buffers[i].off /\ buffers'[i].kind = buffers[i].kind
  BY <1>1 DEF Buffer
<1>4. \A j \in DOMAIN buffers : BytesOf(j)' = BytesOf(j)
  BY <1>2, <1>3 DEF BytesOf
<1>5. \A j \in DOMAIN buffers : j # i => (j \in LentBuffers' <=> j \in LentBuffers)
  BY <1>2 DEF LentBuffers
<1>6. LentBuffers \subseteq DOMAIN buffers /\ LentBuffers' \subseteq DOMAIN buffers
  BY <1>2 DEF LentBuffers
<1>7. CASE i \in LentBuffers /\ i \notin LentBuffers'
  <2>1. LentBuffers' = LentBuffers \ {i}
    BY <1>5, <1>6, <1>7
  <2> QED
    BY <1>4, <1>6, <1>7, <2>1, TakingBack
<1>8. CASE i \notin LentBuffers /\ i \in LentBuffers'
  <2>1. LentBuffers' = LentBuffers \union {i}
    BY <1>5, <1>6, <1>8
  <2> QED
    BY <1>2, <1>4, <1>6, <1>8, <2>1, Lending
<1>9. CASE i \in LentBuffers <=> i \in LentBuffers'
  <2>1. LentBuffers' = LentBuffers
    BY <1>5, <1>6, <1>9
  <2> QED
    BY <1>4, <1>6, <2>1, LendingNothing
<1> QED
  BY <1>7, <1>8, <1>9

LEMMA AppendImplements ==
  ASSUME IInv, IInv', NEW k \in Kinds, AppendBuffer(k)
  PROVE  Lender!Next
<1> DEFINE i == Len(buffers) + 1
<1>1. /\ DOMAIN buffers' = DOMAIN buffers \union {i}
      /\ i \notin DOMAIN buffers
      /\ \A j \in DOMAIN buffers : buffers'[j] = buffers[j]
      /\ ~buffers'[i].released
  BY DEF AppendBuffer, IInv, PoolTypeOK
<1> HIDE DEF i
<1>2. LentBuffers' = LentBuffers \union {i} /\ LentBuffers \subseteq DOMAIN buffers
  BY <1>1 DEF LentBuffers
<1>3. \A j \in LentBuffers : BytesOf(j)' = BytesOf(j)
  BY <1>1, <1>2 DEF BytesOf
<1> QED
  BY <1>1, <1>2, <1>3, Lending

LEMMA NextImplements ==
  ASSUME IInv, IInv', [PoolNext]_shmVars
  PROVE  Lender!Next \/ Lent' = Lent
<1>1. CASE UNCHANGED buffers
  BY <1>1 DEF Lent, LentBuffers, BytesOf
<1>2. CASE Teardown
  <2>1. Lent' = {}
    BY <1>2 DEF Teardown, Lent, LentBuffers
  <2> QED
    BY <2>1 DEF Lent, Lender!Next, Lender!TakeAllBack
<1>3. ASSUME NEW k \in Kinds, GetBuffer(k)
      PROVE  Lender!Next \/ Lent' = Lent
  <2>1. CASE Reuse(k)
    BY <2>1, FlagStepImplements DEF Reuse
  <2>2. CASE CreateInPlace(k) \/ CreateAfterResize(k)
    BY <2>2, AppendImplements DEF CreateInPlace, CreateAfterResize
  <2>3. CASE ResizeFailsToMap(k) \/ ResizeFailsToTruncate(k)
    BY <1>1, <2>3 DEF ResizeFailsToMap, ResizeFailsToTruncate, shmVars
  <2> QED
    BY <1>3, <2>1, <2>2, <2>3 DEF GetBuffer
<1>4. ASSUME NEW i \in DOMAIN buffers, UseBuffer(i)
      PROVE  Lender!Next \/ Lent' = Lent
  <2>1. CASE GiveBack(i) \/ SetUsed(i) \/ ClearUsed(i) \/ Redraw(i) \/ ReleaseEvent(i)
    BY <2>1, FlagStepImplements DEF GiveBack, SetUsed, ClearUsed, Redraw, ReleaseEvent
  <2>2. CASE Commit(i) \/ CompositorReleases(i)
    BY <1>1, <2>2 DEF Commit, CompositorReleases
  <2> QED
    BY <1>4, <2>1, <2>2 DEF UseBuffer
<1> QED
  BY <1>1, <1>2, <1>3, <1>4 DEF PoolNext, Setup, shmVars

(* Whatever the order of requests, resizes, releases and teardowns, the    *)
(* pool behaves as a lender of memory: no byte is lent twice at a time.    *)
THEOREM Refinement ==
  ASSUME FileFitsInt
  PROVE  PoolSpec => LendsMemory
<1>1. PoolInit => Lender!Init
  BY DEF PoolInit, Lender!Init, LentBuffers
<1>2. IInv /\ IInv' /\ [PoolNext]_shmVars => [Lender!Next]_({BytesOf(i) : i \in LentBuffers})
  BY NextImplements DEF Lent
<1> QED
  BY <1>1, <1>2, PoolInvariance, PTL DEF PoolSpec, LendsMemory, Lender!Spec

-----------------------------------------------------------------------------
(* ConnectionThread.                                                       *)


\* Signals that say that there is or was a connection.
Answers == {"connected", "connectionDied", "errorOccurred"}

\* When the user has handled the first k - 1 signals its registry is down.
OffBefore ==
  {k \in 1 .. Len(inbox) + 1 :
     \/ /\ registryOn = 0
        /\ \A i \in 1 .. k - 1 : inbox[i] # "connected"
     \/ \E j \in 1 .. k - 1 :
          inbox[j] = "connectionDied" /\ \A i \in j + 1 .. k - 1 : inbox[i] # "connected"}

\* In the end the user does not believe that connecting has failed.
AnsweredLast ==
  \/ told \in Answers /\ \A i \in 1 .. Len(inbox) : inbox[i] # "failed"
  \/ \E k \in 1 .. Len(inbox) :
       inbox[k] \in Answers /\ \A i \in k + 1 .. Len(inbox) : inbox[i] # "failed"

\* In the end the user believes that the connection died.
DiedLast ==
  \/ told = "connectionDied" /\ \A i \in 1 .. Len(inbox) : inbox[i] = "eventsRead"
  \/ \E k \in 1 .. Len(inbox) :
       inbox[k] = "connectionDied" /\ \A i \in k + 1 .. Len(inbox) : inbox[i] = "eventsRead"

\* The thread.
ThreadInv ==
  /\ inits > 0 => inits = 1 /\ watcher = "none"
  /\ display # 0 => notifier = display /\ watcher = "file" /\ ~error /\ ~serverDied
  /\ watcher = "none" => ~error
  /\ serverDied <=> watcher = "directory" \/ dying
  /\ dying => watcher = "file"

\* The user.
UserInv ==
  /\ told \in {"nothing", "failed"} => registryOn = 0
  /\ \A k \in 1 .. Len(inbox) : inbox[k] \in {"connected", "failed"} => k \in OffBefore
  /\ inits > 0 \/ watcher = "directory" => Len(inbox) + 1 \in OffBefore
  /\ watcher # "none" => AnsweredLast
  /\ DiedLast => serverDied \/ inits > 0

\* The types, in parts; every batch was sent, is on the wire or in the queue,
\* or is gone.
NumbersOK ==
  /\ started \in 0 .. MaxServers /\ sent \in 0 .. MaxEvents
  /\ wire \in Nat /\ queued \in Nat /\ wire + queued <= sent
  /\ display \in 0 .. started /\ notifier \in 0 .. started /\ registryOn \in 0 .. started
  /\ inits \in Nat /\ userInits \in 0 .. MaxInits

FlagsOK ==
  /\ server \in {"down", "starting", "bound", "listening"}
  /\ watcher \in {"none", "file", "directory"}
  /\ socket \in BOOLEAN /\ faulty \in BOOLEAN
  /\ watching \in BOOLEAN /\ noticed \in BOOLEAN
  /\ serverDied \in BOOLEAN /\ error \in BOOLEAN /\ dying \in BOOLEAN

SignalsOK == inbox \in Seq(Signals) /\ told \in Signals \union {"nothing"}

TypeInv == NumbersOK /\ FlagsOK /\ SignalsOK

Inv == TypeInv /\ ThreadInv /\ UserInv
-----------------------------------------------------------------------------
LEMMA Initially ==
  ASSUME Init
  PROVE  Inv
<1>1. NumbersOK
  BY ConnectionThreadAssumption DEF Init, NumbersOK
<1>2. FlagsOK
  BY DEF Init, FlagsOK
<1>3. SignalsOK
  BY DEF Init, SignalsOK
<1>4. ThreadInv
  BY DEF Init, ThreadInv
<1>5. UserInv
  BY DEF Init, UserInv, OffBefore, AnsweredLast, DiedLast
<1> QED
  BY <1>1, <1>2, <1>3, <1>4, <1>5 DEF Inv, TypeInv

LEMMA AppendFacts ==
  ASSUME NEW S, NEW s \in Seq(S), NEW e \in S
  PROVE  /\ Append(s, e) \in Seq(S) /\ Len(s) \in Nat
         /\ Len(Append(s, e)) = Len(s) + 1
         /\ Append(s, e)[Len(s) + 1] = e
         /\ \A n \in 1 .. Len(s) : Append(s, e)[n] = s[n]
OBVIOUS

LEMMA TailFacts ==
  ASSUME NEW S, NEW s \in Seq(S), s # <<>>
  PROVE  /\ Tail(s) \in Seq(S) /\ Len(s) \in Nat \ {0}
         /\ Head(s) = s[1] /\ s[1] \in S
         /\ Len(Tail(s)) = Len(s) - 1
         /\ \A n \in 1 .. Len(s) - 1 : Tail(s)[n] = s[n + 1]
OBVIOUS

\* The numbers: a display is that of a server that was started.
LEMMA NumberSteps ==
  ASSUME NumbersOK, ThreadInv, [Next]_vars
  PROVE  NumbersOK'
<1> USE ConnectionThreadAssumption DEF NumbersOK, ThreadInv
<1> USE DEF serverVars, threadVars, userVars, Emit, Delivers
<1>1. ASSUME NEW crash \in BOOLEAN, StopServer(crash) PROVE NumbersOK'
  BY <1>1 DEF StopServer, SocketFile
<1>2. CASE StartServer
  BY <1>2 DEF StartServer, SocketFile
<1>3. CASE BindSocket
  BY <1>3 DEF BindSocket, SocketFile
<1>4. CASE Listen
  BY <1>4 DEF Listen
<1>5. CASE OtherFile
  BY <1>5 DEF OtherFile
<1>6. CASE SendEvents
  BY <1>6 DEF SendEvents
<1>7. CASE ProtocolError
  BY <1>7 DEF ProtocolError
<1>8. CASE initConnection
  BY <1>8 DEF initConnection
<1>9. CASE Connects
  BY <1>9 DEF Connects
<1>10. CASE FailsToConnect
  BY <1>10 DEF FailsToConnect
<1>11. CASE ReadEvents
  BY <1>11 DEF ReadEvents
<1>12. CASE ReadError
  BY <1>12 DEF ReadError
<1>13. CASE FileThere
  BY <1>13 DEF FileThere
<1>14. CASE FileGone
  BY <1>14 DEF FileGone
<1>15. CASE WatchDirectory
  BY <1>15 DEF WatchDirectory
<1>16. CASE SocketMissing
  BY <1>16 DEF SocketMissing
<1>17. CASE SocketReappeared
  BY <1>17 DEF SocketReappeared
<1>18. CASE UserConnected
  BY <1>18 DEF UserConnected
<1>19. CASE UserFailed
  BY <1>19 DEF UserFailed
<1>20. CASE dispatch
  BY <1>20 DEF dispatch
<1>21. CASE UserDied
  BY <1>21 DEF UserDied
<1>22. CASE UserError
  BY <1>22 DEF UserError
<1>23. CASE UNCHANGED vars
  BY <1>23 DEF vars
<1> QED
  BY <1>1, <1>2, <1>3, <1>4, <1>5, <1>6, <1>7, <1>8, <1>9, <1>10, <1>11, <1>12, <1>13, <1>14,
     <1>15, <1>16, <1>17, <1>18, <1>19, <1>20, <1>21, <1>22, <1>23
     DEF Next, Environment, doInitConnection, dispatchEvents, fileChanged, directoryChanged,
         UserThread

\* The flags.
LEMMA FlagSteps ==
  ASSUME FlagsOK, [Next]_vars
  PROVE  FlagsOK'
<1> USE DEF FlagsOK
<1> USE DEF serverVars, threadVars, userVars, Emit, Delivers
<1>1. ASSUME NEW crash \in BOOLEAN, StopServer(crash) PROVE FlagsOK'
  BY <1>1 DEF StopServer, SocketFile
<1>2. CASE StartServer
  BY <1>2 DEF StartServer, SocketFile
<1>3. CASE BindSocket
  BY <1>3 DEF BindSocket, SocketFile
<1>4. CASE Listen
  BY <1>4 DEF Listen
<1>5. CASE OtherFile
  BY <1>5 DEF OtherFile
<1>6. CASE SendEvents
  BY <1>6 DEF SendEvents
<1>7. CASE ProtocolError
  BY <1>7 DEF ProtocolError
<1>8. CASE initConnection
  BY <1>8 DEF initConnection
<1>9. CASE Connects
  BY <1>9 DEF Connects
<1>10. CASE FailsToConnect
  BY <1>10 DEF FailsToConnect
<1>11. CASE ReadEvents
  BY <1>11 DEF ReadEvents
<1>12. CASE ReadError
  BY <1>12 DEF ReadError
<1>13. CASE FileThere
  BY <1>13 DEF FileThere
<1>14. CASE FileGone
  BY <1>14 DEF FileGone
<1>15. CASE WatchDirectory
  BY <1>15 DEF WatchDirectory
<1>16. CASE SocketMissing
  BY <1>16 DEF SocketMissing
<1>17. CASE SocketReappeared
  BY <1>17 DEF SocketReappeared
<1>18. CASE UserConnected
  BY <1>18 DEF UserConnected
<1>19. CASE UserFailed
  BY <1>19 DEF UserFailed
<1>20. CASE dispatch
  BY <1>20 DEF dispatch
<1>21. CASE UserDied
  BY <1>21 DEF UserDied
<1>22. CASE UserError
  BY <1>22 DEF UserError
<1>23. CASE UNCHANGED vars
  BY <1>23 DEF vars
<1> QED
  BY <1>1, <1>2, <1>3, <1>4, <1>5, <1>6, <1>7, <1>8, <1>9, <1>10, <1>11, <1>12, <1>13, <1>14,
     <1>15, <1>16, <1>17, <1>18, <1>19, <1>20, <1>21, <1>22, <1>23
     DEF Next, Environment, doInitConnection, dispatchEvents, fileChanged, directoryChanged,
         UserThread

\* The signals.
LEMMA SignalSteps ==
  ASSUME SignalsOK, [Next]_vars
  PROVE  SignalsOK'
<1> USE DEF SignalsOK
<1> USE DEF serverVars, threadVars, userVars, Emit, Delivers
<1>1. ASSUME NEW crash \in BOOLEAN, StopServer(crash) PROVE SignalsOK'
  BY <1>1 DEF StopServer, SocketFile
<1>2. CASE StartServer
  BY <1>2 DEF StartServer, SocketFile
<1>3. CASE BindSocket
  BY <1>3 DEF BindSocket, SocketFile
<1>4. CASE Listen
  BY <1>4 DEF Listen
<1>5. CASE OtherFile
  BY <1>5 DEF OtherFile
<1>6. CASE SendEvents
  BY <1>6 DEF SendEvents
<1>7. CASE ProtocolError
  BY <1>7 DEF ProtocolError
<1>8. CASE initConnection
  BY <1>8 DEF initConnection
<1>9. CASE Connects
  BY <1>9, AppendFacts DEF Connects, Signals
<1>10. CASE FailsToConnect
  BY <1>10, AppendFacts DEF FailsToConnect, Signals
<1>11. CASE ReadEvents
  BY <1>11, AppendFacts DEF ReadEvents, Signals
<1>12. CASE ReadError
  BY <1>12, AppendFacts DEF ReadError, Signals
<1>13. CASE FileThere
  BY <1>13 DEF FileThere
<1>14. CASE FileGone
  BY <1>14 DEF FileGone
<1>15. CASE WatchDirectory
  BY <1>15, AppendFacts DEF WatchDirectory, Signals
<1>16. CASE SocketMissing
  BY <1>16 DEF SocketMissing
<1>17. CASE SocketReappeared
  BY <1>17 DEF SocketReappeared
<1>18. CASE UserConnected
  <2>1. inbox # <<>> /\ inbox' = Tail(inbox) /\ told' \in Signals \union {"nothing"}
    BY <1>18 DEF UserConnected, Signals
  <2> QED
    BY <2>1, TailFacts
<1>19. CASE UserFailed
  <2>1. inbox # <<>> /\ inbox' = Tail(inbox) /\ told' \in Signals \union {"nothing"}
    BY <1>19 DEF UserFailed, Signals
  <2> QED
    BY <2>1, TailFacts
<1>20. CASE dispatch
  <2>1. inbox # <<>> /\ inbox' = Tail(inbox) /\ told' \in Signals \union {"nothing"}
    BY <1>20 DEF dispatch, Signals
  <2> QED
    BY <2>1, TailFacts
<1>21. CASE UserDied
  <2>1. inbox # <<>> /\ inbox' = Tail(inbox) /\ told' \in Signals \union {"nothing"}
    BY <1>21 DEF UserDied, Signals
  <2> QED
    BY <2>1, TailFacts
<1>22. CASE UserError
  <2>1. inbox # <<>> /\ inbox' = Tail(inbox) /\ told' \in Signals \union {"nothing"}
    BY <1>22 DEF UserError, Signals
  <2> QED
    BY <2>1, TailFacts
<1>23. CASE UNCHANGED vars
  BY <1>23 DEF vars
<1> QED
  BY <1>1, <1>2, <1>3, <1>4, <1>5, <1>6, <1>7, <1>8, <1>9, <1>10, <1>11, <1>12, <1>13, <1>14,
     <1>15, <1>16, <1>17, <1>18, <1>19, <1>20, <1>21, <1>22, <1>23
     DEF Next, Environment, doInitConnection, dispatchEvents, fileChanged, directoryChanged,
         UserThread

\* The thread: initConnection() finds it without a watcher, because the user
\* has not heard of a connection.
LEMMA ThreadSteps ==
  ASSUME NumbersOK, FlagsOK, ThreadInv, watcher # "none" => AnsweredLast, [Next]_vars
  PROVE  ThreadInv'
<1> USE DEF ThreadInv, NumbersOK, FlagsOK
<1> USE DEF serverVars, threadVars, userVars, Emit, Delivers
<1>1. ASSUME NEW crash \in BOOLEAN, StopServer(crash) PROVE ThreadInv'
  BY <1>1 DEF StopServer, SocketFile
<1>2. CASE StartServer
  BY <1>2 DEF StartServer, SocketFile
<1>3. CASE BindSocket
  BY <1>3 DEF BindSocket, SocketFile
<1>4. CASE Listen
  BY <1>4 DEF Listen
<1>5. CASE OtherFile
  BY <1>5 DEF OtherFile
<1>6. CASE SendEvents
  BY <1>6 DEF SendEvents
<1>7. CASE ProtocolError
  BY <1>7 DEF ProtocolError
<1>8. CASE initConnection
  <2>1. watcher = "none"
    <3>1. Len(inbox) = 0 /\ told \notin Answers
      BY <1>8 DEF initConnection, Answers
    <3> QED
      BY <3>1 DEF AnsweredLast
  <2> QED
    BY <1>8, <2>1 DEF initConnection
<1>9. CASE Connects
  BY <1>9 DEF Connects
<1>10. CASE FailsToConnect
  BY <1>10 DEF FailsToConnect
<1>11. CASE ReadEvents
  BY <1>11 DEF ReadEvents
<1>12. CASE ReadError
  BY <1>12 DEF ReadError
<1>13. CASE FileThere
  BY <1>13 DEF FileThere
<1>14. CASE FileGone
  BY <1>14 DEF FileGone
<1>15. CASE WatchDirectory
  BY <1>15 DEF WatchDirectory
<1>16. CASE SocketMissing
  BY <1>16 DEF SocketMissing
<1>17. CASE SocketReappeared
  BY <1>17 DEF SocketReappeared
<1>18. CASE UserConnected
  BY <1>18 DEF UserConnected
<1>19. CASE UserFailed
  BY <1>19 DEF UserFailed
<1>20. CASE dispatch
  BY <1>20 DEF dispatch
<1>21. CASE UserDied
  BY <1>21 DEF UserDied
<1>22. CASE UserError
  BY <1>22 DEF UserError
<1>23. CASE UNCHANGED vars
  BY <1>23 DEF vars
<1> QED
  BY <1>1, <1>2, <1>3, <1>4, <1>5, <1>6, <1>7, <1>8, <1>9, <1>10, <1>11, <1>12, <1>13, <1>14,
     <1>15, <1>16, <1>17, <1>18, <1>19, <1>20, <1>21, <1>22, <1>23
     DEF Next, Environment, doInitConnection, dispatchEvents, fileChanged, directoryChanged,
         UserThread
-----------------------------------------------------------------------------
\* What a signal does that the thread emits.
LEMMA Emitting ==
  ASSUME SignalsOK, NEW e \in Signals, inbox' = Append(inbox, e), UNCHANGED userVars
  PROVE  /\ Len(inbox) \in Nat /\ Len(inbox') = Len(inbox) + 1
         /\ inbox'[Len(inbox) + 1] = e
         /\ \A k \in 1 .. Len(inbox) : inbox'[k] = inbox[k]
         /\ \A k \in 1 .. Len(inbox) + 1 : k \in OffBefore => k \in OffBefore'
         /\ e = "connectionDied" => Len(inbox) + 2 \in OffBefore'
         /\ AnsweredLast /\ e # "failed" => AnsweredLast'
         /\ e \in Answers => AnsweredLast'
         /\ DiedLast' => e = "connectionDied" \/ (e = "eventsRead" /\ DiedLast)
<1>1. /\ Len(inbox) \in Nat /\ Len(inbox') = Len(inbox) + 1
      /\ inbox'[Len(inbox) + 1] = e
      /\ \A k \in 1 .. Len(inbox) : inbox'[k] = inbox[k]
  BY AppendFacts DEF SignalsOK
<1>2. registryOn' = registryOn /\ told' = told
  BY DEF userVars
<1>3. ASSUME NEW k \in 1 .. Len(inbox) + 1, k \in OffBefore
      PROVE  k \in OffBefore'
  <2>1. \A i \in 1 .. k - 1 : inbox'[i] = inbox[i]
    BY <1>1
  <2>2. CASE registryOn = 0 /\ \A i \in 1 .. k - 1 : inbox[i] # "connected"
    BY <1>2, <2>1, <2>2 DEF OffBefore
  <2>3. CASE \E j \in 1 .. k - 1 : /\ inbox[j] = "connectionDied"
                                   /\ \A i \in j + 1 .. k - 1 : inbox[i] # "connected"
    <3>1. PICK j \in 1 .. k - 1 : /\ inbox[j] = "connectionDied"
                                  /\ \A i \in j + 1 .. k - 1 : inbox[i] # "connected"
      BY <2>3
    <3>2. \A i \in j + 1 .. k - 1 : inbox'[i] # "connected"
      BY <2>1, <3>1
    <3>3. inbox'[j] = "connectionDied"
      BY <2>1, <3>1
    <3> QED
      BY <3>2, <3>3 DEF OffBefore
  <2> QED
    BY <1>3, <2>2, <2>3 DEF OffBefore
<1>4. ASSUME e = "connectionDied" PROVE Len(inbox) + 2 \in OffBefore'
  <2>1. Len(inbox) + 1 \in 1 .. (Len(inbox) + 2) - 1
    BY <1>1
  <2>2. \A i \in (Len(inbox) + 1) + 1 .. (Len(inbox) + 2) - 1 : inbox'[i] # "connected"
    BY <1>1
  <2>3. inbox'[Len(inbox) + 1] = "connectionDied"
    BY <1>1, <1>4
  <2> DEFINE k == Len(inbox) + 2
             j == Len(inbox) + 1
  <2>4. /\ k \in 1 .. Len(inbox') + 1
        /\ j \in 1 .. k - 1 /\ inbox'[j] = "connectionDied"
        /\ \A i \in j + 1 .. k - 1 : inbox'[i] # "connected"
    BY <1>1, <2>1, <2>2, <2>3
  <2> HIDE DEF k, j
  <2>5. k \in OffBefore'
    BY <2>4 DEF OffBefore
  <2> QED
    BY <2>5 DEF k
<1>5. ASSUME AnsweredLast, e # "failed" PROVE AnsweredLast'
  <2>1. CASE told \in Answers /\ \A i \in 1 .. Len(inbox) : inbox[i] # "failed"
    BY <1>1, <1>2, <1>5, <2>1 DEF AnsweredLast
  <2>2. CASE \E k \in 1 .. Len(inbox) : /\ inbox[k] \in Answers
                                        /\ \A i \in k + 1 .. Len(inbox) : inbox[i] # "failed"
    <3>1. PICK k \in 1 .. Len(inbox) : /\ inbox[k] \in Answers
                                       /\ \A i \in k + 1 .. Len(inbox) : inbox[i] # "failed"
      BY <2>2
    <3>2. k \in 1 .. Len(inbox') /\ inbox'[k] \in Answers
      BY <1>1, <3>1
    <3>3. \A i \in k + 1 .. Len(inbox') : inbox'[i] # "failed"
      BY <1>1, <1>5, <3>1
    <3> QED
      BY <3>2, <3>3 DEF AnsweredLast
  <2> QED
    BY <1>5, <2>1, <2>2 DEF AnsweredLast
<1>6. ASSUME e \in Answers PROVE AnsweredLast'
  <2>1. Len(inbox) + 1 \in 1 .. Len(inbox') /\ inbox'[Len(inbox) + 1] \in Answers
    BY <1>1, <1>6
  <2>2. \A i \in (Len(inbox) + 1) + 1 .. Len(inbox') : inbox'[i] # "failed"
    BY <1>1
  <2> QED
    BY <2>1, <2>2 DEF AnsweredLast
<1>7. ASSUME DiedLast', e # "connectionDied" PROVE e = "eventsRead" /\ DiedLast
  <2>1. CASE told' = "connectionDied" /\ \A i \in 1 .. Len(inbox') : inbox'[i] = "eventsRead"
    <3>1. e = "eventsRead"
      BY <1>1, <2>1
    <3>2. \A i \in 1 .. Len(inbox) : inbox[i] = "eventsRead"
      BY <1>1, <2>1
    <3> QED
      BY <1>2, <2>1, <3>1, <3>2 DEF DiedLast
  <2>2. CASE \E k \in 1 .. Len(inbox') :
               /\ inbox'[k] = "connectionDied"
               /\ \A i \in k + 1 .. Len(inbox') : inbox'[i] = "eventsRead"
    <3>1. PICK k \in 1 .. Len(inbox') : /\ inbox'[k] = "connectionDied"
                                        /\ \A i \in k + 1 .. Len(inbox') : inbox'[i] = "eventsRead"
      BY <2>2
    <3>2. k \in 1 .. Len(inbox)
      BY <1>1, <1>7, <3>1
    <3>3. e = "eventsRead"
      BY <1>1, <3>1, <3>2
    <3>4. inbox[k] = "connectionDied" /\ \A i \in k + 1 .. Len(inbox) : inbox[i] = "eventsRead"
      BY <1>1, <3>1, <3>2
    <3> QED
      BY <3>2, <3>3, <3>4 DEF DiedLast
  <2> QED
    BY <1>7, <2>1, <2>2 DEF DiedLast
<1> QED
  BY <1>1, <1>3, <1>4, <1>5, <1>6, <1>7

\* What a signal does that the user handles.
LEMMA Handling ==
  ASSUME SignalsOK, inbox # <<>>, inbox' = Tail(inbox),
         told' = IF Head(inbox) = "eventsRead" THEN told ELSE Head(inbox),
         Head(inbox) = "connectionDied" => registryOn' = 0,
         Head(inbox) \notin {"connectionDied", "connected"} => registryOn' = registryOn
  PROVE  /\ Len(inbox) \in Nat \ {0} /\ Len(inbox') = Len(inbox) - 1
         /\ Head(inbox) = inbox[1]
         /\ \A k \in 1 .. Len(inbox') : inbox'[k] = inbox[k + 1]
         /\ \A k \in 1 .. Len(inbox) : k + 1 \in OffBefore => k \in OffBefore'
         /\ AnsweredLast => AnsweredLast'
         /\ DiedLast' => DiedLast
<1>1. /\ Len(inbox) \in Nat \ {0} /\ Len(inbox') = Len(inbox) - 1
      /\ Head(inbox) = inbox[1]
      /\ \A k \in 1 .. Len(inbox') : inbox'[k] = inbox[k + 1]
  BY TailFacts DEF SignalsOK
<1>2. ASSUME NEW k \in 1 .. Len(inbox), k + 1 \in OffBefore
      PROVE  k \in OffBefore'
  <2>1. \A i \in 1 .. k - 1 : inbox'[i] = inbox[i + 1] /\ i + 1 \in 2 .. k
    BY <1>1
  <2>2. CASE registryOn = 0 /\ \A i \in 1 .. (k + 1) - 1 : inbox[i] # "connected"
    <3>1. inbox[1] # "connected" /\ \A i \in 1 .. k - 1 : inbox'[i] # "connected"
      BY <1>1, <2>1, <2>2
    <3>2. registryOn' = 0
      BY <1>1, <2>2, <3>1
    <3> QED
      BY <3>1, <3>2 DEF OffBefore
  <2>3. CASE \E j \in 1 .. (k + 1) - 1 :
               /\ inbox[j] = "connectionDied"
               /\ \A i \in j + 1 .. (k + 1) - 1 : inbox[i] # "connected"
    <3>1. PICK j \in 1 .. k : /\ inbox[j] = "connectionDied"
                              /\ \A i \in j + 1 .. k : inbox[i] # "connected"
      BY <2>3
    <3>2. CASE j = 1
      <4>1. registryOn' = 0
        BY <1>1, <3>1, <3>2
      <4>2. \A i \in 1 .. k - 1 : inbox'[i] # "connected"
        BY <2>1, <3>1, <3>2
      <4> QED
        BY <1>1, <4>1, <4>2 DEF OffBefore
    <3>3. CASE j # 1
      <4>1. j - 1 \in 1 .. k - 1 /\ inbox'[j - 1] = "connectionDied"
        BY <1>1, <3>1, <3>3
      <4>2. \A i \in (j - 1) + 1 .. k - 1 : inbox'[i] # "connected"
        BY <1>1, <2>1, <3>1, <3>3
      <4> QED
        BY <1>1, <4>1, <4>2 DEF OffBefore
    <3> QED
      BY <3>2, <3>3
  <2> QED
    BY <1>2, <2>2, <2>3 DEF OffBefore
<1>3. ASSUME AnsweredLast PROVE AnsweredLast'
  <2>1. CASE told \in Answers /\ \A i \in 1 .. Len(inbox) : inbox[i] # "failed"
    <3>1. \A i \in 1 .. Len(inbox') : inbox'[i] # "failed"
      BY <1>1, <2>1
    <3>2. inbox[1] \in Signals \ {"failed"}
      BY <1>1, <2>1 DEF SignalsOK
    <3>3. told' \in Answers
      BY <1>1, <2>1, <3>2 DEF Signals, Answers
    <3> QED
      BY <3>1, <3>3 DEF AnsweredLast
  <2>2. CASE \E k \in 1 .. Len(inbox) : /\ inbox[k] \in Answers
                                        /\ \A i \in k + 1 .. Len(inbox) : inbox[i] # "failed"
    <3>1. PICK k \in 1 .. Len(inbox) : /\ inbox[k] \in Answers
                                       /\ \A i \in k + 1 .. Len(inbox) : inbox[i] # "failed"
      BY <2>2
    <3>2. CASE k = 1
      <4>1. told' \in Answers
        BY <1>1, <3>1, <3>2 DEF Answers
      <4>2. \A i \in 1 .. Len(inbox') : inbox'[i] # "failed"
        BY <1>1, <3>1, <3>2
      <4> QED
        BY <4>1, <4>2 DEF AnsweredLast
    <3>3. CASE k # 1
      <4>1. k - 1 \in 1 .. Len(inbox') /\ inbox'[k - 1] \in Answers
        BY <1>1, <3>1, <3>3
      <4>2. \A i \in (k - 1) + 1 .. Len(inbox') : inbox'[i] # "failed"
        BY <1>1, <3>1, <3>3
      <4> QED
        BY <4>1, <4>2 DEF AnsweredLast
    <3> QED
      BY <3>2, <3>3
  <2> QED
    BY <1>3, <2>1, <2>2 DEF AnsweredLast
<1>4. ASSUME DiedLast' PROVE DiedLast
  <2>1. CASE told' = "connectionDied" /\ \A i \in 1 .. Len(inbox') : inbox'[i] = "eventsRead"
    <3>1. \A i \in 2 .. Len(inbox) : inbox[i] = "eventsRead"
      <4>1. ASSUME NEW i \in 2 .. Len(inbox) PROVE inbox[i] = "eventsRead"
        <5>1. i - 1 \in 1 .. Len(inbox') /\ inbox'[i - 1] = inbox[(i - 1) + 1]
          BY <1>1
        <5> QED
          BY <1>1, <2>1, <5>1
      <4> QED
        BY <4>1
    <3>2. CASE inbox[1] = "eventsRead"
      BY <1>1, <2>1, <3>1, <3>2 DEF DiedLast
    <3>3. CASE inbox[1] # "eventsRead"
      <4>1. inbox[1] = "connectionDied" /\ 1 \in 1 .. Len(inbox)
        BY <1>1, <2>1, <3>3
      <4> QED
        BY <3>1, <4>1 DEF DiedLast
    <3> QED
      BY <3>2, <3>3
  <2>2. CASE \E k \in 1 .. Len(inbox') :
               /\ inbox'[k] = "connectionDied"
               /\ \A i \in k + 1 .. Len(inbox') : inbox'[i] = "eventsRead"
    <3>1. PICK k \in 1 .. Len(inbox') : /\ inbox'[k] = "connectionDied"
                                        /\ \A i \in k + 1 .. Len(inbox') : inbox'[i] = "eventsRead"
      BY <2>2
    <3>2. k + 1 \in 1 .. Len(inbox) /\ inbox[k + 1] = "connectionDied"
      BY <1>1, <3>1
    <3>3. \A i \in (k + 1) + 1 .. Len(inbox) : inbox[i] = "eventsRead"
      <4>1. ASSUME NEW i \in (k + 1) + 1 .. Len(inbox) PROVE inbox[i] = "eventsRead"
        <5>1. i - 1 \in k + 1 .. Len(inbox') /\ (i - 1) + 1 = i
          BY <1>1
        <5>2. i - 1 \in 1 .. Len(inbox')
          BY <1>1, <5>1
        <5>3. inbox'[i - 1] = inbox[i]
          BY <1>1, <5>1, <5>2
        <5>4. inbox'[i - 1] = "eventsRead"
          BY <3>1, <5>1
        <5> QED
          BY <5>3, <5>4
      <4> QED
        BY <4>1
    <3> QED
      BY <3>2, <3>3 DEF DiedLast
  <2> QED
    BY <1>4, <2>1, <2>2 DEF DiedLast
<1> QED
  BY <1>1, <1>2, <1>3, <1>4

\* The user's part, of every step.
LEMMA UserSteps ==
  ASSUME Inv, [Next]_vars
  PROVE  UserInv'
<1> USE DEF Inv, TypeInv
<1> DEFINE n == Len(inbox)
<1>1. CASE UNCHANGED <<inbox, userVars, serverDied, inits, watcher>>
  <2>1. OffBefore' = OffBefore
    BY <1>1 DEF OffBefore, userVars
  <2>2. (AnsweredLast' <=> AnsweredLast) /\ (DiedLast' <=> DiedLast)
    BY <1>1 DEF AnsweredLast, DiedLast, userVars
  <2>3. n \in Nat
    BY DEF SignalsOK
  <2> QED
    BY <1>1, <2>1, <2>2, <2>3 DEF UserInv, userVars
<1>2. CASE initConnection \/ SocketReappeared
  <2>1. UNCHANGED <<inbox, userVars>> /\ watcher' \in {"none", watcher} /\ inits' > 0
    BY <1>2 DEF initConnection, SocketReappeared, NumbersOK
  <2>2. OffBefore' = OffBefore
    BY <2>1 DEF OffBefore, userVars
  <2>3. (AnsweredLast' <=> AnsweredLast) /\ n \in Nat
    BY <2>1 DEF AnsweredLast, userVars, SignalsOK
  <2>4. n + 1 \in OffBefore
    <3>1. CASE initConnection
      <4>1. inbox = <<>> /\ registryOn = 0
        BY <3>1 DEF initConnection, UserInv
      <4> QED
        BY <4>1 DEF OffBefore
    <3>2. CASE SocketReappeared
      BY <3>2 DEF SocketReappeared, UserInv
    <3> QED
      BY <1>2, <3>1, <3>2
  <2> QED
    BY <2>1, <2>2, <2>3, <2>4 DEF UserInv, userVars
<1>3. CASE FileGone
  <2>1. UNCHANGED <<inbox, userVars, watcher, inits>> /\ serverDied'
    BY <1>3 DEF FileGone
  <2>2. OffBefore' = OffBefore
    BY <2>1 DEF OffBefore, userVars
  <2>3. (AnsweredLast' <=> AnsweredLast) /\ n \in Nat
    BY <2>1 DEF AnsweredLast, userVars, SignalsOK
  <2> QED
    BY <2>1, <2>2, <2>3 DEF UserInv, userVars
<1>4. CASE Connects \/ FailsToConnect
  <2>1. PICK e \in {"connected", "failed"} :
          /\ inbox' = Append(inbox, e) /\ UNCHANGED userVars
          /\ e = "failed" => watcher' = watcher
    BY <1>4 DEF Connects, FailsToConnect, Emit
  <2>2. inits > 0 /\ watcher = "none" /\ inits' = 0
    BY <1>4 DEF Connects, FailsToConnect, ThreadInv
  <2>3. watcher' # "directory"
    BY <1>4, <2>2 DEF Connects, FailsToConnect
  <2>4. e \in Signals
    BY DEF Signals
  <2>5. /\ n \in Nat /\ Len(inbox') = n + 1 /\ inbox'[n + 1] = e
        /\ \A k \in 1 .. n : inbox'[k] = inbox[k]
        /\ \A k \in 1 .. n + 1 : k \in OffBefore => k \in OffBefore'
        /\ e \in Answers => AnsweredLast'
        /\ ~DiedLast'
    BY <2>1, <2>4, Emitting
  <2>6. n + 1 \in OffBefore
    BY <2>2 DEF UserInv
  <2>7. watcher' # "none" => AnsweredLast'
    BY <2>1, <2>2, <2>5 DEF Answers
  <2>8. \A k \in 1 .. n + 1 : inbox'[k] \in {"connected", "failed"} => k \in OffBefore'
    BY <2>5, <2>6 DEF UserInv
  <2> QED
    BY <2>1, <2>2, <2>3, <2>5, <2>7, <2>8 DEF UserInv, userVars
<1>5. CASE ReadEvents \/ ReadError \/ WatchDirectory
  <2>1. PICK e \in {"eventsRead", "errorOccurred", "connectionDied"} :
          /\ inbox' = Append(inbox, e) /\ UNCHANGED <<userVars, serverDied, inits>>
          /\ e = "connectionDied" => serverDied
          /\ e # "connectionDied" => UNCHANGED watcher /\ watcher = "file"
    <3>1. CASE ReadEvents
      <4>1. /\ inbox' = Append(inbox, "eventsRead")
            /\ UNCHANGED <<userVars, serverDied, inits, watcher>> /\ watcher = "file"
        BY <3>1 DEF ReadEvents, Emit, ThreadInv, threadVars
      <4> QED
        BY <4>1
    <3>2. CASE ReadError
      <4>1. /\ inbox' = Append(inbox, "errorOccurred")
            /\ UNCHANGED <<userVars, serverDied, inits, watcher>> /\ watcher = "file"
        BY <3>2 DEF ReadError, Emit, ThreadInv
      <4> QED
        BY <4>1
    <3>3. CASE WatchDirectory
      <4>1. /\ inbox' = Append(inbox, "connectionDied")
            /\ UNCHANGED <<userVars, serverDied, inits>> /\ serverDied
        BY <3>3 DEF WatchDirectory, Emit, ThreadInv
      <4> QED
        BY <4>1
    <3> QED
      BY <1>5, <3>1, <3>2, <3>3
  <2>2. watcher = "file" /\ inits = 0
    BY <1>5 DEF ReadEvents, ReadError, WatchDirectory, ThreadInv, NumbersOK
  <2>3. e \in Signals
    BY DEF Signals
  <2>4. /\ n \in Nat /\ Len(inbox') = n + 1 /\ inbox'[n + 1] = e
        /\ \A k \in 1 .. n : inbox'[k] = inbox[k]
        /\ \A k \in 1 .. n + 1 : k \in OffBefore => k \in OffBefore'
        /\ e = "connectionDied" => n + 2 \in OffBefore'
        /\ AnsweredLast => AnsweredLast'
        /\ DiedLast' => e = "connectionDied" \/ (e = "eventsRead" /\ DiedLast)
    BY <2>1, <2>3, Emitting
  <2>5. watcher' # "none" => AnsweredLast'
    BY <2>2, <2>4 DEF UserInv
  <2>6. \A k \in 1 .. n + 1 : inbox'[k] \in {"connected", "failed"} => k \in OffBefore'
    BY <2>1, <2>4 DEF UserInv
  <2>7. inits' > 0 \/ watcher' = "directory" => Len(inbox') + 1 \in OffBefore'
    <3>1. (n + 1) + 1 = n + 2
      BY <2>4
    <3> QED
      BY <2>1, <2>2, <2>4, <3>1
  <2>8. DiedLast' => serverDied' \/ inits' > 0
    BY <2>1, <2>4 DEF UserInv
  <2> QED
    BY <2>1, <2>4, <2>5, <2>6, <2>7, <2>8 DEF UserInv, userVars
<1>6. CASE UserThread
  <2>1. /\ inbox # <<>> /\ inbox' = Tail(inbox)
        /\ UNCHANGED <<serverDied, inits, watcher>>
        /\ told' = IF Head(inbox) = "eventsRead" THEN told ELSE Head(inbox)
        /\ Head(inbox) = "connectionDied" => registryOn' = 0
        /\ Head(inbox) \notin {"connectionDied", "connected"} => registryOn' = registryOn
    BY <1>6 DEF UserThread, UserConnected, UserFailed, dispatch, UserDied, UserError,
                Delivers, threadVars, userVars
  <2>2. /\ n \in Nat \ {0} /\ Len(inbox') = n - 1 /\ Head(inbox) = inbox[1]
        /\ \A k \in 1 .. n - 1 : inbox'[k] = inbox[k + 1]
        /\ \A k \in 1 .. n : k + 1 \in OffBefore => k \in OffBefore'
        /\ AnsweredLast => AnsweredLast'
        /\ DiedLast' => DiedLast
    BY <2>1, Handling
  <2>3. ASSUME NEW k \in 1 .. n - 1, inbox'[k] \in {"connected", "failed"}
        PROVE  k \in OffBefore'
    <3>1. k + 1 \in 1 .. n /\ k \in 1 .. n /\ inbox[k + 1] \in {"connected", "failed"}
      BY <2>2, <2>3
    <3>2. k + 1 \in OffBefore
      BY <3>1 DEF UserInv
    <3> QED
      BY <2>2, <3>1, <3>2
  <2>4. inits' > 0 \/ watcher' = "directory" => Len(inbox') + 1 \in OffBefore'
    <3>1. Len(inbox') + 1 = n /\ n \in 1 .. n
      BY <2>2
    <3> QED
      BY <2>1, <2>2, <3>1 DEF UserInv
  <2>5. ASSUME told' \in {"nothing", "failed"} PROVE registryOn' = 0
    <3>1. CASE Head(inbox) = "eventsRead"
      BY <2>1, <2>5, <3>1 DEF UserInv
    <3>2. CASE Head(inbox) # "eventsRead"
      <4>1. inbox[1] \in Signals /\ 1 \in 1 .. n
        BY <2>2 DEF SignalsOK
      <4>2. inbox[1] = "failed"
        BY <2>1, <2>2, <2>5, <3>2, <4>1 DEF Signals
      <4>3. 1 \in OffBefore
        BY <4>1, <4>2 DEF UserInv
      <4>4. registryOn = 0
        BY <4>3 DEF OffBefore
      <4> QED
        BY <2>1, <2>2, <4>2, <4>4
    <3> QED
      BY <3>1, <3>2
  <2>6. (watcher' # "none" => AnsweredLast') /\ (DiedLast' => serverDied' \/ inits' > 0)
    BY <2>1, <2>2 DEF UserInv
  <2> QED
    BY <2>2, <2>3, <2>4, <2>5, <2>6 DEF UserInv
<1>7. UNCHANGED <<inbox, userVars, serverDied, inits, watcher>>
        \/ initConnection \/ SocketReappeared \/ FileGone \/ Connects \/ FailsToConnect
        \/ ReadEvents \/ ReadError \/ WatchDirectory \/ UserThread
  BY DEF Next, Environment, doInitConnection, dispatchEvents, fileChanged, directoryChanged,
         StopServer, StartServer, BindSocket, Listen, OtherFile, SendEvents, ProtocolError,
         FileThere, SocketMissing, vars, threadVars
<1> QED
  BY <1>1, <1>2, <1>3, <1>4, <1>5, <1>6, <1>7

\* The inductive invariant.
THEOREM Invariance == Spec => []Inv
<1>1. Init => Inv
  BY Initially
<1>2. Inv /\ [Next]_vars => Inv'
  <2> SUFFICES ASSUME Inv, [Next]_vars PROVE Inv'
    OBVIOUS
  <2>1. NumbersOK' /\ FlagsOK' /\ SignalsOK'
    BY NumberSteps, FlagSteps, SignalSteps DEF Inv, TypeInv
  <2>2. ThreadInv'
    BY ThreadSteps DEF Inv, TypeInv, UserInv
  <2>3. UserInv'
    BY UserSteps
  <2> QED
    BY <2>1, <2>2, <2>3 DEF Inv, TypeInv
<1> QED
  BY <1>1, <1>2, PTL DEF Spec

\* A display is that of a server that was started, and there are never more
\* batches on the wire and in the queue than were sent (doInitConnection,
\* dispatchEvents).
THEOREM TypeCorrect == Spec => []TypeOK
<1>1. NumbersOK => wire \in 0 .. sent /\ queued \in 0 .. sent
  BY DEF NumbersOK
<1>2. Inv => TypeOK
  BY <1>1 DEF Inv, TypeInv, NumbersOK, FlagsOK, SignalsOK, TypeOK
<1> QED
  BY <1>2, Invariance, PTL

\* What doInitConnection(), the handlers of errors, of the file and of the
\* directory leave is one whole connection, and the user who follows the
\* signals is told of the end of each before the next one begins: for any
\* number of servers, crashes and batches of events.
THEOREM OneWholeConnection == Spec => []ConnectionIsWhole
<1>1. Inv => DisplayIsWatched /\ OneConnectionAtATime
  BY DEF Inv, ThreadInv, DisplayIsWatched, OneConnectionAtATime
<1>2. Inv => SetUpOnFreshQueue
  <2> SUFFICES ASSUME Inv, inbox # <<>>, Head(inbox) = "connected"
               PROVE  registryOn = 0
    BY DEF SetUpOnFreshQueue
  <2>1. Head(inbox) = inbox[1] /\ 1 \in 1 .. Len(inbox)
    BY TailFacts DEF Inv, TypeInv, SignalsOK
  <2>2. 1 \in OffBefore
    BY <2>1 DEF Inv, UserInv
  <2> QED
    BY <2>2 DEF OffBefore
<1>3. Inv => ErrorIsCurrent
  <2> SUFFICES ASSUME Inv PROVE ErrorIsCurrent
    OBVIOUS
  <2>1. told = "connectionDied" /\ inbox = <<>> => DiedLast
    BY DEF DiedLast
  <2> QED
    BY <2>1 DEF Inv, ThreadInv, UserInv, ErrorIsCurrent
<1>4. Inv => ConnectionIsWhole
  BY <1>1, <1>2, <1>3 DEF ConnectionIsWhole
<1> QED
  BY <1>4, Invariance, PTL
=============================================================================
