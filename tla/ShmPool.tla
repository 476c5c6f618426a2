------------------------------ MODULE ShmPool ------------------------------
(***************************************************************************)
(* The shared memory pool of the client library (ShmPool and the Buffers   *)
(* it owns): an int32 sized file mapped into the client and handed to the  *)
(* compositor, from which buffers are carved one after the other and are   *)
(* reused once the compositor released them and the user is done with them.*)
(*                                                                         *)
(* Modelled with it: the user of the pool, who draws into a buffer, may    *)
(* mark it used (its memory is then shared with e.g. a QImage), commits it *)
(* to a surface; and the compositor, which reads a committed buffer and    *)
(* later sends wl_buffer.release.  The size, stride and format of a buffer *)
(* are one member of Kinds: getBuffer only compares them, and needs the    *)
(* number of bytes they amount to.                                         *)
(***************************************************************************)
EXTENDS Integers, Sequences

CONSTANTS
  Kinds,        \* combinations of size, stride and format
  Bytes,        \* Bytes[k]: height * stride of kind k
  InitialSize,  \* the size a new pool starts with (1024)
  FileLimit,    \* largest file the system grants (ENOSPC, RLIMIT_FSIZE)
  MaxInt,       \* largest int32_t
  MaxBuffers    \* bound: buffers the user asks for between two teardowns

ASSUME ShmPoolAssumption ==
  /\ Bytes \in [Kinds -> Nat \ {0}]
  /\ InitialSize \in Nat \ {0}
  /\ FileLimit \in Nat /\ InitialSize <= FileLimit
  /\ MaxInt \in Nat /\ FileLimit <= MaxInt
  /\ \A k \in Kinds : Bytes[k] <= MaxInt
  /\ MaxBuffers \in Nat

VARIABLES
  shm,          \* the wl_shm proxy is set
  fd,           \* the file behind the pool is open
  pool,         \* the wl_shm_pool proxy is set
  mapping,      \* poolData: "none", "mapped", or "failed" (MAP_FAILED)
  size,         \* the pool's idea of its size
  serverSize,   \* the size the compositor was told, 0 without a pool
  valid,        \* what isValid() answers
  offset,       \* where the next new buffer goes
  buffers,      \* the list of buffers, in order of creation
  drawing,      \* buffers (indices) the user writes to and has not committed
  busy,         \* buffers committed and not yet released by the compositor
  releasing,    \* buffers whose release event is on its way to the client
  stale         \* used buffers whose user still has an unmapped address

poolVars == <<shm, fd, pool, mapping, size, serverSize, valid, offset>>
holderVars == <<drawing, busy, releasing, stale>>
shmVars == <<poolVars, buffers, holderVars>>

\* A sum of two int32_t: the overflow is undefined behaviour, wrapping
\* around is what the usual builds do.
Wrap(n) == IF n > MaxInt THEN n - 2 * (MaxInt + 1) ELSE n

Buffer == [kind : Kinds, off : Int, released : BOOLEAN, used : BOOLEAN]

\* Mutant: getBuffer does not look at used.
ReusableWhenUsed(i, k) == buffers[i].released /\ buffers[i].kind = k

\* The condition under which getBuffer hands out buffer i again.
Reusable(i, k) ==
  /\ buffers[i].released
  /\ ~buffers[i].used
  /\ buffers[i].kind = k

NoneReusable(k) == \A i \in DOMAIN buffers : ~Reusable(i, k)

\* The buffers whose memory is shared with the user's own objects.
Used == {i \in DOMAIN buffers : buffers[i].used}

PoolInit ==
  /\ shm = FALSE /\ fd = FALSE /\ pool = FALSE /\ valid = FALSE
  /\ mapping = "none"
  /\ size = InitialSize /\ serverSize = 0 /\ offset = 0
  /\ buffers = <<>>
  /\ drawing = {} /\ busy = {} /\ releasing = {} /\ stale = {}
-----------------------------------------------------------------------------
(* setup(): createPool opens a file, sizes it, maps it and creates the     *)
(* wl_shm_pool.  Every step but the last returns false where it fails.     *)

Setup(outcome) ==
  /\ ~shm
  /\ shm' = TRUE
  /\ fd' = (outcome # "no file")
  /\ pool' = (outcome \in {"no mapping", "ok"})
  /\ mapping' = CASE outcome = "ok" -> "mapped"
                  [] outcome = "no mapping" -> "failed"
                  [] OTHER -> "none"
  /\ serverSize' = IF outcome \in {"no mapping", "ok"} THEN size ELSE 0
  /\ valid' = (outcome = "ok")
  /\ UNCHANGED <<size, offset, buffers, holderVars>>

Outcomes == {"no file", "no space", "no mapping", "ok"}

\* Mutant: release events outlive their buffers.
TeardownKeepingReleases ==
  /\ shm
  /\ shm' = FALSE /\ fd' = FALSE /\ pool' = FALSE /\ valid' = FALSE
  /\ mapping' = "none" /\ serverSize' = 0 /\ offset' = 0
  /\ buffers' = <<>>
  /\ drawing' = {} /\ busy' = {} /\ stale' = {}
  /\ UNCHANGED <<size, releasing>>

\* Mutant: the list of buffers is not cleared.
TeardownKeepingBuffers ==
  /\ shm
  /\ shm' = FALSE /\ fd' = FALSE /\ pool' = FALSE /\ valid' = FALSE
  /\ mapping' = "none" /\ serverSize' = 0 /\ offset' = 0
  /\ UNCHANGED <<size, buffers, holderVars>>

\* release() and destroy(): they differ in whether the proxies' destructors
\* are sent or only freed, not in what is left behind.  The size is kept.
Teardown ==
  /\ shm
  /\ shm' = FALSE /\ fd' = FALSE /\ pool' = FALSE /\ valid' = FALSE
  /\ mapping' = "none" /\ serverSize' = 0 /\ offset' = 0
  /\ buffers' = <<>>
  /\ drawing' = {} /\ busy' = {} /\ releasing' = {} /\ stale' = {}
  /\ UNCHANGED size
-----------------------------------------------------------------------------
(* getBuffer(), which createBuffer() calls and then copies into.  Only     *)
(* createBuffer() looks at valid; that getBuffer() is called on a valid    *)
(* pool is the user's part.                                                *)

\* The first buffer that can be reused is.
Reuse(k) ==
  /\ valid
  /\ \E i \in DOMAIN buffers :
       /\ Reusable(i, k)
       /\ \A j \in 1 .. i - 1 : ~Reusable(j, k)
       /\ buffers' = [buffers EXCEPT ![i].released = FALSE]
       /\ drawing' = drawing \union {i}
  /\ UNCHANGED <<poolVars, busy, releasing, stale>>

\* Mutant: the space in use is forgotten.
FitsEmptyPool(k) == Bytes[k] <= size

Fits(k) == Wrap(offset + Bytes[k]) <= size

Grown(k) == Wrap(size + Bytes[k])

\* The ftruncate of resizePool() can succeed.
Truncatable(n) == n >= 0 /\ n <= FileLimit

\* Mutant: offset is not advanced.
AppendBufferInPlace(k) ==
  /\ buffers' = Append(buffers, [kind |-> k, off |-> offset,
                                 released |-> FALSE, used |-> FALSE])
  /\ drawing' = drawing \union {Len(buffers) + 1}
  /\ UNCHANGED <<shm, fd, pool, valid, offset, busy, releasing>>

\* Appends a new buffer of kind k and hands it to the user.
AppendBuffer(k) ==
  /\ buffers' = Append(buffers, [kind |-> k, off |-> offset,
                                 released |-> FALSE, used |-> FALSE])
  /\ drawing' = drawing \union {Len(buffers) + 1}
  /\ offset' = Wrap(offset + Bytes[k])
  /\ UNCHANGED <<shm, fd, pool, valid, busy, releasing>>

MustCreate(k) == valid /\ NoneReusable(k) /\ Len(buffers) < MaxBuffers

CreateInPlace(k) ==
  /\ MustCreate(k)
  /\ Fits(k)
  /\ AppendBuffer(k)
  /\ UNCHANGED <<mapping, size, serverSize, stale>>

\* Mutant: poolResized() is not emitted.
CreateAfterSilentResize(k) ==
  /\ MustCreate(k)
  /\ ~Fits(k)
  /\ Truncatable(Grown(k))
  /\ size' = Grown(k)
  /\ serverSize' = Grown(k)
  /\ mapping' = "mapped"
  /\ stale' = Used
  /\ AppendBuffer(k)

\* resizePool() succeeds: users of the old mapping hear of it through
\* poolResized() and fetch their addresses again.
CreateAfterResize(k) ==
  /\ MustCreate(k)
  /\ ~Fits(k)
  /\ Truncatable(Grown(k))
  /\ size' = Grown(k)
  /\ serverSize' = Grown(k)
  /\ mapping' = "mapped"
  /\ stale' = {}
  /\ AppendBuffer(k)

\* The file is grown, the old mapping is gone, the new one is refused: a
\* null buffer is returned, nobody is told, valid stays.
ResizeFailsToMap(k) ==
  /\ MustCreate(k)
  /\ ~Fits(k)
  /\ Truncatable(Grown(k))
  /\ size' = Grown(k)
  /\ serverSize' = Grown(k)
  /\ mapping' = "failed"
  /\ stale' = Used
  /\ UNCHANGED <<shm, fd, pool, valid, offset, buffers, drawing, busy, releasing>>

\* ftruncate fails: a null buffer is returned and nothing has changed.
ResizeFailsToTruncate(k) ==
  /\ MustCreate(k)
  /\ ~Fits(k)
  /\ UNCHANGED shmVars
-----------------------------------------------------------------------------
(* The user and the compositor.                                            *)

\* The user attaches and commits the buffer.
Commit(i) ==
  /\ i \in drawing
  /\ drawing' = drawing \ {i}
  /\ busy' = busy \union {i}
  /\ UNCHANGED <<poolVars, buffers, releasing, stale>>

\* The user drops a buffer it never committed.
GiveBack(i) ==
  /\ i \in drawing
  /\ drawing' = drawing \ {i}
  /\ buffers' = [buffers EXCEPT ![i].released = TRUE]
  /\ UNCHANGED <<poolVars, busy, releasing, stale>>

\* Buffer::setUsed(true), while the buffer is the user's.
SetUsed(i) ==
  /\ i \in drawing
  /\ buffers' = [buffers EXCEPT ![i].used = TRUE]
  /\ UNCHANGED <<poolVars, holderVars>>

\* Buffer::setUsed(false), once the user stopped sharing the memory.
ClearUsed(i) ==
  /\ i \in Used
  /\ i \notin drawing
  /\ buffers' = [buffers EXCEPT ![i].used = FALSE]
  /\ stale' = stale \ {i}
  /\ UNCHANGED <<poolVars, drawing, busy, releasing>>

\* A user that kept its buffer draws into it again after the release event,
\* calling Buffer::setReleased(false) itself.
Redraw(i) ==
  /\ i \in Used
  /\ buffers[i].released
  /\ buffers' = [buffers EXCEPT ![i].released = FALSE]
  /\ drawing' = drawing \union {i}
  /\ UNCHANGED <<poolVars, busy, releasing, stale>>

\* The compositor is done with a buffer and sends wl_buffer.release.
CompositorReleases(i) ==
  /\ i \in busy
  /\ busy' = busy \ {i}
  /\ releasing' = releasing \union {i}
  /\ UNCHANGED <<poolVars, buffers, drawing, stale>>

\* releasedCallback()
ReleaseEvent(i) ==
  /\ i \in releasing
  /\ releasing' = releasing \ {i}
  /\ buffers' = [buffers EXCEPT ![i].released = TRUE]
  /\ UNCHANGED <<poolVars, drawing, busy, stale>>
-----------------------------------------------------------------------------
GetBuffer(k) ==
  \/ Reuse(k)
  \/ CreateInPlace(k)
  \/ CreateAfterResize(k)
  \/ ResizeFailsToMap(k)
  \/ ResizeFailsToTruncate(k)

UseBuffer(i) ==
  \/ Commit(i)
  \/ GiveBack(i)
  \/ SetUsed(i)
  \/ ClearUsed(i)
  \/ Redraw(i)
  \/ CompositorReleases(i)
  \/ ReleaseEvent(i)

PoolNext ==
  \/ \E outcome \in Outcomes : Setup(outcome)
  \/ Teardown
  \/ \E k \in Kinds : GetBuffer(k)
  \/ \E i \in DOMAIN buffers : UseBuffer(i)

PoolSpec == PoolInit /\ [][PoolNext]_shmVars
-----------------------------------------------------------------------------
(* No file the system grants is so large that adding one more buffer       *)
(* overflows an int32_t.                                                   *)
FileFitsInt == \A k \in Kinds : FileLimit + Bytes[k] <= MaxInt

PoolTypeOK ==
  /\ shm \in BOOLEAN /\ fd \in BOOLEAN /\ pool \in BOOLEAN /\ valid \in BOOLEAN
  /\ mapping \in {"none", "mapped", "failed"}
  /\ size \in Int /\ serverSize \in Int /\ offset \in Int
  /\ buffers \in Seq(Buffer)
  /\ drawing \subseteq DOMAIN buffers
  /\ busy \subseteq DOMAIN buffers
  /\ releasing \subseteq DOMAIN buffers
  /\ stale \subseteq Used

\* The bytes of buffer i.
BytesOf(i) == [lo |-> buffers[i].off, hi |-> buffers[i].off + Bytes[buffers[i].kind]]

\* Every buffer lies inside the pool the compositor was told of: anything
\* else is a protocol error that ends the connection, and an access past
\* the end of the mapping in the client (getBuffer, resizePool).
BuffersInsidePool ==
  \A i \in DOMAIN buffers :
    /\ 0 <= BytesOf(i).lo
    /\ BytesOf(i).hi <= serverSize

\* No two buffers of the pool share a byte, however often the pool was
\* resized, torn down and set up again (getBuffer's offset bookkeeping).
BuffersDisjoint ==
  \A i, j \in DOMAIN buffers :
    i # j => \/ BytesOf(i).hi <= BytesOf(j).lo
             \/ BytesOf(j).hi <= BytesOf(i).lo

\* getBuffer never hands out a buffer that is being drawn to, that the
\* compositor may still read, or that somebody has marked as used.
NoReuseWhileHeld ==
  \A i \in DOMAIN buffers :
    i \in drawing \union busy \union releasing \union Used
      => \A k \in Kinds : ~Reusable(i, k)

\* A buffer has one holder at a time: the user does not draw into what the
\* compositor reads, and no second release event is due for it.  No buffer is
\* lost either: one that is not released has a holder that can release it.
OneHolder ==
  /\ drawing \intersect busy = {}
  /\ drawing \intersect releasing = {}
  /\ busy \intersect releasing = {}
  /\ drawing \union busy \union releasing = {i \in DOMAIN buffers : ~buffers[i].released}

\* While the pool is mapped nobody works with an address of an earlier
\* mapping: whoever shares a buffer's memory was told of the resize.
SharedAddressesFresh == mapping = "mapped" => stale = {}

\* A living pool never shrinks: wl_shm_pool.resize only allows growing, and
\* the file is sealed against shrinking.
PoolNeverShrinks == [][pool /\ pool' => serverSize' >= serverSize]_shmVars

\* The buffers getBuffer would not hand out again.
LentBuffers == {i \in DOMAIN buffers : ~buffers[i].released \/ buffers[i].used}

\* The pool is a lender of memory: it lends the bytes of those buffers, and
\* never bytes that are lent already.
Lender == INSTANCE MemoryLender WITH lent <- {BytesOf(i) : i \in LentBuffers}
LendsMemory == Lender!Spec

\* shm_pool.h: isValid() is "true if the ShmPool references a wl_shm
\* interface and the shared memory pool is setup".  resizePool() leaves it
\* true with the memory unmapped.
ValidMeansMapped == valid => shm /\ mapping = "mapped"
=============================================================================
