------------------------------ MODULE V4l2Buffers ------------------------------
(***************************************************************************)
(* The camera buffer bookkeeping of HosV4L2Buffers (v4l2_buffer.cpp).     *)
(* The upper layer (the buffer pool) hands a frame to V4L2QueueBuffer,    *)
(* which queues its buffer index with VIDIOC_QBUF and records the frame   *)
(* in queueBuffers_, under bufferLock_.  A dequeue thread loops on        *)
(* V4L2DequeueBuffer: VIDIOC_DQBUF outside the lock, then, under it,     *)
(* looks the index up, gives the frame back through the dequeueBuffer_    *)
(* callback and erases it.  Flush gives every recorded frame back and     *)
(* clears the record; V4L2ReleaseBuffers drops the record and frees the   *)
(* kernel buffers.                                                         *)
(*                                                                         *)
(* One device fd.  A buffer is its index; kern[i] is its state in the     *)
(* video driver, owner[i] who holds its frame: the pool, or the library   *)
(* once queued.  The device code that streams on and off and runs the    *)
(* dequeue thread (HosV4L2Dev) is not in this repository; its steps are   *)
(* the environment actions, and JoinBeforeFlush says whether it stops the *)
(* dequeue thread before it flushes, CallbackBeforeStream whether it sets  *)
(* the dequeue callback (SetCallback) before it streams on.               *)
(***************************************************************************)
EXTENDS Naturals

CONSTANTS
    Bufs,             \* buffer indices from VIDIOC_REQBUFS
    JoinBeforeFlush,      \* the dequeue thread is joined before Flush
    CallbackBeforeStream  \* SetCallback is called before the first stream on

VARIABLES
    kern,       \* per index: "idle" (dequeued), "queued" or "done"
    owner,      \* per index: "pool" or "lib"
    qmap,       \* per index: queueBuffers_[fd] holds a frame for it
    dev,        \* device phase: "idle", "streaming", or "stopping" (STREAMOFF done, Flush next)
    dq,         \* dequeue thread: "wait", "stopped", or the index it dequeued
    cb          \* dequeueBuffer_ is set

bvars == <<kern, owner, qmap, dev, dq, cb>>

BTypeOK ==
    /\ kern \in [Bufs -> {"idle", "queued", "done"}]
    /\ owner \in [Bufs -> {"pool", "lib"}]
    /\ qmap \in [Bufs -> BOOLEAN]
    /\ dev \in {"idle", "streaming", "stopping"}
    /\ dq \in Bufs \cup {"wait", "stopped"}
    /\ cb \in BOOLEAN

(* After V4L2ReqBuffers and V4L2AllocBuffer: every buffer is the pool's; *)
(* no callback is set yet.                                                 *)
BInit ==
    /\ kern = [i \in Bufs |-> "idle"]
    /\ owner = [i \in Bufs |-> "pool"]
    /\ qmap = [i \in Bufs |-> FALSE]
    /\ dev = "idle"
    /\ dq = "stopped"
    /\ cb = FALSE

(* SetCallback: dequeueBuffer_ = cb; the device passes its frame handler. *)
SetCallback ==
    /\ ~cb
    /\ cb' = TRUE
    /\ UNCHANGED <<kern, owner, qmap, dev, dq>>

(* V4L2QueueBuffer: VIDIOC_QBUF under bufferLock_; the driver refuses an  *)
(* index that is already queued (RC_ERROR, the frame stays with the      *)
(* caller); on success queueBuffers_[fd][index] = frameSpec.              *)
QueueBuffer(i) ==
    /\ dev # "stopping"
    /\ owner[i] = "pool"
    /\ kern[i] = "idle"
    /\ kern' = [kern EXCEPT ![i] = "queued"]
    /\ owner' = [owner EXCEPT ![i] = "lib"]
    /\ qmap' = [qmap EXCEPT ![i] = TRUE]
    /\ UNCHANGED <<dev, dq, cb>>

(* The camera fills a queued buffer.                                       *)
Complete(i) ==
    /\ dev = "streaming" /\ kern[i] = "queued"
    /\ kern' = [kern EXCEPT ![i] = "done"]
    /\ UNCHANGED <<owner, qmap, dev, dq, cb>>

(* V4L2DequeueBuffer, first part: VIDIOC_DQBUF, outside the lock, takes a *)
(* filled buffer (it blocks until there is one).                           *)
DqIoctl(i) ==
    /\ dq = "wait" /\ dev = "streaming" /\ kern[i] = "done"
    /\ kern' = [kern EXCEPT ![i] = "idle"]
    /\ dq' = i
    /\ UNCHANGED <<owner, qmap, dev, cb>>

(* V4L2DequeueBuffer, under bufferLock_: no frame recorded for buf.index  *)
(* is RC_ERROR; with no callback set the record is erased and RC_ERROR    *)
(* returned, the frame given back to nobody; otherwise (BlitForMMAP and)  *)
(* the callback gives the frame back to the pool and the record is erased.*)
\* Variant: the first recorded frame is returned instead of buf.index's.
DqLockedFirst(i) ==
    /\ dq = i
    /\ dq' = "wait"
    /\ IF \E j \in Bufs : qmap[j]
       THEN \E j \in Bufs : /\ qmap[j]
                            /\ owner' = [owner EXCEPT ![j] = "pool"]
                            /\ qmap' = [qmap EXCEPT ![j] = FALSE]
       ELSE UNCHANGED <<owner, qmap>>
    /\ UNCHANGED <<kern, dev, cb>>

\* Variant: the record is erased without the callback.
DqLockedNoCallback(i) ==
    /\ dq = i
    /\ dq' = "wait"
    /\ qmap' = [qmap EXCEPT ![i] = FALSE]
    /\ UNCHANGED <<kern, owner, dev, cb>>

DqLocked(i) ==
    /\ dq = i
    /\ dq' = "wait"
    /\ qmap' = [qmap EXCEPT ![i] = FALSE]
    /\ owner' = IF qmap[i] /\ cb THEN [owner EXCEPT ![i] = "pool"] ELSE owner
    /\ UNCHANGED <<kern, dev, cb>>

(* Flush, under bufferLock_: with no callback set it returns RC_ERROR    *)
(* and keeps the record; otherwise every recorded frame is marked invalid *)
(* and given back through the callback, then the record is cleared.  The *)
(* device goes on stopping either way.                                     *)
\* Variant: the record is not cleared.
FlushKeep ==
    /\ dev = "stopping" /\ (JoinBeforeFlush => dq = "stopped")
    /\ owner' = [i \in Bufs |-> IF qmap[i] THEN "pool" ELSE owner[i]]
    /\ dev' = "idle"
    /\ UNCHANGED <<kern, qmap, dq, cb>>

Flush ==
    /\ dev = "stopping" /\ (JoinBeforeFlush => dq = "stopped")
    /\ IF cb
       THEN /\ owner' = [i \in Bufs |-> IF qmap[i] THEN "pool" ELSE owner[i]]
            /\ qmap' = [i \in Bufs |-> FALSE]
       ELSE UNCHANGED <<owner, qmap>>
    /\ dev' = "idle"
    /\ UNCHANGED <<kern, dq, cb>>

(* V4L2ReleaseBuffers: erase the fd's record, whatever it holds, then    *)
(* VIDIOC_REQBUFS(0).  Its guard is the device's order, not a check of    *)
(* the code: HosV4L2Dev releases with the stream off and                  *)
(* the thread joined, after a Flush has given every recorded frame back   *)
(* (a release with frames still recorded would drop them, and            *)
(* FramesAccounted would fail).                                            *)
ReleaseBuffers ==
    /\ dev = "idle" /\ dq = "stopped"
    /\ \A i \in Bufs : ~qmap[i]
    /\ kern' = [i \in Bufs |-> "idle"]
    /\ qmap' = [i \in Bufs |-> FALSE]
    /\ UNCHANGED <<owner, dev, dq, cb>>

(* The device code (HosV4L2Dev): stream on and start the dequeue thread; *)
(* to stop, VIDIOC_STREAMOFF (the driver returns every buffer to the      *)
(* dequeued state), join the dequeue thread once it is back at its loop   *)
(* head, then Flush.  The pool queues no buffer while the device stops.   *)
StreamOn ==
    /\ dev = "idle" /\ (CallbackBeforeStream => cb)
    /\ dev' = "streaming"
    /\ dq' = IF dq = "stopped" THEN "wait" ELSE dq
    /\ UNCHANGED <<kern, owner, qmap, cb>>

StreamOff ==
    /\ dev = "streaming"
    /\ dev' = "stopping"
    /\ kern' = [i \in Bufs |-> "idle"]
    /\ UNCHANGED <<owner, qmap, dq, cb>>

JoinDequeuer ==
    /\ dev # "streaming" /\ dq = "wait"
    /\ dq' = "stopped"
    /\ UNCHANGED <<kern, owner, qmap, dev, cb>>

BNext ==
    \/ \E i \in Bufs : QueueBuffer(i) \/ Complete(i) \/ DqIoctl(i) \/ DqLocked(i)
    \/ Flush \/ ReleaseBuffers \/ StreamOn \/ StreamOff \/ JoinDequeuer \/ SetCallback

BSpec == BInit /\ [][BNext]_bvars

(* What the code and the hardware guarantee while `on' holds: the camera *)
(* fills the buffers queued to a streaming device; the dequeue thread,    *)
(* which loops on V4L2DequeueBuffer, takes every filled buffer (the       *)
(* driver's done list is FIFO, so a buffer that is filled again and again *)
(* is not passed over for ever: strong fairness per index) and finishes   *)
(* the locked part; once the device has begun to stop (STREAMOFF) it     *)
(* joins the thread and flushes.  The pool, StreamOn and StreamOff need   *)
(* not happen: the caller may stop queueing or stream for ever.           *)
BFairness(on) ==
    /\ \A i \in Bufs : /\ WF_bvars(on /\ Complete(i))
                     /\ SF_bvars(on /\ DqIoctl(i))
                     /\ WF_bvars(on /\ DqLocked(i))
    /\ WF_bvars(on /\ (JoinDequeuer \/ Flush))

-----------------------------------------------------------------------------
(* A buffer the pool holds is not in the driver's hands: no frame is      *)
(* given back by the dequeue callback or by Flush while its buffer is     *)
(* still queued or being filled by the camera, whatever order the         *)
(* dequeue thread's DQBUF, its locked lookup and the device's stream      *)
(* on, queueing and stream off happen in, provided the device joins the   *)
(* dequeue thread before it flushes (JoinBeforeFlush).  Without that join *)
(* a Flush and a re-queue of the index can fall between DQBUF and the     *)
(* lookup, and the property fails (MCV4l2BuffersNoJoin.cfg).              *)
ExclusiveOwnership ==
    \A i \in Bufs : owner[i] = "pool" => kern[i] = "idle" /\ dq # i

(* queueBuffers_ records exactly the frames the library holds: none is    *)
(* lost (held by the library with no record to give it back) and none is  *)
(* given back twice (recorded after it went back to the pool).             *)
FramesAccounted ==
    \A i \in Bufs : owner[i] = "lib" <=> qmap[i]

(* Every frame the library holds comes back to the pool once the driver  *)
(* no longer has its buffer queued: filled buffers through the dequeue    *)
(* thread's callback, the rest through Flush when the device stops.  A    *)
(* dequeue with no callback set, or a Flush that keeps a frame, would     *)
(* strand it in the library, and the pool would run dry.                   *)
FramesReturned ==
    \A i \in Bufs : (owner[i] = "lib" /\ kern[i] # "queued") ~> owner[i] = "pool"

=============================================================================
