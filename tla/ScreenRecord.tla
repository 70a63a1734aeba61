---------------------------- MODULE ScreenRecord ----------------------------
(***************************************************************************)
(* A screen recording (services/screencontrol): the binder thread in       *)
(* ScreenControlService::startScreenRecord, the ScreenManager that owns    *)
(* the capture device (ScreenManager.cpp), the ESConvertor that feeds the  *)
(* video encoder (Media2Ts/esconvertor.cpp), the TSPacker that packs its   *)
(* output (Media2Ts/tspack.cpp), and the two libraries below them: the     *)
(* device, which calls back with every frame, and MediaCodec, which        *)
(* consumes the frames and returns their buffers on a thread of its own.   *)
(*                                                                         *)
(* Every recording has a ScreenManager of its own, so there is one client. *)
(* With the hardware encoder it is a canvas client: what travels is the    *)
(* device's own buffer, which must come back by freeBuffer.  With the      *)
(* software encoder it is a raw data client, and what travels is a copy.   *)
(***************************************************************************)
EXTENDS Integers, Sequences, FiniteSets

CONSTANTS
  Buffers,     (* the buffers of the capture device                          *)
  NoBuffer,    (* the buffer of a frame that is a copy                       *)
  Slots,       (* the number of input buffers of the encoder                 *)
  RawLimit,    (* raw frames the manager keeps (60 in the code)              *)
  Limit,       (* limitTimeSec * frameRate                                   *)
  MaxFrames,   (* bound: frames the manager takes from the device            *)
  MaxErrors    (* bound: input buffers the encoder refuses                   *)

ASSUME RecordAssumption ==
  /\ IsFiniteSet(Buffers) /\ NoBuffer \notin Buffers
  /\ Slots \in Nat /\ RawLimit \in Nat /\ Limit \in Nat
  /\ MaxFrames \in Nat /\ MaxErrors \in Nat

VARIABLES
  soft,                (* mIsSoftwareEncoder                                 *)
  devRunning,          (* the device captures                                *)
  devFree,             (* the buffers it may fill                            *)
  cbPc, cbBuf,         (* dataCallBack: how far it is, and its buffer        *)
  mError,              (* ScreenManager::mError                              *)
  mgrStarted,          (* ScreenManager::mStarted                            *)
  mCanvasClientExist,
  mgrQueue,            (* mCanvasFramesReceived, or mRawBufferQueue          *)
  taken,               (* the number of frames put there                     *)
  escStarted,          (* ESConvertor::mStarted                              *)
  vPc, vFrame,         (* threadVideoFunc: where it is, the frame it read    *)
  mFramesReceived, mInputBufferQueue,
  mAvail,              (* the size of mAvailEncoderInputIndices              *)
  mBufferRelease,      (* the buffer that freeBuffer is called with          *)
  escOut,              (* ESConvertor::mOutputBufferQueue                    *)
  enc, encOut,         (* the encoder's queued input, and its output         *)
  codec, codecFrame,   (* signalBufferReturned, and the frame it returns     *)
  errors,              (* input buffers lost to a failed queueInputBuffer    *)
  tspStarted,          (* TSPacker::mStarted                                 *)
  pPc,                 (* TSPacker::threadFunc                               *)
  tspOut,              (* TSPacker::mOutputBufferQueue                       *)
  cPc,                 (* the caller of startScreenRecord                    *)
  written,             (* the frames it wrote to the file                    *)
  lost,                (* history: buffers nobody will give back             *)
  failed               (* history: frames the encoder refused                *)

device   == <<devRunning, devFree>>
callback == <<cbPc, cbBuf, mError>>
manager  == <<mgrStarted, mCanvasClientExist, mgrQueue, taken>>
queues   == <<mFramesReceived, mInputBufferQueue>>
video    == <<vPc, vFrame, mAvail>>
encoder  == <<enc, encOut, codec, codecFrame, errors>>
packer   == <<tspStarted, pPc, tspOut>>
caller   == <<cPc, written>>
history  == <<lost, failed>>
vars == <<soft, device, callback, manager, escStarted, queues, video, mBufferRelease, escOut,
          encoder, packer, caller, history>>

(* The software path passes copies on, the hardware path the buffers.      *)
Frame == [n : 1..MaxFrames, b : IF soft THEN {NoBuffer} ELSE Buffers]
NoFrame == [n |-> 0, b |-> NoBuffer]

Csd == 0   (* the codec's configuration, its first output                    *)
EsUnit == 0..MaxFrames

(* Where the caller is: in start and in stop of the ESConvertor it goes    *)
(* through start and stop of the ScreenManager.                            *)
Starting == {"init", "mgrStart", "escStart", "create", "tspStart"}
Stopping == {"tspStop", "escStop", "wait", "waiting", "drain", "drained", "mgrStop",
             "mgrReset", "encStop", "uninit"}
TornDown == {"drain", "drained", "mgrStop", "mgrReset", "encStop", "uninit", "done"}

Init ==
  /\ soft \in BOOLEAN
  /\ devRunning = FALSE /\ devFree = Buffers
  /\ cbPc = "idle" /\ cbBuf = NoBuffer /\ mError = FALSE
  /\ mgrStarted = FALSE /\ mCanvasClientExist = FALSE /\ mgrQueue = <<>> /\ taken = 0
  /\ escStarted = FALSE
  /\ mFramesReceived = <<>> /\ mInputBufferQueue = <<>>
  /\ vPc = "none" /\ vFrame = NoFrame /\ mAvail = 0
  /\ mBufferRelease = NoBuffer
  /\ escOut = <<>>
  /\ enc = <<>> /\ encOut = <<>> /\ codec = "idle" /\ codecFrame = NoFrame /\ errors = 0
  /\ tspStarted = FALSE /\ pPc = "none" /\ tspOut = <<>>
  /\ cPc = "init" /\ written = <<>>
  /\ lost = {} /\ failed = {}

(* ScreenManager::mLock: held across several steps only by start and stop; *)
(* every other holder of it is one action.                                 *)
ManagerFree == cPc \notin {"mgrStart", "mgrReset"}

(* ESConvertor::mMutex: stop holds it from its beginning to its end.       *)
ConvertorFree == cPc \notin (Stopping \ {"tspStop", "escStop"})

HasClient == cPc \notin {"init", "done"}

Lose(f) == lost' = lost \union ({f.b} \ {NoBuffer})

----------------------------------------------------------------------------
(* The device and ScreenManager::dataCallBack *)

Capture(b) ==
  /\ devRunning /\ cbPc = "idle" /\ taken < MaxFrames
  /\ b \in devFree
  /\ devFree' = devFree \ {b}
  /\ cbPc' = "called" /\ cbBuf' = b
  /\ UNCHANGED <<soft, devRunning, mError, manager, escStarted, queues, video, mBufferRelease,
                 escOut, encoder, packer, caller, history>>

(* A frame that is not wanted is not given back.                           *)
Unwanted ==
  /\ cbPc' = "idle" /\ cbBuf' = NoBuffer
  /\ lost' = lost \union {cbBuf}

(* mStarted is tested without mLock.                                       *)
CallbackTest ==
  /\ cbPc = "called"
  /\ IF mgrStarted /\ ~mError
       THEN cbPc' = "wanted" /\ UNCHANGED <<cbBuf, lost>>
       ELSE Unwanted
  /\ UNCHANGED <<soft, device, mError, manager, escStarted, queues, video, mBufferRelease, escOut,
                 encoder, packer, caller, failed>>

(* A frame without memory is not wanted, nor one without a canvas if       *)
(* mCanvasMode, which is never initialised, happens to be true: after that *)
(* one no frame is wanted any more.                                        *)
CallbackError ==
  /\ cbPc = "called" /\ mgrStarted /\ ~mError
  /\ mError' \in BOOLEAN
  /\ Unwanted
  /\ UNCHANGED <<soft, device, manager, escStarted, queues, video, mBufferRelease, escOut,
                 encoder, packer, caller, failed>>

(* MUTANT: the buffer is given back at once also when a canvas client exists. *)
DeliverAndFree ==
  LET keep == HasClient /\ mCanvasClientExist IN
  /\ cbPc = "wanted" /\ ManagerFree
  /\ cbPc' = "idle" /\ cbBuf' = NoBuffer
  /\ devFree' = IF HasClient THEN devFree \union {cbBuf} ELSE devFree
  /\ mgrQueue' = IF keep THEN Append(mgrQueue, [n |-> taken + 1, b |-> cbBuf]) ELSE mgrQueue
  /\ taken' = IF keep THEN taken + 1 ELSE taken
  /\ lost' = IF HasClient THEN lost ELSE lost \union {cbBuf}
  /\ UNCHANGED <<soft, devRunning, mError, mgrStarted, mCanvasClientExist, escStarted, queues,
                 video, mBufferRelease, escOut, encoder, packer, caller, failed>>

(* Under mLock: nothing without a client; the buffer is given back at once *)
(* unless a canvas client exists; a copy, or the buffer itself, is queued. *)
CallbackDeliver ==
  LET keep == HasClient /\ mCanvasClientExist
      copy == HasClient /\ soft /\ Len(mgrQueue) < RawLimit
  IN
  /\ cbPc = "wanted" /\ ManagerFree
  /\ cbPc' = "idle" /\ cbBuf' = NoBuffer
  /\ devFree' = IF HasClient /\ ~mCanvasClientExist THEN devFree \union {cbBuf} ELSE devFree
  /\ mgrQueue' = IF keep \/ copy
                   THEN Append(mgrQueue, [n |-> taken + 1, b |-> IF keep THEN cbBuf ELSE NoBuffer])
                   ELSE mgrQueue
  /\ taken' = IF keep \/ copy THEN taken + 1 ELSE taken
  /\ lost' = IF HasClient THEN lost ELSE lost \union {cbBuf}
  /\ UNCHANGED <<soft, devRunning, mError, mgrStarted, mCanvasClientExist, escStarted, queues,
                 video, mBufferRelease, escOut, encoder, packer, caller, failed>>

(* MUTANT: the buffer is not given to the device. *)
KeepBuffer == UNCHANGED devFree

(* ScreenManager::freeBuffer of the buffer in mBufferRelease.              *)
FreeBuffer == devFree' = IF mgrStarted THEN devFree \union {mBufferRelease} ELSE devFree

----------------------------------------------------------------------------
(* ESConvertor::threadVideoFunc *)

(* stop clears mEncoder in the end.  A thread that uses it after that ends *)
(* the process; here it takes no further step.                             *)
HasEncoder == cPc \notin {"uninit", "done"}

(* One of the encoder's free input buffers, if there is one.               *)
DequeueInput ==
  /\ vPc = "dequeueIn" /\ HasEncoder
  /\ LET inUse == mAvail + Len(enc) + errors + (IF codec = "idle" THEN 0 ELSE 1)
     IN mAvail' = IF inUse < Slots THEN mAvail + 1 ELSE mAvail
  /\ vPc' = IF escStarted THEN "read" ELSE "test"
  /\ UNCHANGED <<soft, device, callback, manager, escStarted, queues, vFrame, mBufferRelease,
                 escOut, encoder, packer, caller, history>>

(* ScreenManager::readBuffer, again and again until it has no frame.       *)
ReadBuffer ==
  /\ vPc = "read" /\ ManagerFree
  /\ IF mgrStarted /\ mgrQueue # <<>>
       THEN /\ vFrame' = Head(mgrQueue)
            /\ mgrQueue' = Tail(mgrQueue)
            /\ vPc' = "got"
       ELSE vPc' = "feed" /\ UNCHANGED <<vFrame, mgrQueue>>
  /\ UNCHANGED <<soft, device, callback, mgrStarted, mCanvasClientExist, taken, escStarted, queues,
                 mAvail, mBufferRelease, escOut, encoder, packer, caller, history>>

(* A frame that was read while stop began is dropped.                      *)
KeepFrame ==
  /\ vPc = "got"
  /\ vFrame' = NoFrame
  /\ IF escStarted
       THEN /\ vPc' = "read"
            /\ IF soft
                 THEN /\ mInputBufferQueue' = Append(mInputBufferQueue, vFrame)
                      /\ UNCHANGED mFramesReceived
                 ELSE /\ mFramesReceived' = Append(mFramesReceived, vFrame)
                      /\ UNCHANGED mInputBufferQueue
            /\ UNCHANGED lost
       ELSE vPc' = "feed" /\ Lose(vFrame) /\ UNCHANGED queues
  /\ UNCHANGED <<soft, device, callback, manager, escStarted, mAvail, mBufferRelease, escOut,
                 encoder, packer, caller, failed>>

(* MUTANT: a frame for which there is no input buffer is dropped. *)
FeedDropsFrame(q) ==
  /\ q = <<>> \/ mAvail = 0
  /\ mInputBufferQueue' = IF q = <<>> THEN q ELSE Tail(q)
  /\ UNCHANGED <<mAvail, enc, errors, history>>

(* feedEncoderInputBuffers with q as mInputBufferQueue: one frame at most, *)
(* and only if there is an input buffer for it.                            *)
FeedNothing(q) ==
  /\ q = <<>> \/ mAvail = 0
  /\ mInputBufferQueue' = q
  /\ UNCHANGED <<mAvail, enc, errors, history>>

FeedFrame(q) ==
  /\ q # <<>> /\ mAvail > 0
  /\ mInputBufferQueue' = Tail(q)
  /\ mAvail' = mAvail - 1
  /\ enc' = Append(enc, Head(q))
  /\ UNCHANGED <<errors, history>>

FeedFails(q) ==
  /\ q # <<>> /\ mAvail > 0 /\ errors < MaxErrors
  /\ mInputBufferQueue' = Tail(q)
  /\ mAvail' = mAvail - 1
  /\ errors' = errors + 1
  /\ failed' = failed \union {Head(q).n}
  /\ Lose(Head(q))
  /\ UNCHANGED enc

(* The hardware path feeds the encoder only when it has a frame to add.    *)
Feed ==
  /\ vPc = "feed" /\ HasEncoder
  /\ vPc' = IF escStarted THEN "dequeueOut" ELSE "test"
  /\ IF soft
       THEN /\ \/ FeedNothing(mInputBufferQueue)
               \/ FeedFrame(mInputBufferQueue)
               \/ FeedFails(mInputBufferQueue)
            /\ UNCHANGED mFramesReceived
       ELSE IF mFramesReceived = <<>>
         THEN UNCHANGED <<queues, mAvail, enc, errors, history>>
         ELSE LET q == Append(mInputBufferQueue, Head(mFramesReceived)) IN
              /\ mFramesReceived' = Tail(mFramesReceived)
              /\ FeedNothing(q) \/ FeedFrame(q) \/ FeedFails(q)
  /\ UNCHANGED <<soft, device, callback, manager, escStarted, vFrame, mBufferRelease, escOut,
                 encOut, codec, codecFrame, packer, caller>>

DequeueOutput ==
  /\ vPc = "dequeueOut" /\ HasEncoder
  /\ vPc' = "test"
  /\ IF escStarted /\ encOut # <<>>
       THEN encOut' = Tail(encOut) /\ escOut' = Append(escOut, Head(encOut))
       ELSE UNCHANGED <<encOut, escOut>>
  /\ UNCHANGED <<soft, device, callback, manager, escStarted, queues, vFrame, mAvail,
                 mBufferRelease, enc, codec, codecFrame, errors, packer, caller, history>>

(* The end of the loop; the signal is lost unless stop waits already.      *)
VideoTest ==
  /\ vPc = "test"
  /\ IF escStarted
       THEN vPc' = "dequeueIn" /\ UNCHANGED cPc
       ELSE vPc' = "out" /\ cPc' = IF cPc = "waiting" THEN "drain" ELSE cPc
  /\ UNCHANGED <<soft, device, callback, manager, escStarted, queues, vFrame, mAvail,
                 mBufferRelease, escOut, encoder, packer, written, history>>

VideoThread == DequeueInput \/ ReadBuffer \/ KeepFrame \/ Feed \/ DequeueOutput \/ VideoTest

----------------------------------------------------------------------------
(* MediaCodec: encodes a frame, then returns its buffer *)

(* Up to line 1092 of signalBufferReturned with the hardware encoder.      *)
Encode ==
  /\ codec = "idle" /\ enc # <<>>
  /\ enc' = Tail(enc)
  /\ encOut' = Append(encOut, Head(enc).n)
  /\ IF soft
       THEN UNCHANGED <<codec, codecFrame, mBufferRelease>>
       ELSE /\ codec' = "return"
            /\ codecFrame' = Head(enc)
            /\ mBufferRelease' = Head(enc).b
  /\ UNCHANGED <<soft, device, callback, manager, escStarted, queues, video, escOut, errors,
                 packer, caller, history>>

ReturnBuffer ==
  /\ codec = "return" /\ ManagerFree
  /\ FreeBuffer
  /\ codec' = "idle" /\ codecFrame' = NoFrame
  /\ UNCHANGED <<soft, devRunning, callback, manager, escStarted, queues, video, mBufferRelease,
                 escOut, enc, encOut, errors, packer, caller, history>>

Codec == Encode \/ ReturnBuffer

----------------------------------------------------------------------------
(* TSPacker::threadFunc *)

(* The test of mStarted, and the read, for which it waits while the        *)
(* convertor is stopped: one unit may be read after that.                  *)
PackerTest ==
  /\ pPc \in {"csd", "loop"} /\ tspStarted
  /\ pPc' = IF pPc = "csd" THEN "readCsd" ELSE "read"
  /\ UNCHANGED <<soft, device, callback, manager, escStarted, queues, video, mBufferRelease,
                 escOut, encoder, tspStarted, tspOut, caller, history>>

PackerFindsNothing ==
  /\ pPc \in {"readCsd", "read"} /\ ConvertorFree /\ escOut = <<>>
  /\ pPc' = IF pPc = "readCsd" THEN "csd" ELSE "loop"
  /\ UNCHANGED <<soft, device, callback, manager, escStarted, queues, video, mBufferRelease,
                 escOut, encoder, tspStarted, tspOut, caller, history>>

(* The first unit is the codec's configuration, which is kept aside.       *)
PackerReadCsd ==
  /\ pPc = "readCsd" /\ ConvertorFree /\ escOut # <<>>
  /\ escOut' = Tail(escOut)
  /\ pPc' = "loop"
  /\ UNCHANGED <<soft, device, callback, manager, escStarted, queues, video, mBufferRelease,
                 encoder, tspStarted, tspOut, caller, history>>

PackerRead ==
  /\ pPc = "read" /\ ConvertorFree /\ escOut # <<>>
  /\ escOut' = Tail(escOut)
  /\ tspOut' = Append(tspOut, Head(escOut))
  /\ pPc' = "loop"
  /\ UNCHANGED <<soft, device, callback, manager, escStarted, queues, video, mBufferRelease,
                 encoder, tspStarted, caller, history>>

(* Also when the thread is faster than the line of start that sets mStarted. *)
PackerExit ==
  /\ pPc \in {"csd", "loop"} /\ ~tspStarted
  /\ pPc' = "out"
  /\ UNCHANGED <<soft, device, callback, manager, escStarted, queues, video, mBufferRelease,
                 escOut, encoder, tspStarted, tspOut, caller, history>>

Packer == PackerTest \/ PackerFindsNothing \/ PackerReadCsd \/ PackerRead \/ PackerExit

----------------------------------------------------------------------------
(* startScreenRecord up to its loop: TSPacker::start and what it calls *)

(* The encoder is started before the manager; start of the manager holds   *)
(* mLock and starts the device first.                                      *)
StartDevice ==
  /\ cPc = "init"
  /\ encOut' = <<Csd>>
  /\ devRunning' = TRUE
  /\ cPc' = "mgrStart"
  /\ UNCHANGED <<soft, devFree, callback, manager, escStarted, queues, video, mBufferRelease,
                 escOut, enc, codec, codecFrame, errors, packer, written, history>>

(* There is no device: the error of ScreenManager::start is not looked at. *)
StartFails ==
  /\ cPc = "init"
  /\ encOut' = <<Csd>>
  /\ cPc' = "escStart"
  /\ UNCHANGED <<soft, device, callback, manager, escStarted, queues, video, mBufferRelease,
                 escOut, enc, codec, codecFrame, errors, packer, written, history>>

StartManager ==
  /\ cPc = "mgrStart"
  /\ mCanvasClientExist' = ~soft
  /\ mgrStarted' = TRUE
  /\ cPc' = "escStart"
  /\ UNCHANGED <<soft, device, callback, mgrQueue, taken, escStarted, queues, video,
                 mBufferRelease, escOut, encoder, packer, written, history>>

StartConvertor ==
  /\ cPc = "escStart"
  /\ escStarted' = TRUE
  /\ vPc' = "dequeueIn"
  /\ cPc' = "create"
  /\ UNCHANGED <<soft, device, callback, manager, queues, vFrame, mAvail, mBufferRelease,
                 escOut, encoder, packer, written, history>>

(* The packer's thread is created before mStarted is set.                  *)
CreatePacker ==
  /\ cPc = "create"
  /\ pPc' = "csd"
  /\ cPc' = "tspStart"
  /\ UNCHANGED <<soft, device, callback, manager, escStarted, queues, video, mBufferRelease,
                 escOut, encoder, tspStarted, tspOut, written, history>>

StartPacker ==
  /\ cPc = "tspStart"
  /\ tspStarted' = TRUE
  /\ cPc' = "reading"
  /\ UNCHANGED <<soft, device, callback, manager, escStarted, queues, video, mBufferRelease,
                 escOut, encoder, pPc, tspOut, written, history>>

(* The loop of startScreenRecord.                                          *)
WritePackets ==
  /\ cPc = "reading" /\ tspOut # <<>>
  /\ tspOut' = Tail(tspOut)
  /\ written' = Append(written, Head(tspOut))
  /\ cPc' = IF Len(written') > Limit THEN "tspStop" ELSE "reading"
  /\ UNCHANGED <<soft, device, callback, manager, escStarted, queues, video, mBufferRelease,
                 escOut, encoder, tspStarted, pPc, history>>

----------------------------------------------------------------------------
(* TSPacker::stop and ESConvertor::stop *)

StopPacker ==
  /\ cPc = "tspStop"
  /\ tspStarted' = FALSE
  /\ cPc' = "escStop"
  /\ UNCHANGED <<soft, device, callback, manager, escStarted, queues, video, mBufferRelease,
                 escOut, encoder, pPc, tspOut, written, history>>

StopConvertor ==
  /\ cPc = "escStop"
  /\ escStarted' = FALSE
  /\ cPc' = "wait"
  /\ UNCHANGED <<soft, device, callback, manager, queues, video, mBufferRelease, escOut, encoder,
                 packer, written, history>>

(* mThreadOutCondition.waitRelative, with a mutex that it does not hold.   *)
WaitForThread ==
  /\ cPc = "wait"
  /\ cPc' = "waiting"
  /\ UNCHANGED <<soft, device, callback, manager, escStarted, queues, video, mBufferRelease,
                 escOut, encoder, packer, written, history>>

(* MUTANT: the wait has no time limit. *)
WaitForever == FALSE /\ UNCHANGED vars

(* The wait ends after 1000 s, or early for no reason: it is not repeated, *)
(* and stop goes on wherever the thread is.                                *)
WaitTimeout ==
  /\ cPc = "waiting"
  /\ cPc' = "drain"
  /\ UNCHANGED <<soft, device, callback, manager, escStarted, queues, video, mBufferRelease,
                 escOut, encoder, packer, written, history>>

(* The hardware path gives back what was not encoded, frame by frame,      *)
(* through the same mBufferRelease that the codec's thread uses.           *)
DrainFrame ==
  /\ cPc = "drain" /\ ~soft
  /\ mFramesReceived # <<>> \/ mInputBufferQueue # <<>>
  /\ IF mFramesReceived # <<>>
       THEN /\ mBufferRelease' = Head(mFramesReceived).b
            /\ mFramesReceived' = Tail(mFramesReceived)
            /\ UNCHANGED mInputBufferQueue
       ELSE /\ mBufferRelease' = Head(mInputBufferQueue).b
            /\ mInputBufferQueue' = Tail(mInputBufferQueue)
            /\ UNCHANGED mFramesReceived
  /\ cPc' = "drained"
  /\ UNCHANGED <<soft, device, callback, manager, escStarted, video, escOut, encoder, packer,
                 written, history>>

DrainFree ==
  /\ cPc = "drained"
  /\ FreeBuffer
  /\ cPc' = "drain"
  /\ UNCHANGED <<soft, devRunning, callback, manager, escStarted, queues, video, mBufferRelease,
                 escOut, encoder, packer, written, history>>

DrainEnd ==
  /\ cPc = "drain"
  /\ soft \/ (mFramesReceived = <<>> /\ mInputBufferQueue = <<>>)
  /\ mInputBufferQueue' = <<>>
  /\ cPc' = "mgrStop"
  /\ UNCHANGED <<soft, device, callback, manager, escStarted, mFramesReceived, video,
                 mBufferRelease, escOut, encoder, packer, written, history>>

(* ScreenManager::stop for its last client: reset takes back mStarted,     *)
StopManager ==
  /\ cPc = "mgrStop"
  /\ mgrStarted' = FALSE
  /\ cPc' = "mgrReset"
  /\ UNCHANGED <<soft, device, callback, mCanvasClientExist, mgrQueue, taken, escStarted, queues,
                 video, mBufferRelease, escOut, encoder, packer, written, history>>

(* then stops and closes the device, and drops the frames left.            *)
ResetManager ==
  /\ cPc = "mgrReset"
  /\ devRunning' = FALSE
  /\ mgrQueue' = <<>>
  /\ mCanvasClientExist' = FALSE
  /\ cPc' = "encStop"
  /\ UNCHANGED <<soft, devFree, callback, mgrStarted, taken, escStarted, queues, video,
                 mBufferRelease, escOut, encoder, packer, written, history>>

(* The encoder waits for its own thread; the buffers it returns now are    *)
(* not freed, for the manager is stopped.                                  *)
StopEncoder ==
  /\ cPc = "encStop" /\ codec = "idle"
  /\ enc' = <<>> /\ encOut' = <<>>
  /\ mBufferRelease' = IF soft \/ enc = <<>> THEN mBufferRelease ELSE enc[Len(enc)].b
  /\ cPc' = "uninit"
  /\ UNCHANGED <<soft, device, callback, manager, escStarted, queues, video, escOut, codec,
                 codecFrame, errors, packer, written, history>>

Uninit ==
  /\ cPc = "uninit"
  /\ cPc' = "done"
  /\ UNCHANGED <<soft, device, callback, manager, escStarted, queues, video, mBufferRelease,
                 escOut, encoder, packer, written, history>>

----------------------------------------------------------------------------

Caller ==
  \/ StartDevice \/ StartFails \/ StartManager \/ StartConvertor \/ CreatePacker \/ StartPacker
  \/ WritePackets
  \/ StopPacker \/ StopConvertor \/ WaitForThread \/ WaitTimeout
  \/ DrainFrame \/ DrainFree \/ DrainEnd
  \/ StopManager \/ ResetManager \/ StopEncoder \/ Uninit

Callback == CallbackTest \/ CallbackError \/ CallbackDeliver

Next ==
  \/ \E b \in Buffers : Capture(b)
  \/ Callback \/ VideoThread \/ Codec \/ Packer \/ Caller

Spec == Init /\ [][Next]_vars

(* Threads run, the codec encodes what it is given, and the 1000 s of the  *)
(* wait pass.  Nothing is assumed of the device.                           *)
Fairness ==
  /\ WF_vars(Callback) /\ WF_vars(VideoThread) /\ WF_vars(Codec) /\ WF_vars(Packer)
  /\ WF_vars(Caller)

FairSpec == Spec /\ Fairness

----------------------------------------------------------------------------
(* Type correctness: only the codec's configuration has number 0, and      *)
(* every queue holds frames.                                               *)
ThreadsTyped ==
  /\ soft \in BOOLEAN /\ devRunning \in BOOLEAN
  /\ mgrStarted \in BOOLEAN /\ mCanvasClientExist \in BOOLEAN
  /\ escStarted \in BOOLEAN /\ tspStarted \in BOOLEAN
  /\ cbPc \in {"idle", "called", "wanted"} /\ mError \in BOOLEAN
  /\ vPc \in {"none", "dequeueIn", "read", "got", "feed", "dequeueOut", "test", "out"}
  /\ codec \in {"idle", "return"}
  /\ pPc \in {"none", "csd", "readCsd", "loop", "read", "out"}
  /\ cPc \in Starting \union {"reading"} \union Stopping \union {"done"}

BuffersTyped ==
  /\ devFree \in SUBSET Buffers /\ lost \in SUBSET Buffers
  /\ cbBuf \in Buffers \union {NoBuffer} /\ mBufferRelease \in Buffers \union {NoBuffer}

FramesTyped ==
  /\ mgrQueue \in Seq(Frame) /\ taken \in 0..MaxFrames
  /\ vFrame \in Frame \union {NoFrame} /\ codecFrame \in Frame \union {NoFrame}
  /\ mFramesReceived \in Seq(Frame) /\ mInputBufferQueue \in Seq(Frame)
  /\ enc \in Seq(Frame)
  /\ failed \in SUBSET (1..MaxFrames)

UnitsTyped ==
  /\ encOut \in Seq(EsUnit) /\ escOut \in Seq(EsUnit) /\ tspOut \in Seq(EsUnit)
  /\ written \in Seq(EsUnit)
  /\ mAvail \in 0..Slots /\ errors \in 0..MaxErrors

TypeOK == ThreadsTyped /\ BuffersTyped /\ FramesTyped /\ UnitsTyped

(* How often buffer b is in a queue of frames.                             *)
Count(q, b) == Cardinality({i \in 1..Len(q) : q[i].b = b})
One(held) == IF held THEN 1 ELSE 0

(* In how many places buffer b is.                                         *)
Places(b) ==
  One(b \in devFree) + One(cbPc # "idle" /\ cbBuf = b) + Count(mgrQueue, b)
    + One(vPc = "got" /\ vFrame.b = b) + Count(mFramesReceived, b) + Count(mInputBufferQueue, b)
    + Count(enc, b) + One(codec = "return" /\ codecFrame.b = b) + One(b \in lost)

(* Until stop begins to give buffers back, a buffer of the device is in    *)
(* one place: it is not captured into while it is queued or encoded, and   *)
(* it is not queued twice, although the device's, the encoder's and the    *)
(* convertor's threads pass it on without a common lock and the buffer to  *)
(* free is named by the shared mBufferRelease (ScreenManager::dataCallBack *)
(* and freeBuffer, ESConvertor::signalBufferReturned).                     *)
BufferInOnePlace == cPc \notin TornDown => \A b \in Buffers : Places(b) = 1

(* The frames in the file are in the order they were captured in, none     *)
(* twice, and between two of them none that the manager took is missing    *)
(* unless the encoder refused it (the five queues from                     *)
(* mCanvasFramesReceived to TSPacker::mOutputBufferQueue).                 *)
RecordingHasNoGap ==
  \A i \in 1..Len(written) :
    LET before == IF i = 1 THEN 0 ELSE written[i - 1] IN
    /\ before < written[i]
    /\ before + 1 .. written[i] - 1 \subseteq failed

(* The same as a contract: to who waits for the file, the threads, queues  *)
(* and buffers between the device and the file are a FrameStream.          *)
Stream == INSTANCE FrameStream WITH refused <- failed, file <- written

KeepsStream == Stream!Spec

(* ESConvertor::stop comes to its end, whether the thread's signal found   *)
(* it waiting or came before it waited.                                    *)
StopEnds == cPc = "tspStop" ~> cPc = "done"

(* While a recording goes on, a buffer the device has filled comes back to *)
(* it, unless the frame was not wanted, or the encoder refused it, or it   *)
(* waits in mInputBufferQueue since the encoder was busy: the code feeds   *)
(* that queue only when a frame comes, and then one frame for each that    *)
(* comes, so that it never gets shorter.                                   *)
BufferComesBack ==
  \A b \in Buffers :
    (escStarted /\ b \notin devFree) ~>
      (\/ b \in devFree \union lost \/ ~escStarted
       \/ \E i \in 1..Len(mInputBufferQueue) : mInputBufferQueue[i].b = b)
=============================================================================
