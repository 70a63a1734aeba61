------------------------- MODULE ScreenRecordProofs -------------------------
(***************************************************************************)
(* Proofs about ScreenRecord, for any device, any number of buffers and    *)
(* input buffers, any limit and any bound on frames and errors.            *)
(***************************************************************************)
EXTENDS ScreenRecord, FunctionTheorems, SequenceTheorems, FiniteSetTheorems, TLAPS

(* What the places of a frame hold beyond its type: the convertor's thread *)
(* and the codec have a frame where their code uses one, there is room for *)
(* the frame of the callback, and what freeBuffer gets is a buffer.        *)
HolderInv ==
  /\ vPc = "got" => vFrame \in Frame
  /\ cbPc # "idle" => cbBuf \in Buffers /\ taken < MaxFrames
  /\ codec = "return" => ~soft /\ codecFrame \in Frame
  /\ mCanvasClientExist => ~soft
  /\ cPc = "drained" => ~soft
  /\ codec = "return" \/ cPc = "drained" => mBufferRelease \in Buffers

(* The convertor's thread runs from start on, and does not end before stop *)
(* tells it to.                                                            *)
ThreadInv ==
  /\ vPc = "none" <=> cPc \in {"init", "mgrStart", "escStart"}
  /\ escStarted <=> cPc \in {"create", "tspStart", "reading", "tspStop", "escStop"}
  /\ escStarted => vPc # "out"

(* Until stop takes the recording apart: only a manager that is started    *)
(* hands out frames, and the buffer to free is that of the frame that the  *)
(* codec returns.                                                          *)
RunningInv ==
  cPc \notin TornDown =>
    /\ cbPc = "wanted" => mgrStarted
    /\ mgrStarted => cPc \notin {"init", "mgrStart"} /\ mCanvasClientExist = ~soft
    /\ vPc = "got" \/ codec = "return" => mgrStarted
    /\ mgrQueue # <<>> \/ mFramesReceived # <<>> \/ mInputBufferQueue # <<>> \/ enc # <<>>
         => mgrStarted
    /\ codec = "return" => mBufferRelease = codecFrame.b

IInv == TypeOK /\ HolderInv /\ ThreadInv /\ RunningInv /\ BufferInOnePlace

----------------------------------------------------------------------------
(* Sequences and frames.                                                   *)

LEMMA HeadTail ==
  ASSUME NEW S, NEW q \in Seq(S), q # <<>>
  PROVE  Head(q) \in S /\ Tail(q) \in Seq(S)
OBVIOUS

LEMMA LastOf ==
  ASSUME NEW S, NEW q \in Seq(S), q # <<>>
  PROVE  q[Len(q)] \in S
OBVIOUS

LEMMA FrameFields ==
  ASSUME NEW f \in Frame, RecordAssumption
  PROVE  /\ f.n \in 1..MaxFrames
         /\ f.b \in Buffers \union {NoBuffer}
         /\ f.b \in Buffers <=> ~soft
BY DEF Frame, RecordAssumption

(* The encoder stays what it is, and so does what travels.                 *)
LEMMA SoftStays == [Next]_vars => soft' = soft /\ Frame' = Frame
<1> SUFFICES ASSUME [Next]_vars PROVE soft' = soft /\ Frame' = Frame
  OBVIOUS
<1>1. soft' = soft
  BY DEF Next, Callback, VideoThread, Codec, Packer, Caller, vars, Capture, CallbackTest,
         CallbackError, Unwanted, CallbackDeliver, DequeueInput, ReadBuffer, KeepFrame, Feed,
         DequeueOutput, VideoTest, Encode, ReturnBuffer, PackerTest, PackerFindsNothing,
         PackerReadCsd, PackerRead, PackerExit, StartDevice, StartFails, StartManager,
         StartConvertor, CreatePacker, StartPacker, WritePackets, StopPacker, StopConvertor,
         WaitForThread, WaitTimeout, DrainFrame, DrainFree, DrainEnd, StopManager, ResetManager,
         StopEncoder, Uninit
<1>2. Frame' = Frame
  BY <1>1 DEF Frame
<1> QED
  BY <1>1, <1>2

----------------------------------------------------------------------------
(* Type correctness, part by part.                                         *)

LEMMA ThreadsTypedStep == TypeOK /\ HolderInv /\ [Next]_vars => ThreadsTyped'
<1> SUFFICES ASSUME ThreadsTyped, [Next]_vars PROVE ThreadsTyped'
  BY DEF TypeOK
<1> USE DEF ThreadsTyped, Starting, Stopping, device, callback, manager, queues, video, encoder,
            packer, caller, history
<1>1. ASSUME NEW b \in Buffers, Capture(b) PROVE ThreadsTyped'
  BY <1>1 DEF Capture
<1>2. CASE Callback
  <2>1. CASE CallbackTest
    BY <2>1 DEF CallbackTest, Unwanted
  <2>2. CASE CallbackError
    <3>1. cbPc' = "idle"
      BY <2>2 DEF CallbackError, Unwanted
    <3>2. UNCHANGED <<soft, devRunning, mgrStarted, mCanvasClientExist, escStarted, tspStarted,
                      vPc, codec, pPc, cPc>>
      BY <2>2 DEF CallbackError
    <3>3. mError' \in BOOLEAN
      BY <2>2, Zenon DEF CallbackError
    <3> QED
      BY <3>1, <3>2, <3>3
  <2>3. CASE CallbackDeliver
    BY <2>3 DEF CallbackDeliver
  <2> QED
    BY <1>2, <2>1, <2>2, <2>3 DEF Callback
<1>3. CASE DequeueInput
  BY <1>3 DEF DequeueInput
<1>4. CASE ReadBuffer \/ KeepFrame
  BY <1>4 DEF ReadBuffer, KeepFrame
<1>5. CASE Feed
  BY <1>5 DEF Feed
<1>6. CASE DequeueOutput
  BY <1>6 DEF DequeueOutput
<1>7. CASE VideoTest
  BY <1>7 DEF VideoTest
<1>8. CASE Codec
  BY <1>8 DEF Codec, Encode, ReturnBuffer
<1>9. CASE Packer
  BY <1>9 DEF Packer, PackerTest, PackerFindsNothing, PackerReadCsd, PackerRead, PackerExit
<1>10. CASE StartDevice
  BY <1>10 DEF StartDevice
<1>11. CASE StartFails
  BY <1>11 DEF StartFails
<1>12. CASE StartManager
  BY <1>12 DEF StartManager
<1>13. CASE StartConvertor
  BY <1>13 DEF StartConvertor
<1>14. CASE CreatePacker
  BY <1>14 DEF CreatePacker
<1>15. CASE StartPacker
  BY <1>15 DEF StartPacker
<1>16. CASE WritePackets
  BY <1>16 DEF WritePackets
<1>17. CASE StopPacker
  <2>1. tspStarted' = FALSE /\ cPc' = "escStop"
    BY <1>17 DEF StopPacker
  <2>2. UNCHANGED <<soft, devRunning, mgrStarted, mCanvasClientExist, escStarted, cbPc, mError,
                    vPc, codec, pPc>>
    BY <1>17 DEF StopPacker
  <2>3. tspStarted' \in BOOLEAN
    BY <2>1, Zenon
  <2> QED
    BY <2>1, <2>2, <2>3
<1>18. CASE StopConvertor
  <2>1. escStarted' = FALSE /\ cPc' = "wait"
    BY <1>18 DEF StopConvertor
  <2>2. UNCHANGED <<soft, devRunning, mgrStarted, mCanvasClientExist, tspStarted, cbPc, mError,
                    vPc, codec, pPc>>
    BY <1>18 DEF StopConvertor
  <2>3. escStarted' \in BOOLEAN
    BY <2>1, Zenon
  <2> QED
    BY <2>1, <2>2, <2>3
<1>19. CASE WaitForThread \/ WaitTimeout
  BY <1>19 DEF WaitForThread, WaitTimeout
<1>20. CASE DrainFrame \/ DrainFree \/ DrainEnd
  BY <1>20 DEF DrainFrame, DrainFree, DrainEnd
<1>21. CASE StopManager
  <2>1. mgrStarted' = FALSE /\ cPc' = "mgrReset"
    BY <1>21 DEF StopManager
  <2>2. UNCHANGED <<soft, devRunning, mCanvasClientExist, escStarted, tspStarted, cbPc, mError,
                    vPc, codec, pPc>>
    BY <1>21 DEF StopManager
  <2>3. mgrStarted' \in BOOLEAN
    BY <2>1, Zenon
  <2> QED
    BY <2>1, <2>2, <2>3
<1>22. CASE ResetManager
  <2>1. devRunning' = FALSE /\ mCanvasClientExist' = FALSE /\ cPc' = "encStop"
    BY <1>22 DEF ResetManager
  <2>2. UNCHANGED <<soft, mgrStarted, escStarted, tspStarted, cbPc, mError, vPc, codec, pPc>>
    BY <1>22 DEF ResetManager
  <2>3. devRunning' \in BOOLEAN /\ mCanvasClientExist' \in BOOLEAN
    BY <2>1, Zenon
  <2> QED
    BY <2>1, <2>2, <2>3
<1>23. CASE StopEncoder \/ Uninit
  BY <1>23 DEF StopEncoder, Uninit
<1>24. CASE UNCHANGED vars
  BY <1>24 DEF vars
<1> QED
  BY <1>1, <1>2, <1>3, <1>4, <1>5, <1>6, <1>7, <1>8, <1>9, <1>10, <1>11, <1>12, <1>13, <1>14,
     <1>15, <1>16, <1>17, <1>18, <1>19, <1>20, <1>21, <1>22, <1>23, <1>24
     DEF Next, VideoThread, Caller

(* What one call of feedEncoderInputBuffers can do to its queue q.         *)
LEMMA FeedTyped ==
  ASSUME TypeOK, RecordAssumption, NEW q \in Seq(Frame),
         FeedNothing(q) \/ FeedFrame(q) \/ FeedFails(q)
  PROVE  /\ mInputBufferQueue' \in Seq(Frame) /\ enc' \in Seq(Frame)
         /\ failed' \in SUBSET (1..MaxFrames) /\ lost' \in SUBSET Buffers
         /\ mAvail' \in 0..Slots /\ errors' \in 0..MaxErrors
<1> USE DEF TypeOK, history
<1>1. CASE FeedNothing(q)
  <2>1. UNCHANGED <<mAvail, enc, errors, lost, failed>> /\ mInputBufferQueue' = q
    BY <1>1 DEF FeedNothing
  <2> QED
    BY <2>1 DEF BuffersTyped, FramesTyped, UnitsTyped
<1>2. ASSUME q # <<>> PROVE /\ Head(q) \in Frame /\ Tail(q) \in Seq(Frame)
                            /\ Head(q).n \in 1..MaxFrames
                            /\ Head(q).b \in Buffers \union {NoBuffer}
  BY <1>2, HeadTail, FrameFields
<1>3. CASE FeedFrame(q)
  <2>1. mInputBufferQueue' \in Seq(Frame)
    BY <1>2, <1>3 DEF FeedFrame
  <2>2. enc' \in Seq(Frame)
    BY <1>2, <1>3 DEF FeedFrame, FramesTyped
  <2>3. mAvail' \in 0..Slots /\ errors' \in 0..MaxErrors
    BY <1>3, RecordAssumption DEF FeedFrame, UnitsTyped, RecordAssumption
  <2> QED
    BY <1>3, <2>1, <2>2, <2>3 DEF FeedFrame, BuffersTyped, FramesTyped
<1>4. CASE FeedFails(q)
  <2>1. mInputBufferQueue' \in Seq(Frame) /\ enc' = enc
    BY <1>2, <1>4 DEF FeedFails
  <2>2. lost' \in SUBSET Buffers
    BY <1>2, <1>4 DEF FeedFails, Lose, BuffersTyped
  <2>3. failed' \in SUBSET (1..MaxFrames)
    BY <1>2, <1>4 DEF FeedFails, FramesTyped
  <2>4. mAvail' \in 0..Slots /\ errors' \in 0..MaxErrors
    BY <1>4, RecordAssumption DEF FeedFails, UnitsTyped, RecordAssumption
  <2> QED
    BY <2>1, <2>2, <2>3, <2>4 DEF FramesTyped
<1> QED
  BY <1>1, <1>3, <1>4

(* The queue it is called with, on the hardware path.                      *)
LEMMA FeedQueue ==
  ASSUME TypeOK, mFramesReceived # <<>>
  PROVE  /\ Append(mInputBufferQueue, Head(mFramesReceived)) \in Seq(Frame)
         /\ Tail(mFramesReceived) \in Seq(Frame)
BY HeadTail DEF TypeOK, FramesTyped

LEMMA BuffersTypedStep == TypeOK /\ HolderInv /\ [Next]_vars => BuffersTyped'
<1> SUFFICES ASSUME TypeOK, HolderInv, [Next]_vars PROVE BuffersTyped'
  OBVIOUS
<1>0. RecordAssumption
  BY RecordAssumption
<1> USE DEF TypeOK, BuffersTyped, device, callback, manager, queues, video, encoder, packer,
            caller, history
<1>1. ASSUME NEW b \in Buffers, Capture(b) PROVE BuffersTyped'
  BY <1>1 DEF Capture
<1>2. CASE CallbackTest \/ CallbackError
  BY <1>2 DEF CallbackTest, CallbackError, Unwanted, HolderInv
<1>3. CASE CallbackDeliver
  BY <1>3 DEF CallbackDeliver, HolderInv
<1>4. CASE KeepFrame
  <2>1. vFrame.b \in Buffers \union {NoBuffer}
    BY <1>0, <1>4, FrameFields DEF KeepFrame, HolderInv
  <2> QED
    BY <1>4, <2>1 DEF KeepFrame, Lose
<1>5. CASE Feed
  <2>1. lost' \in SUBSET Buffers
    BY <1>0, <1>5, FeedTyped, FeedQueue DEF Feed, FramesTyped
  <2> QED
    BY <1>5, <2>1 DEF Feed
<1>6. CASE Encode
  <2>1. Head(enc).b \in Buffers \union {NoBuffer}
    BY <1>0, <1>6, HeadTail, FrameFields DEF Encode, FramesTyped
  <2> QED
    BY <1>6, <2>1 DEF Encode
<1>7. CASE ReturnBuffer
  BY <1>7 DEF ReturnBuffer, FreeBuffer, HolderInv
<1>8. CASE DrainFrame
  <2>1. /\ mFramesReceived # <<>> => Head(mFramesReceived).b \in Buffers \union {NoBuffer}
        /\ mInputBufferQueue # <<>> => Head(mInputBufferQueue).b \in Buffers \union {NoBuffer}
    BY <1>0, HeadTail, FrameFields DEF FramesTyped
  <2> QED
    BY <1>8, <2>1 DEF DrainFrame
<1>9. CASE DrainFree
  BY <1>9 DEF DrainFree, FreeBuffer, HolderInv
<1>10. CASE StopEncoder
  <2>1. enc # <<>> => enc[Len(enc)].b \in Buffers \union {NoBuffer}
    BY <1>0, LastOf, FrameFields DEF FramesTyped
  <2> QED
    BY <1>10, <2>1 DEF StopEncoder
<1>11. CASE DequeueInput \/ ReadBuffer \/ DequeueOutput \/ VideoTest \/ Packer
  BY <1>11 DEF DequeueInput, ReadBuffer, DequeueOutput, VideoTest, Packer, PackerTest,
               PackerFindsNothing, PackerReadCsd, PackerRead, PackerExit
<1>12. CASE \/ StartDevice \/ StartFails \/ StartManager \/ StartConvertor \/ CreatePacker
            \/ StartPacker \/ WritePackets
  BY <1>12 DEF StartDevice, StartFails, StartManager, StartConvertor, CreatePacker, StartPacker,
               WritePackets
<1>13. CASE \/ StopPacker \/ StopConvertor \/ WaitForThread \/ WaitTimeout \/ DrainEnd
            \/ StopManager \/ ResetManager \/ Uninit
  BY <1>13 DEF StopPacker, StopConvertor, WaitForThread, WaitTimeout, DrainEnd, StopManager,
               ResetManager, Uninit
<1>14. CASE UNCHANGED vars
  BY <1>14 DEF vars
<1> QED
  BY <1>1, <1>2, <1>3, <1>4, <1>5, <1>6, <1>7, <1>8, <1>9, <1>10, <1>11, <1>12, <1>13, <1>14
     DEF Next, Callback, VideoThread, Codec, Caller

LEMMA FramesTypedStep == TypeOK /\ HolderInv /\ [Next]_vars => FramesTyped'
<1> SUFFICES ASSUME TypeOK, HolderInv, [Next]_vars PROVE FramesTyped'
  OBVIOUS
<1>0. RecordAssumption
  BY RecordAssumption
<1>s. Frame' = Frame
  BY SoftStays
<1> DEFINE frames == <<mgrQueue, taken, vFrame, codecFrame, mFramesReceived, mInputBufferQueue,
                       enc, failed>>
<1>u. ASSUME UNCHANGED frames PROVE FramesTyped'
  BY <1>s, <1>u DEF TypeOK, FramesTyped
<1> USE DEF device, callback, manager, queues, video, encoder, packer, caller, history
<1>1. ASSUME NEW b \in Buffers, Capture(b) PROVE FramesTyped'
  BY <1>1, <1>u DEF Capture
<1>2. CASE CallbackTest \/ CallbackError
  BY <1>2, <1>u DEF CallbackTest, CallbackError, Unwanted
<1>3. CASE CallbackDeliver
  <2>1. taken < MaxFrames /\ cbBuf \in Buffers /\ taken + 1 \in 1..MaxFrames
    BY <1>0, <1>3 DEF CallbackDeliver, HolderInv, TypeOK, FramesTyped, RecordAssumption
  <2>2. ASSUME mCanvasClientExist \/ soft
        PROVE  [n |-> taken + 1, b |-> IF mCanvasClientExist THEN cbBuf ELSE NoBuffer] \in Frame
    BY <2>1, <2>2 DEF HolderInv, Frame
  <2>3. mgrQueue' \in Seq(Frame)
    BY <1>3, <2>2 DEF CallbackDeliver, TypeOK, FramesTyped
  <2>4. taken' \in 0..MaxFrames
    BY <1>3, <2>1 DEF CallbackDeliver, TypeOK, FramesTyped
  <2> QED
    BY <1>3, <1>s, <2>3, <2>4 DEF CallbackDeliver, TypeOK, FramesTyped
<1>4. CASE ReadBuffer
  <2>1. mgrQueue # <<>> => Head(mgrQueue) \in Frame /\ Tail(mgrQueue) \in Seq(Frame)
    BY HeadTail DEF TypeOK, FramesTyped
  <2> QED
    BY <1>4, <1>s, <2>1 DEF ReadBuffer, TypeOK, FramesTyped
<1>5. CASE KeepFrame
  <2>1. vFrame \in Frame
    BY <1>5 DEF KeepFrame, HolderInv
  <2>2. mFramesReceived' \in Seq(Frame)
    <3>1. mFramesReceived' = mFramesReceived \/ mFramesReceived' = Append(mFramesReceived, vFrame)
      BY <1>5 DEF KeepFrame
    <3>2. mFramesReceived \in Seq(Frame)
      BY DEF TypeOK, FramesTyped
    <3> QED
      BY <1>s, <2>1, <3>1, <3>2
  <2>3. mInputBufferQueue' \in Seq(Frame)
    <3>1. \/ mInputBufferQueue' = mInputBufferQueue
          \/ mInputBufferQueue' = Append(mInputBufferQueue, vFrame)
      BY <1>5 DEF KeepFrame
    <3>2. mInputBufferQueue \in Seq(Frame)
      BY DEF TypeOK, FramesTyped
    <3> QED
      BY <1>s, <2>1, <3>1, <3>2
  <2> QED
    BY <1>5, <1>s, <2>2, <2>3 DEF KeepFrame, TypeOK, FramesTyped
<1>6. CASE Feed
  <2>1. /\ mInputBufferQueue' \in Seq(Frame) /\ enc' \in Seq(Frame)
        /\ failed' \in SUBSET (1..MaxFrames)
    BY <1>0, <1>6, FeedTyped, FeedQueue DEF Feed, TypeOK, FramesTyped
  <2>2. mFramesReceived' \in Seq(Frame)
    BY <1>6, FeedQueue DEF Feed, TypeOK, FramesTyped
  <2> QED
    BY <1>6, <1>s, <2>1, <2>2 DEF Feed, TypeOK, FramesTyped
<1>7. CASE Encode
  <2>1. Head(enc) \in Frame /\ Tail(enc) \in Seq(Frame)
    BY <1>7, HeadTail DEF Encode, TypeOK, FramesTyped
  <2> QED
    BY <1>7, <1>s, <2>1 DEF Encode, TypeOK, FramesTyped
<1>8. CASE ReturnBuffer
  BY <1>8, <1>s DEF ReturnBuffer, TypeOK, FramesTyped
<1>9. CASE DrainFrame
  <2>1. /\ mFramesReceived # <<>> => Tail(mFramesReceived) \in Seq(Frame)
        /\ mInputBufferQueue # <<>> => Tail(mInputBufferQueue) \in Seq(Frame)
    BY HeadTail DEF TypeOK, FramesTyped
  <2> QED
    BY <1>9, <1>s, <2>1 DEF DrainFrame, TypeOK, FramesTyped
<1>10. CASE DrainEnd
  BY <1>10, <1>s DEF DrainEnd, TypeOK, FramesTyped
<1>11. CASE ResetManager
  BY <1>11, <1>s DEF ResetManager, TypeOK, FramesTyped
<1>12. CASE StopEncoder
  BY <1>12, <1>s DEF StopEncoder, TypeOK, FramesTyped
<1>13. CASE DequeueInput \/ DequeueOutput \/ VideoTest \/ Packer
  BY <1>13, <1>u DEF DequeueInput, DequeueOutput, VideoTest, Packer, PackerTest,
                     PackerFindsNothing, PackerReadCsd, PackerRead, PackerExit
<1>14. CASE \/ StartDevice \/ StartFails \/ StartManager \/ StartConvertor \/ CreatePacker
            \/ StartPacker \/ WritePackets
  BY <1>14, <1>u DEF StartDevice, StartFails, StartManager, StartConvertor, CreatePacker,
                     StartPacker, WritePackets
<1>15. CASE \/ StopPacker \/ StopConvertor \/ WaitForThread \/ WaitTimeout \/ DrainFree
            \/ StopManager \/ Uninit
  BY <1>15, <1>u DEF StopPacker, StopConvertor, WaitForThread, WaitTimeout, DrainFree,
                     StopManager, Uninit
<1>16. CASE UNCHANGED vars
  BY <1>16, <1>u DEF vars
<1> QED
  BY <1>1, <1>2, <1>3, <1>4, <1>5, <1>6, <1>7, <1>8, <1>9, <1>10, <1>11, <1>12, <1>13, <1>14,
     <1>15, <1>16 DEF Next, Callback, VideoThread, Codec, Caller

LEMMA UnitsTypedStep == TypeOK /\ HolderInv /\ [Next]_vars => UnitsTyped'
<1> SUFFICES ASSUME TypeOK, HolderInv, [Next]_vars PROVE UnitsTyped'
  OBVIOUS
<1>0. RecordAssumption
  BY RecordAssumption
<1> DEFINE units == <<encOut, escOut, tspOut, written, mAvail, errors>>
<1>u. ASSUME UNCHANGED units PROVE UnitsTyped'
  BY <1>u DEF TypeOK, UnitsTyped
<1> USE DEF device, callback, manager, queues, video, encoder, packer, caller, history
<1>1. ASSUME NEW b \in Buffers, Capture(b) PROVE UnitsTyped'
  BY <1>1, <1>u DEF Capture
<1>2. CASE \/ Callback \/ ReadBuffer \/ KeepFrame \/ VideoTest \/ ReturnBuffer \/ PackerExit
           \/ PackerTest \/ PackerFindsNothing
  BY <1>2, <1>u DEF Callback, CallbackTest, CallbackError, Unwanted, CallbackDeliver,
                    ReadBuffer, KeepFrame, VideoTest, ReturnBuffer, PackerExit, PackerTest,
                    PackerFindsNothing
<1>3. CASE DequeueInput
  <2>1. Len(enc) \in Nat /\ mAvail \in Nat /\ errors \in Nat /\ Slots \in Nat
    BY <1>0 DEF TypeOK, FramesTyped, UnitsTyped, RecordAssumption
  <2>2. mAvail' \in 0..Slots
    BY <1>3, <2>1 DEF DequeueInput, TypeOK, UnitsTyped
  <2> QED
    BY <1>3, <2>2 DEF DequeueInput, TypeOK, UnitsTyped
<1>4. CASE Feed
  <2>1. mAvail' \in 0..Slots /\ errors' \in 0..MaxErrors
    BY <1>0, <1>4, FeedTyped, FeedQueue DEF Feed, TypeOK, FramesTyped, UnitsTyped
  <2> QED
    BY <1>4, <2>1 DEF Feed, TypeOK, UnitsTyped
<1>5. CASE DequeueOutput
  <2>1. encOut # <<>> => Head(encOut) \in EsUnit /\ Tail(encOut) \in Seq(EsUnit)
    BY HeadTail DEF TypeOK, UnitsTyped
  <2>2. encOut' \in Seq(EsUnit)
    BY <1>5, <2>1 DEF DequeueOutput, TypeOK, UnitsTyped
  <2>3. escOut' \in Seq(EsUnit)
    <3>1. escOut' = escOut \/ (encOut # <<>> /\ escOut' = Append(escOut, Head(encOut)))
      BY <1>5 DEF DequeueOutput
    <3>2. escOut \in Seq(EsUnit)
      BY DEF TypeOK, UnitsTyped
    <3> QED
      BY <2>1, <3>1, <3>2
  <2>4. UNCHANGED <<tspOut, written, mAvail, errors>>
    BY <1>5 DEF DequeueOutput
  <2> QED
    BY <2>2, <2>3, <2>4 DEF TypeOK, UnitsTyped
<1>6. CASE Encode
  <2>1. Head(enc).n \in EsUnit
    BY <1>0, <1>6, HeadTail, FrameFields DEF Encode, TypeOK, FramesTyped, EsUnit
  <2> QED
    BY <1>6, <2>1 DEF Encode, TypeOK, UnitsTyped
<1>7. CASE PackerReadCsd \/ PackerRead
  <2>1. Head(escOut) \in EsUnit /\ Tail(escOut) \in Seq(EsUnit)
    BY <1>7, HeadTail DEF PackerReadCsd, PackerRead, TypeOK, UnitsTyped
  <2>2. CASE PackerReadCsd
    BY <2>1, <2>2 DEF PackerReadCsd, TypeOK, UnitsTyped
  <2>3. CASE PackerRead
    <3>1. tspOut' \in Seq(EsUnit) /\ escOut' \in Seq(EsUnit)
      BY <2>1, <2>3 DEF PackerRead, TypeOK, UnitsTyped
    <3> QED
      BY <2>3, <3>1 DEF PackerRead, TypeOK, UnitsTyped
  <2> QED
    BY <1>7, <2>2, <2>3
<1>8. CASE StartDevice \/ StartFails
  <2>1. Csd \in EsUnit
    BY <1>0 DEF Csd, EsUnit, RecordAssumption
  <2>2. <<Csd>> \in Seq(EsUnit)
    BY <2>1
  <2>3. encOut' = <<Csd>> /\ UNCHANGED <<escOut, tspOut, written, mAvail, errors>>
    BY <1>8 DEF StartDevice, StartFails
  <2> QED
    BY <2>2, <2>3 DEF TypeOK, UnitsTyped
<1>9. CASE WritePackets
  <2>1. Head(tspOut) \in EsUnit /\ Tail(tspOut) \in Seq(EsUnit)
    BY <1>9, HeadTail DEF WritePackets, TypeOK, UnitsTyped
  <2> QED
    BY <1>9, <2>1 DEF WritePackets, TypeOK, UnitsTyped
<1>10. CASE StopEncoder
  BY <1>10 DEF StopEncoder, TypeOK, UnitsTyped
<1>11. CASE StartManager \/ StartConvertor \/ CreatePacker \/ StartPacker \/ StopPacker
            \/ StopConvertor \/ WaitForThread \/ WaitTimeout
  BY <1>11, <1>u DEF StartManager, StartConvertor, CreatePacker, StartPacker, StopPacker,
                     StopConvertor, WaitForThread, WaitTimeout
<1>12. CASE DrainFrame \/ DrainFree \/ DrainEnd \/ StopManager \/ ResetManager \/ Uninit
  BY <1>12, <1>u DEF DrainFrame, DrainFree, DrainEnd, StopManager, ResetManager, Uninit
<1>13. CASE UNCHANGED vars
  BY <1>13, <1>u DEF vars
<1> QED
  BY <1>1, <1>2, <1>3, <1>4, <1>5, <1>6, <1>7, <1>8, <1>9, <1>10, <1>11, <1>12, <1>13
     DEF Next, VideoThread, Codec, Packer, Caller

LEMMA TypeStep == TypeOK /\ HolderInv /\ [Next]_vars => TypeOK'
BY ThreadsTypedStep, BuffersTypedStep, FramesTypedStep, UnitsTypedStep DEF TypeOK

----------------------------------------------------------------------------
(* The threads: which states of the caller and of the convertor's thread   *)
(* go together.  Only the steps of these two matter.                       *)

LEMMA ThreadStep == TypeOK /\ ThreadInv /\ [Next]_vars => ThreadInv'
<1> SUFFICES ASSUME TypeOK, ThreadInv, [Next]_vars PROVE ThreadInv'
  OBVIOUS
<1>u. ASSUME UNCHANGED <<vPc, cPc, escStarted>> PROVE ThreadInv'
  BY <1>u DEF ThreadInv, TornDown
<1>v. ASSUME UNCHANGED <<cPc, escStarted>>, vPc # "none", vPc # "out",
             vPc' # "none", vPc' # "out"
      PROVE  ThreadInv'
  BY <1>v DEF ThreadInv, TornDown
<1> USE DEF device, callback, manager, queues, video, encoder, packer, caller, history
<1>1. ASSUME NEW b \in Buffers, Capture(b) PROVE ThreadInv'
  BY <1>1, <1>u DEF Capture
<1>2. CASE Callback \/ Codec \/ Packer
  BY <1>2, <1>u DEF Callback, CallbackTest, CallbackError, Unwanted, CallbackDeliver, Codec,
                    Encode, ReturnBuffer, Packer, PackerTest, PackerFindsNothing, PackerReadCsd,
                    PackerRead, PackerExit
<1>3. CASE DequeueInput
  BY <1>3, <1>v DEF DequeueInput
<1>4. CASE ReadBuffer
  BY <1>4, <1>v DEF ReadBuffer
<1>5. CASE KeepFrame
  BY <1>5, <1>v DEF KeepFrame
<1>6. CASE Feed
  BY <1>6, <1>v DEF Feed
<1>7. CASE DequeueOutput
  BY <1>7, <1>v DEF DequeueOutput
<1>8. CASE VideoTest
  <2>1. CASE escStarted
    BY <1>8, <2>1, <1>v DEF VideoTest
  <2>2. CASE ~escStarted
    <3>1. vPc = "test" /\ vPc' = "out" /\ escStarted' = escStarted
          /\ cPc' = IF cPc = "waiting" THEN "drain" ELSE cPc
      BY <1>8, <2>2 DEF VideoTest
    <3> QED
      BY <2>2, <3>1 DEF ThreadInv, TornDown
  <2> QED
    BY <2>1, <2>2
<1>9. CASE StartDevice \/ StartFails \/ StartManager
  <2>1. /\ cPc \in {"init", "mgrStart"} /\ cPc' \in {"mgrStart", "escStart"}
        /\ UNCHANGED <<vPc, escStarted>>
    BY <1>9 DEF StartDevice, StartFails, StartManager
  <2> QED
    BY <2>1 DEF ThreadInv, TornDown
<1>10. CASE StartConvertor
  BY <1>10 DEF StartConvertor, ThreadInv, TornDown
<1>11. CASE CreatePacker \/ StartPacker \/ WritePackets \/ StopPacker
  <2>1. /\ cPc \in {"create", "tspStart", "reading", "tspStop"}
        /\ cPc' \in {"tspStart", "reading", "tspStop", "escStop"}
        /\ UNCHANGED <<vPc, escStarted>>
    BY <1>11 DEF CreatePacker, StartPacker, WritePackets, StopPacker
  <2> QED
    BY <2>1 DEF ThreadInv, TornDown
<1>12. CASE StopConvertor
  BY <1>12 DEF StopConvertor, ThreadInv, TornDown
<1>13. CASE WaitForThread \/ WaitTimeout
  BY <1>13 DEF WaitForThread, WaitTimeout, ThreadInv, TornDown
<1>14. CASE \/ DrainFrame \/ DrainFree \/ DrainEnd \/ StopManager \/ ResetManager \/ StopEncoder
            \/ Uninit
  <2>1. cPc \in TornDown /\ cPc' \in TornDown /\ UNCHANGED <<vPc, escStarted>>
    BY <1>14 DEF DrainFrame, DrainFree, DrainEnd, StopManager, ResetManager, StopEncoder,
                 Uninit, TornDown
  <2> QED
    BY <2>1 DEF ThreadInv, TornDown
<1>15. CASE UNCHANGED vars
  BY <1>15, <1>u DEF vars
<1> QED
  BY <1>1, <1>2, <1>3, <1>4, <1>5, <1>6, <1>7, <1>8, <1>9, <1>10, <1>11, <1>12, <1>13, <1>14,
     <1>15 DEF Next, VideoThread, Caller

----------------------------------------------------------------------------
(* The holders of a frame or a buffer.                                     *)

LEMMA HolderStep == TypeOK /\ HolderInv /\ [Next]_vars => HolderInv'
<1> SUFFICES ASSUME TypeOK, HolderInv, [Next]_vars PROVE HolderInv'
  OBVIOUS
<1>0. RecordAssumption
  BY RecordAssumption
<1>s. soft' = soft /\ Frame' = Frame
  BY SoftStays
<1> DEFINE holders == <<vPc, vFrame, cbPc, cbBuf, taken, codec, codecFrame, mCanvasClientExist,
                        mBufferRelease>>
<1>u. ASSUME UNCHANGED holders, cPc' # "drained" \/ cPc = "drained" PROVE HolderInv'
  BY <1>s, <1>u DEF HolderInv
<1> USE DEF device, callback, manager, queues, video, encoder, packer, caller, history
<1>1. ASSUME NEW b \in Buffers, Capture(b) PROVE HolderInv'
  BY <1>1, <1>s DEF Capture, HolderInv
<1>2. CASE CallbackTest \/ CallbackError
  BY <1>2, <1>s DEF CallbackTest, CallbackError, Unwanted, HolderInv
<1>3. CASE CallbackDeliver
  BY <1>3, <1>s DEF CallbackDeliver, HolderInv
<1>4. CASE ReadBuffer
  <2>1. mgrQueue # <<>> => Head(mgrQueue) \in Frame
    BY HeadTail DEF TypeOK, FramesTyped
  <2> QED
    BY <1>4, <1>s, <2>1 DEF ReadBuffer, HolderInv
<1>5. CASE KeepFrame
  BY <1>5, <1>s DEF KeepFrame, HolderInv
<1>6. CASE DequeueInput
  BY <1>6, <1>s DEF DequeueInput, HolderInv
<1>7. CASE Feed
  BY <1>7, <1>s DEF Feed, HolderInv
<1>8. CASE DequeueOutput
  BY <1>8, <1>s DEF DequeueOutput, HolderInv
<1>9. CASE VideoTest
  BY <1>9, <1>s DEF VideoTest, HolderInv
<1>10. CASE Encode
  <2>1. Head(enc) \in Frame
    BY <1>10, HeadTail DEF Encode, TypeOK, FramesTyped
  <2>2. Head(enc).b \in Buffers <=> ~soft
    BY <1>0, <2>1, FrameFields
  <2> QED
    BY <1>10, <1>s, <2>1, <2>2 DEF Encode, HolderInv
<1>11. CASE ReturnBuffer
  BY <1>11, <1>s DEF ReturnBuffer, HolderInv
<1>12. CASE StartManager
  <2>1. mCanvasClientExist' => ~soft'
    <3>1. soft = TRUE \/ soft = FALSE
      BY DEF TypeOK, ThreadsTyped
    <3>2. mCanvasClientExist' = FALSE \/ soft = FALSE
      BY <1>12, <3>1 DEF StartManager
    <3> QED
      BY <1>s, <3>2
  <2>2. /\ cPc' = "escStart"
        /\ UNCHANGED <<vPc, vFrame, cbPc, cbBuf, taken, codec, codecFrame, mBufferRelease>>
    BY <1>12 DEF StartManager
  <2> QED
    BY <1>s, <2>1, <2>2 DEF HolderInv
<1>13. CASE StartConvertor
  BY <1>13, <1>s DEF StartConvertor, HolderInv
<1>14. CASE DrainFrame
  <2>1. ~soft
    BY <1>14 DEF DrainFrame
  <2>2. /\ mFramesReceived # <<>> => Head(mFramesReceived).b \in Buffers
        /\ mInputBufferQueue # <<>> => Head(mInputBufferQueue).b \in Buffers
    BY <1>0, <2>1, HeadTail, FrameFields DEF TypeOK, FramesTyped
  <2> QED
    BY <1>14, <1>s, <2>2 DEF DrainFrame, HolderInv
<1>15. CASE StopEncoder
  BY <1>15, <1>s DEF StopEncoder, HolderInv
<1>16. CASE ResetManager
  BY <1>16, <1>s DEF ResetManager, HolderInv
<1>17. CASE Packer \/ StartDevice \/ StartFails \/ CreatePacker \/ StartPacker \/ WritePackets
  BY <1>17, <1>u DEF Packer, PackerTest, PackerFindsNothing, PackerReadCsd, PackerRead,
                     PackerExit, StartDevice, StartFails, CreatePacker, StartPacker,
                     WritePackets
<1>18. CASE \/ StopPacker \/ StopConvertor \/ WaitForThread \/ WaitTimeout \/ DrainFree
            \/ DrainEnd \/ StopManager \/ Uninit
  BY <1>18, <1>u DEF StopPacker, StopConvertor, WaitForThread, WaitTimeout, DrainFree, DrainEnd,
                     StopManager, Uninit
<1>19. CASE UNCHANGED vars
  BY <1>19, <1>u DEF vars
<1> QED
  BY <1>1, <1>2, <1>3, <1>4, <1>5, <1>6, <1>7, <1>8, <1>9, <1>10, <1>11, <1>12, <1>13, <1>14,
     <1>15, <1>16, <1>17, <1>18, <1>19 DEF Next, Callback, VideoThread, Codec, Caller

----------------------------------------------------------------------------
(* While the recording runs.                                               *)

LEMMA TornDownStays == [Next]_vars /\ cPc \in TornDown => cPc' \in TornDown
<1> SUFFICES ASSUME [Next]_vars, cPc \in TornDown PROVE cPc' \in TornDown
  OBVIOUS
<1> QED
  BY DEF Next, Callback, VideoThread, Codec, Packer, Caller, vars, Capture, CallbackTest,
         CallbackError, Unwanted, CallbackDeliver, DequeueInput, ReadBuffer, KeepFrame, Feed,
         DequeueOutput, VideoTest, Encode, ReturnBuffer, PackerTest, PackerFindsNothing,
         PackerReadCsd, PackerRead, PackerExit, StartDevice, StartFails, StartManager,
         StartConvertor, CreatePacker, StartPacker, WritePackets, StopPacker, StopConvertor,
         WaitForThread, WaitTimeout, DrainFrame, DrainFree, DrainEnd, StopManager, ResetManager,
         StopEncoder, Uninit, TornDown, caller

LEMMA RunningStep == TypeOK /\ HolderInv /\ RunningInv /\ [Next]_vars => RunningInv'
<1> SUFFICES ASSUME TypeOK, HolderInv, RunningInv, [Next]_vars, cPc' \notin TornDown
             PROVE  RunningInv'
  BY DEF RunningInv
<1>t. cPc \notin TornDown
  BY TornDownStays
<1>s. soft' = soft
  BY SoftStays
<1> DEFINE running == <<cbPc, mgrStarted, mCanvasClientExist, vPc, codec, codecFrame, mgrQueue,
                        mFramesReceived, mInputBufferQueue, enc, mBufferRelease>>
<1>u. ASSUME UNCHANGED running, cPc' \in {"init", "mgrStart"} => cPc' = cPc PROVE RunningInv'
  BY <1>s, <1>t, <1>u DEF RunningInv
<1> USE DEF device, callback, manager, queues, video, encoder, packer, caller, history
<1>1. ASSUME NEW b \in Buffers, Capture(b) PROVE RunningInv'
  BY <1>1, <1>s, <1>t DEF Capture, RunningInv
<1>2. CASE CallbackTest \/ CallbackError
  BY <1>2, <1>s, <1>t DEF CallbackTest, CallbackError, Unwanted, RunningInv
<1>3. CASE CallbackDeliver
  BY <1>3, <1>s, <1>t DEF CallbackDeliver, RunningInv
<1>4. CASE DequeueInput \/ DequeueOutput
  BY <1>4, <1>s, <1>t DEF DequeueInput, DequeueOutput, RunningInv
<1>5. CASE ReadBuffer
  BY <1>5, <1>s, <1>t DEF ReadBuffer, RunningInv
<1>6. CASE KeepFrame
  BY <1>6, <1>s, <1>t DEF KeepFrame, RunningInv
<1>7. CASE Feed
  <2>1. ASSUME NEW q, FeedNothing(q) \/ FeedFrame(q) \/ FeedFails(q), q # <<>> => mgrStarted
        PROVE  mInputBufferQueue' # <<>> \/ enc' # <<>> => mgrStarted \/ enc # <<>>
    BY <2>1 DEF FeedNothing, FeedFrame, FeedFails, history
  <2>2. mInputBufferQueue # <<>> \/ mFramesReceived # <<>> \/ enc # <<>> => mgrStarted
    BY <1>t DEF RunningInv
  <2>3. mInputBufferQueue' # <<>> \/ mFramesReceived' # <<>> \/ enc' # <<>> => mgrStarted
    BY <1>7, <2>1, <2>2 DEF Feed
  <2> QED
    BY <1>7, <1>s, <1>t, <2>3 DEF Feed, RunningInv
<1>8. CASE VideoTest
  BY <1>8, <1>s, <1>t DEF VideoTest, RunningInv, TornDown
<1>9. CASE Encode
  BY <1>9, <1>s, <1>t DEF Encode, RunningInv
<1>10. CASE ReturnBuffer
  BY <1>10, <1>s, <1>t DEF ReturnBuffer, RunningInv
<1>11. CASE StartDevice
  BY <1>11, <1>s, <1>t DEF StartDevice, RunningInv
<1>12. CASE StartManager
  BY <1>12, <1>s, <1>t DEF StartManager, RunningInv
<1>13. CASE StartConvertor
  BY <1>13, <1>s, <1>t DEF StartConvertor, RunningInv
<1>14. CASE Packer \/ StartFails \/ CreatePacker \/ StartPacker \/ WritePackets
  BY <1>14, <1>u DEF Packer, PackerTest, PackerFindsNothing, PackerReadCsd, PackerRead,
                     PackerExit, StartFails, CreatePacker, StartPacker, WritePackets
<1>15. CASE StopPacker \/ StopConvertor \/ WaitForThread \/ WaitTimeout
  BY <1>15, <1>u DEF StopPacker, StopConvertor, WaitForThread, WaitTimeout
<1>16. CASE \/ DrainFrame \/ DrainFree \/ DrainEnd \/ StopManager \/ ResetManager \/ StopEncoder
            \/ Uninit
  BY <1>16, <1>t DEF DrainFrame, DrainFree, DrainEnd, StopManager, ResetManager, StopEncoder,
                     Uninit, TornDown
<1>17. CASE UNCHANGED vars
  BY <1>17, <1>u DEF vars
<1> QED
  BY <1>1, <1>2, <1>3, <1>4, <1>5, <1>6, <1>7, <1>8, <1>9, <1>10, <1>11, <1>12, <1>13, <1>14,
     <1>15, <1>16, <1>17 DEF Next, Callback, VideoThread, Codec, Caller

----------------------------------------------------------------------------
(* Counting the buffers in a queue.                                        *)

Held(q, b) == {i \in 1..Len(q) : q[i].b = b}

LEMMA HeldFinite ==
  ASSUME NEW q \in Seq(Frame), NEW b
  PROVE  IsFiniteSet(Held(q, b)) /\ Count(q, b) = Cardinality(Held(q, b)) /\ Count(q, b) \in Nat
<1>1. IsFiniteSet(1..Len(q))
  BY FS_Interval
<1>2. IsFiniteSet(Held(q, b))
  BY <1>1, FS_Subset DEF Held
<1>3. Count(q, b) = Cardinality(Held(q, b))
  BY DEF Count, Held
<1> QED
  BY <1>2, <1>3, FS_CardinalityType

LEMMA CountEmpty == ASSUME NEW b PROVE Count(<<>>, b) = 0
<1>1. {i \in 1..Len(<<>>) : <<>>[i].b = b} = {}
  OBVIOUS
<1> QED
  BY <1>1, FS_EmptySet DEF Count

LEMMA CountAppend ==
  ASSUME NEW q \in Seq(Frame), NEW f \in Frame, NEW b
  PROVE  Count(Append(q, f), b) = Count(q, b) + One(f.b = b)
<1> DEFINE r == Append(q, f)
<1>1. Len(r) = Len(q) + 1 /\ r[Len(q) + 1] = f /\ \A i \in 1..Len(q) : r[i] = q[i]
  OBVIOUS
<1>2. Len(q) \in Nat /\ r \in Seq(Frame)
  OBVIOUS
<1> HIDE DEF r
<1>3. CASE f.b = b
  <2>1. Held(r, b) = Held(q, b) \union {Len(q) + 1}
    BY <1>1, <1>2, <1>3 DEF Held
  <2>2. Len(q) + 1 \notin Held(q, b)
    BY <1>2 DEF Held
  <2>3. Cardinality(Held(r, b)) = Cardinality(Held(q, b)) + 1
    BY <2>1, <2>2, HeldFinite, FS_AddElement
  <2> QED
    BY <1>2, <1>3, <2>3, HeldFinite DEF One, r
<1>4. CASE f.b # b
  <2>1. Held(r, b) = Held(q, b)
    BY <1>1, <1>2, <1>4 DEF Held
  <2>2. One(f.b = b) = 0
    BY <1>4 DEF One
  <2>3. Count(r, b) = Count(q, b) /\ Count(q, b) \in Nat
    BY <1>2, <2>1, HeldFinite
  <2> QED
    BY <2>2, <2>3 DEF r
<1> QED
  BY <1>3, <1>4

LEMMA CountTail ==
  ASSUME NEW q \in Seq(Frame), q # <<>>, NEW b
  PROVE  Count(q, b) = Count(Tail(q), b) + One(Head(q).b = b)
<1> DEFINE t == Tail(q)
           h == Head(q)
<1>1. /\ t \in Seq(Frame) /\ h \in Frame
      /\ Len(q) = Len(t) + 1 /\ Len(t) \in Nat
      /\ q[1] = h /\ \A i \in 1..Len(t) : t[i] = q[i + 1]
  OBVIOUS
<1> HIDE DEF t, h
<1> DEFINE Up == [i \in Held(t, b) |-> i + 1]
           Later == Held(q, b) \ {1}
<1>2. Up \in Bijection(Held(t, b), Later)
  <2>1. Up \in [Held(t, b) -> Later]
    BY <1>1 DEF Held
  <2>2. \A i, j \in Held(t, b) : Up[i] = Up[j] => i = j
    BY <1>1 DEF Held
  <2>3. \A j \in Later : \E i \in Held(t, b) : Up[i] = j
    <3> SUFFICES ASSUME NEW j \in Later PROVE \E i \in Held(t, b) : Up[i] = j
      OBVIOUS
    <3>1. j \in Nat /\ j - 1 \in 1..Len(t) /\ q[j].b = b
      BY <1>1 DEF Held
    <3>2. j - 1 \in Held(t, b)
      BY <1>1, <3>1 DEF Held
    <3> QED
      BY <3>1, <3>2
  <2> HIDE DEF Up, Later
  <2> QED
    BY <2>1, <2>2, <2>3, Fun_IsBij
<1>3. IsFiniteSet(Held(t, b)) /\ IsFiniteSet(Held(q, b))
  BY <1>1, HeldFinite
<1>4. Cardinality(Later) = Cardinality(Held(t, b)) /\ IsFiniteSet(Later)
  BY <1>2, <1>3, FS_Bijection DEF ExistsBijection
<1>5. CASE h.b = b
  <2>1. Held(q, b) = Later \union {1} /\ 1 \notin Later
    BY <1>1, <1>5 DEF Held
  <2>2. Cardinality(Held(q, b)) = Cardinality(Later) + 1
    BY <1>4, <2>1, FS_AddElement
  <2> QED
    BY <1>1, <1>4, <1>5, <2>2, HeldFinite DEF One, t, h
<1>6. CASE h.b # b
  <2>1. Held(q, b) = Later
    BY <1>1, <1>6 DEF Held
  <2>2. One(h.b = b) = 0
    BY <1>6 DEF One
  <2>3. Count(q, b) = Count(t, b) /\ Count(t, b) \in Nat
    BY <1>1, <1>4, <2>1, HeldFinite
  <2> QED
    BY <2>2, <2>3 DEF t, h
<1> QED
  BY <1>5, <1>6

----------------------------------------------------------------------------
(* The places of a buffer.                                                 *)

InDevice(b) == One(b \in devFree)
InCallback(b) == One(cbPc # "idle" /\ cbBuf = b)
InThread(b) == One(vPc = "got" /\ vFrame.b = b)
InCodec(b) == One(codec = "return" /\ codecFrame.b = b)
InLost(b) == One(b \in lost)

LEMMA PlacesSum ==
  ASSUME FramesTyped, NEW b
  PROVE  /\ Places(b) = InDevice(b) + InCallback(b) + Count(mgrQueue, b) + InThread(b)
                          + Count(mFramesReceived, b) + Count(mInputBufferQueue, b)
                          + Count(enc, b) + InCodec(b) + InLost(b)
         /\ InDevice(b) \in {0, 1} /\ InCallback(b) \in {0, 1} /\ InThread(b) \in {0, 1}
         /\ InCodec(b) \in {0, 1} /\ InLost(b) \in {0, 1}
         /\ Count(mgrQueue, b) \in Nat /\ Count(mFramesReceived, b) \in Nat
         /\ Count(mInputBufferQueue, b) \in Nat /\ Count(enc, b) \in Nat
<1>1. /\ Count(mgrQueue, b) \in Nat /\ Count(mFramesReceived, b) \in Nat
      /\ Count(mInputBufferQueue, b) \in Nat /\ Count(enc, b) \in Nat
  BY HeldFinite DEF FramesTyped
<1>2. /\ InDevice(b) \in {0, 1} /\ InCallback(b) \in {0, 1} /\ InThread(b) \in {0, 1}
      /\ InCodec(b) \in {0, 1} /\ InLost(b) \in {0, 1}
  BY DEF InDevice, InCallback, InThread, InCodec, InLost, One
<1>3. Places(b) = InDevice(b) + InCallback(b) + Count(mgrQueue, b) + InThread(b)
                    + Count(mFramesReceived, b) + Count(mInputBufferQueue, b)
                    + Count(enc, b) + InCodec(b) + InLost(b)
  BY DEF Places, InDevice, InCallback, InThread, InCodec, InLost
<1> QED
  BY <1>1, <1>2, <1>3

LEMMA PlacesSumNext ==
  ASSUME FramesTyped', NEW b
  PROVE  Places(b)' = InDevice(b)' + InCallback(b)' + Count(mgrQueue', b) + InThread(b)'
                        + Count(mFramesReceived', b) + Count(mInputBufferQueue', b)
                        + Count(enc', b) + InCodec(b)' + InLost(b)'
BY DEF Places, InDevice, InCallback, InThread, InCodec, InLost

(* What feedEncoderInputBuffers does with its queue q moves a buffer from  *)
(* q to the encoder, or loses it.                                          *)
LEMMA FeedPlaces ==
  ASSUME TypeOK, RecordAssumption, NEW q \in Seq(Frame), NEW b \in Buffers,
         FeedNothing(q) \/ FeedFrame(q) \/ FeedFails(q),
         Count(q, b) >= 1 => InLost(b) = 0
  PROVE  Count(mInputBufferQueue', b) + Count(enc', b) + InLost(b)'
           = Count(q, b) + Count(enc, b) + InLost(b)
<1>0. b # NoBuffer
  BY DEF RecordAssumption
<1>1. CASE FeedNothing(q)
  BY <1>1 DEF FeedNothing, history, InLost
<1>2. ASSUME q # <<>>
      PROVE  /\ Count(q, b) = Count(Tail(q), b) + One(Head(q).b = b)
             /\ Count(Tail(q), b) \in Nat /\ Head(q) \in Frame /\ Tail(q) \in Seq(Frame)
  BY <1>2, HeadTail, CountTail, HeldFinite
<1>3. Count(enc, b) \in Nat /\ enc \in Seq(Frame)
  BY HeldFinite DEF TypeOK, FramesTyped
<1>4. InLost(b) \in {0, 1}
  BY DEF InLost, One
<1>5. CASE FeedFrame(q)
  <2>1. q # <<>> /\ mInputBufferQueue' = Tail(q) /\ enc' = Append(enc, Head(q)) /\ lost' = lost
    BY <1>5 DEF FeedFrame, history
  <2>2. Count(enc', b) = Count(enc, b) + One(Head(q).b = b)
    BY <1>2, <1>3, <2>1, CountAppend
  <2>3. InLost(b)' = InLost(b)
    BY <2>1 DEF InLost
  <2>4. One(Head(q).b = b) \in {0, 1}
    BY DEF One
  <2> QED
    BY <1>2, <1>3, <1>4, <2>1, <2>2, <2>3, <2>4
<1>6. CASE FeedFails(q)
  <2>1. q # <<>> /\ mInputBufferQueue' = Tail(q) /\ enc' = enc
        /\ lost' = lost \union ({Head(q).b} \ {NoBuffer})
    BY <1>6 DEF FeedFails, Lose
  <2>2. CASE Head(q).b = b
    <3>1. One(Head(q).b = b) = 1 /\ InLost(b)' = 1
      BY <1>0, <2>1, <2>2 DEF InLost, One
    <3>2. InLost(b) = 0
      BY <1>2, <2>1, <3>1
    <3> QED
      BY <1>2, <1>3, <2>1, <3>1, <3>2
  <2>3. CASE Head(q).b # b
    <3>1. One(Head(q).b = b) = 0 /\ InLost(b)' = InLost(b)
      BY <2>1, <2>3 DEF InLost, One
    <3> QED
      BY <1>2, <1>3, <1>4, <2>1, <3>1
  <2> QED
    BY <2>2, <2>3
<1> QED
  BY <1>1, <1>5, <1>6

LEMMA PlacesStep ==
  ASSUME TypeOK, HolderInv, ThreadInv, RunningInv, [Next]_vars,
         cPc \notin TornDown, cPc' \notin TornDown,
         NEW b \in Buffers, Places(b) = 1
  PROVE  Places(b)' = 1
<1>0. RecordAssumption /\ b # NoBuffer
  BY RecordAssumption DEF RecordAssumption
<1>n. FramesTyped /\ FramesTyped'
  BY TypeStep DEF TypeOK
<1>p. /\ 1 = InDevice(b) + InCallback(b) + Count(mgrQueue, b) + InThread(b)
               + Count(mFramesReceived, b) + Count(mInputBufferQueue, b)
               + Count(enc, b) + InCodec(b) + InLost(b)
      /\ InDevice(b) \in {0, 1} /\ InCallback(b) \in {0, 1} /\ InThread(b) \in {0, 1}
      /\ InCodec(b) \in {0, 1} /\ InLost(b) \in {0, 1}
      /\ Count(mgrQueue, b) \in Nat /\ Count(mFramesReceived, b) \in Nat
      /\ Count(mInputBufferQueue, b) \in Nat /\ Count(enc, b) \in Nat
  BY <1>n, PlacesSum
<1>q. Places(b)' = InDevice(b)' + InCallback(b)' + Count(mgrQueue', b) + InThread(b)'
                     + Count(mFramesReceived', b) + Count(mInputBufferQueue', b)
                     + Count(enc', b) + InCodec(b)' + InLost(b)'
  BY <1>n, PlacesSumNext
<1>r. /\ mgrQueue \in Seq(Frame) /\ mFramesReceived \in Seq(Frame)
      /\ mInputBufferQueue \in Seq(Frame) /\ enc \in Seq(Frame)
  BY <1>n DEF FramesTyped
<1>u. ASSUME UNCHANGED <<devFree, cbPc, cbBuf, mgrQueue, vFrame, mFramesReceived,
                         mInputBufferQueue, enc, codec, codecFrame, lost>>,
             vPc' = "got" <=> vPc = "got"
      PROVE  Places(b)' = 1
  BY <1>u, <1>p, <1>q DEF InDevice, InCallback, InThread, InCodec, InLost
<1> USE DEF device, callback, manager, queues, video, encoder, packer, caller, history
<1>1. ASSUME NEW d \in Buffers, Capture(d) PROVE Places(b)' = 1
  <2>1. InDevice(b) + InCallback(b) = InDevice(b)' + InCallback(b)'
    BY <1>1 DEF Capture, InDevice, InCallback, One
  <2>2. InThread(b)' = InThread(b) /\ InCodec(b)' = InCodec(b) /\ InLost(b)' = InLost(b)
        /\ UNCHANGED <<mgrQueue, mFramesReceived, mInputBufferQueue, enc>>
    BY <1>1 DEF Capture, InThread, InCodec, InLost
  <2>3. InDevice(b)' \in {0, 1} /\ InCallback(b)' \in {0, 1}
    BY DEF InDevice, InCallback, One
  <2> QED
    BY <1>p, <1>q, <2>1, <2>2, <2>3
<1>2. CASE CallbackTest \/ CallbackError
  <2>1. /\ InThread(b)' = InThread(b) /\ InCodec(b)' = InCodec(b) /\ InDevice(b)' = InDevice(b)
        /\ UNCHANGED <<mgrQueue, mFramesReceived, mInputBufferQueue, enc>>
    BY <1>2 DEF CallbackTest, CallbackError, InThread, InCodec, InDevice
  <2>2. /\ cbPc = "called"
        /\ \/ cbPc' = "wanted" /\ UNCHANGED <<cbBuf, lost>>
           \/ cbPc' = "idle" /\ lost' = lost \union {cbBuf}
    BY <1>2 DEF CallbackTest, CallbackError, Unwanted
  <2>3. CASE cbPc' = "wanted" /\ UNCHANGED <<cbBuf, lost>>
    <3>1. InCallback(b)' = InCallback(b) /\ InLost(b)' = InLost(b)
      BY <2>2, <2>3 DEF InCallback, InLost, One
    <3> QED
      BY <1>p, <1>q, <2>1, <3>1
  <2>4. CASE cbPc' = "idle" /\ lost' = lost \union {cbBuf}
    <3>1. CASE cbBuf = b
      <4>1. InCallback(b) = 1 /\ InCallback(b)' = 0 /\ InLost(b)' = 1
        BY <2>2, <2>4, <3>1 DEF InCallback, InLost, One
      <4>2. InLost(b) = 0
        BY <1>p, <4>1
      <4> QED
        BY <1>p, <1>q, <2>1, <4>1, <4>2
    <3>2. CASE cbBuf # b
      <4>1. InCallback(b) = 0 /\ InCallback(b)' = 0 /\ InLost(b)' = InLost(b)
        BY <2>2, <2>4, <3>2 DEF InCallback, InLost, One
      <4> QED
        BY <1>p, <1>q, <2>1, <4>1
    <3> QED
      BY <3>1, <3>2
  <2> QED
    BY <2>2, <2>3, <2>4
<1>3. CASE CallbackDeliver
  <2>1. InThread(b)' = InThread(b) /\ InCodec(b)' = InCodec(b)
        /\ UNCHANGED <<mFramesReceived, mInputBufferQueue, enc>>
    BY <1>3 DEF CallbackDeliver, InThread, InCodec
  <2>2. mgrStarted /\ HasClient /\ mCanvasClientExist = ~soft
    BY <1>3 DEF CallbackDeliver, RunningInv, HasClient, TornDown
  <2>3. cbPc = "wanted" /\ cbPc' = "idle" /\ cbBuf \in Buffers /\ lost' = lost
    BY <1>3, <2>2 DEF CallbackDeliver, HolderInv
  <2>4. InLost(b)' = InLost(b) /\ InCallback(b)' = 0 /\ InCallback(b) = One(cbBuf = b)
    BY <2>3 DEF InLost, InCallback, One
  <2>5. CASE soft
    <3>1. devFree' = devFree \union {cbBuf}
      BY <1>3, <2>2, <2>5 DEF CallbackDeliver
    <3>2. Count(mgrQueue', b) = Count(mgrQueue, b)
      <4>1. \/ mgrQueue' = mgrQueue
            \/ mgrQueue' = Append(mgrQueue, [n |-> taken + 1, b |-> NoBuffer])
        BY <1>3, <2>2, <2>5 DEF CallbackDeliver
      <4>2. taken + 1 \in 1..MaxFrames
        BY <1>0, <1>n, <2>3 DEF HolderInv, FramesTyped, RecordAssumption
      <4>3. [n |-> taken + 1, b |-> NoBuffer] \in Frame
        BY <2>5, <4>2 DEF Frame
      <4>4. Count(Append(mgrQueue, [n |-> taken + 1, b |-> NoBuffer]), b)
              = Count(mgrQueue, b) + One([n |-> taken + 1, b |-> NoBuffer].b = b)
        BY <1>r, <4>3, CountAppend
      <4>5. One([n |-> taken + 1, b |-> NoBuffer].b = b) = 0
        BY <1>0 DEF One
      <4>6. CASE mgrQueue' = mgrQueue
        BY <4>6
      <4>7. CASE mgrQueue' = Append(mgrQueue, [n |-> taken + 1, b |-> NoBuffer])
        <5>1. Count(mgrQueue', b) = Count(mgrQueue, b) + 0
          BY <4>4, <4>5, <4>7
        <5>2. Count(mgrQueue, b) \in Nat
          BY <1>r, HeldFinite
        <5> QED
          BY <5>1, <5>2
      <4> QED
        BY <4>1, <4>6, <4>7
    <3>3. CASE cbBuf = b
      <4>1. InCallback(b) = 1 /\ InDevice(b)' = 1
        BY <2>4, <3>1, <3>3 DEF InDevice, One
      <4>2. InDevice(b) = 0
        BY <1>p, <4>1
      <4> QED
        BY <1>p, <1>q, <2>1, <2>4, <3>2, <4>1, <4>2
    <3>4. CASE cbBuf # b
      <4>1. InCallback(b) = 0 /\ InDevice(b)' = InDevice(b)
        BY <2>4, <3>1, <3>4 DEF InDevice, One
      <4> QED
        BY <1>p, <1>q, <2>1, <2>4, <3>2, <4>1
    <3> QED
      BY <3>3, <3>4
  <2>6. CASE ~soft
    <3>1. devFree' = devFree /\ mgrQueue' = Append(mgrQueue, [n |-> taken + 1, b |-> cbBuf])
      BY <1>3, <2>2, <2>6 DEF CallbackDeliver
    <3>2. taken + 1 \in 1..MaxFrames
      BY <1>0, <1>n, <2>3 DEF HolderInv, FramesTyped, RecordAssumption
    <3>3. [n |-> taken + 1, b |-> cbBuf] \in Frame
      BY <2>3, <2>6, <3>2 DEF Frame
    <3>4. Count(mgrQueue', b) = Count(mgrQueue, b) + One([n |-> taken + 1, b |-> cbBuf].b = b)
      BY <1>r, <3>1, <3>3, CountAppend
    <3>5. One([n |-> taken + 1, b |-> cbBuf].b = b) = InCallback(b) /\ InDevice(b)' = InDevice(b)
      BY <2>4, <3>1 DEF InDevice
    <3> QED
      BY <1>p, <1>q, <2>1, <2>4, <3>4, <3>5
  <2> QED
    BY <2>5, <2>6
<1>4. CASE ReadBuffer
  <2>1. InDevice(b)' = InDevice(b) /\ InCallback(b)' = InCallback(b) /\ InCodec(b)' = InCodec(b)
        /\ InLost(b)' = InLost(b) /\ UNCHANGED <<mFramesReceived, mInputBufferQueue, enc>>
    BY <1>4 DEF ReadBuffer, InDevice, InCallback, InCodec, InLost
  <2>2. CASE mgrStarted /\ mgrQueue # <<>>
    <3>1. /\ vPc = "read" /\ vPc' = "got" /\ vFrame' = Head(mgrQueue)
          /\ mgrQueue' = Tail(mgrQueue)
      BY <1>4, <2>2 DEF ReadBuffer
    <3>2. Count(mgrQueue, b) = Count(mgrQueue', b) + One(Head(mgrQueue).b = b)
      BY <1>r, <2>2, <3>1, CountTail
    <3>3. InThread(b) = 0 /\ InThread(b)' = One(Head(mgrQueue).b = b)
      BY <3>1 DEF InThread, One
    <3>4. Count(mgrQueue', b) \in Nat /\ InThread(b)' \in {0, 1}
      BY <1>r, <2>2, <3>1, <3>3, HeadTail, HeldFinite DEF One
    <3> QED
      BY <1>p, <1>q, <2>1, <3>2, <3>3, <3>4
  <2>3. CASE ~(mgrStarted /\ mgrQueue # <<>>)
    <3>1. vPc = "read" /\ vPc' = "feed" /\ mgrQueue' = mgrQueue
      BY <1>4, <2>3 DEF ReadBuffer
    <3>2. InThread(b) = 0 /\ InThread(b)' = 0
      BY <3>1 DEF InThread, One
    <3> QED
      BY <1>p, <1>q, <2>1, <3>1, <3>2
  <2> QED
    BY <2>2, <2>3
<1>5. CASE KeepFrame
  <2>1. InDevice(b)' = InDevice(b) /\ InCallback(b)' = InCallback(b) /\ InCodec(b)' = InCodec(b)
        /\ UNCHANGED <<mgrQueue, enc>>
    BY <1>5 DEF KeepFrame, InDevice, InCallback, InCodec
  <2>2. /\ vPc = "got" /\ vPc' \in {"read", "feed"} /\ vFrame \in Frame
        /\ InThread(b) = One(vFrame.b = b) /\ InThread(b)' = 0
    BY <1>5 DEF KeepFrame, HolderInv, InThread, One
  <2>3. CASE escStarted /\ soft
    <3>1. /\ mInputBufferQueue' = Append(mInputBufferQueue, vFrame)
          /\ mFramesReceived' = mFramesReceived /\ lost' = lost
      BY <1>5, <2>3 DEF KeepFrame
    <3>2. Count(mInputBufferQueue', b) = Count(mInputBufferQueue, b) + InThread(b)
      BY <1>r, <2>2, <3>1, CountAppend
    <3>3. InLost(b)' = InLost(b)
      BY <3>1 DEF InLost
    <3> QED
      <4>1. Count(mFramesReceived', b) = Count(mFramesReceived, b) /\ InThread(b)' = 0
        BY <2>2, <3>1
      <4>2. UNCHANGED <<mgrQueue, enc>>
        BY <2>1
      <4> QED
        BY <1>p, <1>q, <2>1, <3>2, <3>3, <4>1, <4>2
  <2>4. CASE escStarted /\ ~soft
    <3>1. /\ mFramesReceived' = Append(mFramesReceived, vFrame)
          /\ mInputBufferQueue' = mInputBufferQueue /\ lost' = lost
      BY <1>5, <2>4 DEF KeepFrame
    <3>2. Count(mFramesReceived', b) = Count(mFramesReceived, b) + InThread(b)
      BY <1>r, <2>2, <3>1, CountAppend
    <3>3. InLost(b)' = InLost(b)
      BY <3>1 DEF InLost
    <3> QED
      <4>1. Count(mInputBufferQueue', b) = Count(mInputBufferQueue, b) /\ InThread(b)' = 0
        BY <2>2, <3>1
      <4>2. UNCHANGED <<mgrQueue, enc>>
        BY <2>1
      <4> QED
        BY <1>p, <1>q, <2>1, <3>2, <3>3, <4>1, <4>2
  <2>5. CASE ~escStarted
    <3>1. /\ lost' = lost \union ({vFrame.b} \ {NoBuffer})
          /\ UNCHANGED <<mFramesReceived, mInputBufferQueue>>
      BY <1>5, <2>5 DEF KeepFrame, Lose
    <3>2. CASE vFrame.b = b
      <4>1. InThread(b) = 1 /\ InLost(b)' = 1
        BY <1>0, <2>2, <3>1, <3>2 DEF InLost, One
      <4>2. InLost(b) = 0
        BY <1>p, <4>1
      <4> QED
        BY <1>p, <1>q, <2>1, <2>2, <3>1, <4>1, <4>2
    <3>3. CASE vFrame.b # b
      <4>1. InThread(b) = 0 /\ InLost(b)' = InLost(b)
        BY <2>2, <3>1, <3>3 DEF InLost, One
      <4> QED
        BY <1>p, <1>q, <2>1, <2>2, <3>1, <4>1
    <3> QED
      BY <3>2, <3>3
  <2> QED
    BY <2>3, <2>4, <2>5
<1>6. CASE Feed
  <2>1. InDevice(b)' = InDevice(b) /\ InCallback(b)' = InCallback(b) /\ InCodec(b)' = InCodec(b)
        /\ mgrQueue' = mgrQueue
    BY <1>6 DEF Feed, InDevice, InCallback, InCodec
  <2>2. InThread(b) = 0 /\ InThread(b)' = 0
    BY <1>6 DEF Feed, InThread, One
  <2>3. CASE soft
    <3>1. /\ mFramesReceived' = mFramesReceived
          /\ \/ FeedNothing(mInputBufferQueue) \/ FeedFrame(mInputBufferQueue)
             \/ FeedFails(mInputBufferQueue)
      BY <1>6, <2>3 DEF Feed
    <3>2. Count(mInputBufferQueue, b) >= 1 => InLost(b) = 0
      BY <1>p
    <3>3. Count(mInputBufferQueue', b) + Count(enc', b) + InLost(b)'
            = Count(mInputBufferQueue, b) + Count(enc, b) + InLost(b)
      BY <1>0, <1>r, <3>1, <3>2, FeedPlaces
    <3>4. /\ Count(mInputBufferQueue', b) \in Nat /\ Count(enc', b) \in Nat
          /\ InLost(b)' \in {0, 1}
      BY <1>0, <1>r, <3>1, FeedTyped, HeldFinite DEF InLost, One
    <3> QED
      BY <1>p, <1>q, <2>1, <2>2, <3>1, <3>3, <3>4
  <2>4. CASE ~soft /\ mFramesReceived = <<>>
    <3>1. UNCHANGED <<mFramesReceived, mInputBufferQueue, enc, lost>>
      BY <1>6, <2>4 DEF Feed
    <3> QED
      BY <1>p, <1>q, <2>1, <2>2, <3>1 DEF InLost
  <2>5. CASE ~soft /\ mFramesReceived # <<>>
    <3> DEFINE q == Append(mInputBufferQueue, Head(mFramesReceived))
    <3>1. /\ mFramesReceived' = Tail(mFramesReceived)
          /\ FeedNothing(q) \/ FeedFrame(q) \/ FeedFails(q)
      BY <1>6, <2>5 DEF Feed
    <3>2. q \in Seq(Frame) /\ Head(mFramesReceived) \in Frame
          /\ Tail(mFramesReceived) \in Seq(Frame)
      BY <1>r, <2>5, HeadTail
    <3>3. Count(q, b) = Count(mInputBufferQueue, b) + One(Head(mFramesReceived).b = b)
      BY <1>r, <3>2, CountAppend
    <3>4. Count(mFramesReceived, b)
            = Count(mFramesReceived', b) + One(Head(mFramesReceived).b = b)
      BY <1>r, <2>5, <3>1, CountTail
    <3>5. One(Head(mFramesReceived).b = b) \in {0, 1} /\ Count(mFramesReceived', b) \in Nat
      BY <3>1, <3>2, HeldFinite DEF One
    <3> HIDE DEF q
    <3>6. Count(q, b) >= 1 => InLost(b) = 0
      BY <1>p, <3>3, <3>4, <3>5
    <3>7. Count(mInputBufferQueue', b) + Count(enc', b) + InLost(b)'
            = Count(q, b) + Count(enc, b) + InLost(b)
      BY <1>0, <3>1, <3>2, <3>6, FeedPlaces
    <3>8. /\ Count(mInputBufferQueue', b) \in Nat /\ Count(enc', b) \in Nat
          /\ InLost(b)' \in {0, 1}
      BY <1>0, <3>1, <3>2, FeedTyped, HeldFinite DEF InLost, One
    <3> QED
      BY <1>p, <1>q, <2>1, <2>2, <3>3, <3>4, <3>5, <3>7, <3>8
  <2> QED
    BY <2>3, <2>4, <2>5
<1>7. CASE Encode
  <2>1. InDevice(b)' = InDevice(b) /\ InCallback(b)' = InCallback(b)
        /\ InThread(b)' = InThread(b) /\ InLost(b)' = InLost(b)
        /\ UNCHANGED <<mgrQueue, mFramesReceived, mInputBufferQueue>>
    BY <1>7 DEF Encode, InDevice, InCallback, InThread, InLost
  <2>2. /\ enc # <<>> /\ enc' = Tail(enc) /\ codec = "idle"
        /\ soft => codec' = "idle"
        /\ ~soft => codec' = "return" /\ codecFrame' = Head(enc)
    BY <1>7 DEF Encode
  <2>3. Count(enc, b) = Count(enc', b) + One(Head(enc).b = b) /\ Count(enc', b) \in Nat
    BY <1>r, <2>2, CountTail, HeadTail, HeldFinite
  <2>4. InCodec(b) = 0
    BY <2>2 DEF InCodec, One
  <2>5. InCodec(b)' = One(Head(enc).b = b)
    <3>1. Head(enc) \in Frame
      BY <1>r, <2>2, HeadTail
    <3>2. CASE soft
      BY <1>0, <2>2, <3>1, <3>2, FrameFields DEF InCodec, One
    <3>3. CASE ~soft
      BY <2>2, <3>3 DEF InCodec, One
    <3> QED
      BY <3>2, <3>3
  <2>6. One(Head(enc).b = b) \in {0, 1}
    BY DEF One
  <2> QED
    BY <1>p, <1>q, <2>1, <2>3, <2>4, <2>5, <2>6
<1>8. CASE ReturnBuffer
  <2>1. InCallback(b)' = InCallback(b) /\ InThread(b)' = InThread(b) /\ InLost(b)' = InLost(b)
        /\ UNCHANGED <<mgrQueue, mFramesReceived, mInputBufferQueue, enc>>
    BY <1>8 DEF ReturnBuffer, InCallback, InThread, InLost
  <2>2. /\ codec = "return" /\ codec' = "idle" /\ mgrStarted
        /\ devFree' = devFree \union {codecFrame.b}
    BY <1>8 DEF ReturnBuffer, FreeBuffer, RunningInv
  <2>3. InCodec(b)' = 0 /\ InCodec(b) = One(codecFrame.b = b)
    BY <2>2 DEF InCodec, One
  <2>4. CASE codecFrame.b = b
    <3>1. InCodec(b) = 1 /\ InDevice(b)' = 1
      BY <2>2, <2>3, <2>4 DEF InDevice, One
    <3>2. InDevice(b) = 0
      BY <1>p, <3>1
    <3> QED
      BY <1>p, <1>q, <2>1, <2>3, <3>1, <3>2
  <2>5. CASE codecFrame.b # b
    <3>1. InCodec(b) = 0 /\ InDevice(b)' = InDevice(b)
      BY <2>2, <2>3, <2>5 DEF InDevice, One
    <3> QED
      BY <1>p, <1>q, <2>1, <2>3, <3>1
  <2> QED
    BY <2>4, <2>5
<1>9. CASE DequeueInput \/ DequeueOutput
  BY <1>9, <1>u DEF DequeueInput, DequeueOutput
<1>10. CASE VideoTest
  BY <1>10, <1>u DEF VideoTest
<1>11. CASE Packer \/ StartDevice \/ StartFails \/ StartManager \/ CreatePacker \/ StartPacker
  BY <1>11, <1>u DEF Packer, PackerTest, PackerFindsNothing, PackerReadCsd, PackerRead,
                     PackerExit, StartDevice, StartFails, StartManager, CreatePacker,
                     StartPacker
<1>12. CASE StartConvertor
  <2>1. vPc' = "dequeueIn" /\ vPc # "got"
    BY <1>12 DEF StartConvertor, ThreadInv
  <2> QED
    BY <1>12, <1>u, <2>1 DEF StartConvertor
<1>13. CASE WritePackets \/ StopPacker \/ StopConvertor \/ WaitForThread \/ WaitTimeout
  BY <1>13, <1>u DEF WritePackets, StopPacker, StopConvertor, WaitForThread, WaitTimeout
<1>14. CASE \/ DrainFrame \/ DrainFree \/ DrainEnd \/ StopManager \/ ResetManager \/ StopEncoder
            \/ Uninit
  BY <1>14 DEF DrainFrame, DrainFree, DrainEnd, StopManager, ResetManager, StopEncoder, Uninit,
               TornDown
<1>15. CASE UNCHANGED vars
  BY <1>15, <1>u DEF vars
<1> QED
  BY <1>1, <1>2, <1>3, <1>4, <1>5, <1>6, <1>7, <1>8, <1>9, <1>10, <1>11, <1>12, <1>13, <1>14,
     <1>15 DEF Next, Callback, VideoThread, Codec, Caller

----------------------------------------------------------------------------

LEMMA InitHolds == Init => IInv
<1> SUFFICES ASSUME Init PROVE IInv
  OBVIOUS
<1>0. RecordAssumption
  BY RecordAssumption
<1>1. ThreadsTyped /\ BuffersTyped
  BY DEF Init, ThreadsTyped, BuffersTyped, Starting
<1>2. FramesTyped
  BY <1>0 DEF Init, FramesTyped, RecordAssumption
<1>3. UnitsTyped
  BY <1>0 DEF Init, UnitsTyped, RecordAssumption
<1>4. HolderInv /\ ThreadInv /\ RunningInv
  BY DEF Init, HolderInv, ThreadInv, RunningInv, TornDown
<1>5. BufferInOnePlace
  <2> SUFFICES ASSUME NEW b \in Buffers PROVE Places(b) = 1
    BY DEF BufferInOnePlace
  <2>1. /\ InDevice(b) = 1 /\ InCallback(b) = 0 /\ InThread(b) = 0 /\ InCodec(b) = 0
        /\ InLost(b) = 0
    BY DEF Init, InDevice, InCallback, InThread, InCodec, InLost, One
  <2>2. /\ Count(mgrQueue, b) = 0 /\ Count(mFramesReceived, b) = 0
        /\ Count(mInputBufferQueue, b) = 0 /\ Count(enc, b) = 0
    BY CountEmpty DEF Init
  <2> QED
    BY <1>2, <2>1, <2>2, PlacesSum
<1> QED
  BY <1>1, <1>2, <1>3, <1>4, <1>5 DEF IInv, TypeOK

(* The invariant of the buffers' holders, the thread and the running       *)
(* manager is inductive, and so holds in every state.                      *)
THEOREM Invariance == Spec => []IInv
<1>1. IInv /\ [Next]_vars => IInv'
  <2> SUFFICES ASSUME IInv, [Next]_vars PROVE IInv'
    OBVIOUS
  <2>1. TypeOK' /\ HolderInv' /\ ThreadInv' /\ RunningInv'
    BY TypeStep, HolderStep, ThreadStep, RunningStep DEF IInv
  <2>2. BufferInOnePlace'
    <3> SUFFICES ASSUME cPc' \notin TornDown, NEW b \in Buffers PROVE Places(b)' = 1
      BY DEF BufferInOnePlace
    <3>1. cPc \notin TornDown
      BY TornDownStays
    <3>2. Places(b) = 1
      BY <3>1 DEF IInv, BufferInOnePlace
    <3> QED
      BY <3>1, <3>2, PlacesStep DEF IInv
  <2> QED
    BY <2>1, <2>2 DEF IInv
<1> QED
  BY InitHolds, <1>1, PTL DEF Spec

(* Type correctness of the recording: every queue holds frames, those of   *)
(* the hardware path with a buffer and those of the software path without. *)
THEOREM TypeCorrect == Spec => []TypeOK
<1>1. IInv => TypeOK
  BY DEF IInv
<1> QED
  BY Invariance, <1>1, PTL

(* Until stop gives buffers back, each buffer of the device is in exactly  *)
(* one place, however the callback, the convertor's thread and the codec   *)
(* interleave, and however many buffers there are.                         *)
THEOREM BufferAlwaysInOnePlace == Spec => []BufferInOnePlace
<1>1. IInv => BufferInOnePlace
  BY DEF IInv
<1> QED
  BY Invariance, <1>1, PTL

----------------------------------------------------------------------------
(* The file has no gap: all queues from the device to the file as one      *)
(* line of numbers.                                                        *)

(* The numbers of the frames in a queue.                                   *)
Nums(q) == [i \in 1..Len(q) |-> q[i].n]

(* The way of a frame from the device to the file, with the file in front. *)
(* The last place holds the number the next frame will get.                *)
Place == 1..10
Line == << written, tspOut, escOut, encOut, Nums(enc), Nums(mInputBufferQueue),
           Nums(mFramesReceived), IF vPc = "got" THEN <<vFrame.n>> ELSE <<>>, Nums(mgrQueue),
           <<taken + 1>> >>

IsLine(P) == P \in [Place -> Seq(Nat)]

(* What is further ahead on the line P has the smaller number.             *)
Ordered(P) ==
  \A k, l \in Place : \A i \in 1..Len(P[k]), j \in 1..Len(P[l]) :
    k < l \/ (k = l /\ i < j) => P[k][i] < P[l][j]

(* Whether n is in one of the first c places of the line P.                *)
On(P, c, n) == \E k \in Place : k <= c /\ \E i \in 1..Len(P[k]) : P[k][i] = n

(* Nothing is missing in front of what is in the first c places, but what  *)
(* was refused.                                                            *)
NoGap(P, c, refused) ==
  \A m, n \in Nat : On(P, c, m) /\ 0 < n /\ n < m => On(P, c, n) \/ n \in refused

(* From P to Q the first number in place l goes to the end of place k.     *)
Moves(P, Q, k, l) ==
  /\ k < l /\ P[l] # <<>>
  /\ Q[l] = Tail(P[l]) /\ Q[k] = Append(P[k], Head(P[l]))
  /\ \A a \in Place : a # k /\ a # l => Q[a] = P[a]
  /\ \A a \in Place : k < a /\ a < l => P[a] = <<>>

(* From P to Q places lose their first number, or all of theirs.           *)
Drops(P, Q) ==
  \A a \in Place : Q[a] = P[a] \/ Q[a] = <<>> \/ (P[a] # <<>> /\ Q[a] = Tail(P[a]))

(* From P to Q only place l loses its first number.                        *)
LosesHead(P, Q, l) ==
  /\ P[l] # <<>> /\ Q[l] = Tail(P[l])
  /\ \A a \in Place : a # l => Q[a] = P[a]

(* Where the numbers of Q were before the move.                            *)
From(P, Q, k, l) ==
  \A a \in Place : \A i \in 1..Len(Q[a]) :
    \/ a # l /\ i \in 1..Len(P[a]) /\ Q[a][i] = P[a][i]
    \/ a = l /\ i + 1 \in 1..Len(P[l]) /\ Q[a][i] = P[l][i + 1]
    \/ a = k /\ i = Len(P[k]) + 1 /\ 1 \in 1..Len(P[l]) /\ Q[a][i] = P[l][1]

LEMMA MovedFrom ==
  ASSUME NEW P, NEW Q, IsLine(P), IsLine(Q),
         NEW k \in Place, NEW l \in Place, Moves(P, Q, k, l)
  PROVE  From(P, Q, k, l)
<1> SUFFICES ASSUME NEW a \in Place, NEW i \in 1..Len(Q[a])
             PROVE  \/ a # l /\ i \in 1..Len(P[a]) /\ Q[a][i] = P[a][i]
                    \/ a = l /\ i + 1 \in 1..Len(P[l]) /\ Q[a][i] = P[l][i + 1]
                    \/ a = k /\ i = Len(P[k]) + 1 /\ 1 \in 1..Len(P[l]) /\ Q[a][i] = P[l][1]
  BY DEF From
<1>0. /\ P[a] \in Seq(Nat) /\ P[k] \in Seq(Nat) /\ P[l] \in Seq(Nat) /\ k # l
  BY DEF Moves, Place, IsLine
<1>1. CASE a = l
  <2>1. Q[a] = Tail(P[l]) /\ P[l] # <<>>
    BY <1>1 DEF Moves
  <2> QED
    BY <1>0, <1>1, <2>1
<1>2. CASE a = k
  <2>1. Q[a] = Append(P[k], Head(P[l])) /\ P[l] # <<>>
    BY <1>2 DEF Moves
  <2> QED
    BY <1>0, <1>2, <2>1
<1>3. CASE a # k /\ a # l
  BY <1>3 DEF Moves
<1> QED
  BY <1>1, <1>2, <1>3

LEMMA MoveKeepsOrder ==
  ASSUME NEW P, NEW Q, IsLine(P), IsLine(Q),
         NEW k \in Place, NEW l \in Place, Moves(P, Q, k, l), Ordered(P)
  PROVE  Ordered(Q)
<1> SUFFICES ASSUME NEW a \in Place, NEW b \in Place,
                    NEW i \in 1..Len(Q[a]), NEW j \in 1..Len(Q[b]),
                    a < b \/ (a = b /\ i < j)
             PROVE  Q[a][i] < Q[b][j]
  BY DEF Ordered
<1>p. /\ Len(P[a]) \in Nat /\ Len(P[b]) \in Nat /\ Len(P[k]) \in Nat /\ Len(P[l]) \in Nat
      /\ i \in Int /\ j \in Int
  BY DEF IsLine
<1>q. a \in Int /\ b \in Int /\ k \in Int /\ l \in Int /\ k < l
  BY DEF Moves, Place
<1>0. /\ Len(P[a]) \in Nat /\ Len(P[b]) \in Nat /\ Len(P[k]) \in Nat /\ Len(P[l]) \in Nat
      /\ a \in Int /\ b \in Int /\ k \in Int /\ l \in Int /\ i \in Int /\ j \in Int /\ k < l
  BY <1>p, <1>q
<1>1. \A x, y \in Place : \A s \in 1..Len(P[x]), t \in 1..Len(P[y]) :
        x < y \/ (x = y /\ s < t) => P[x][s] < P[y][t]
  BY DEF Ordered
<1>m. From(P, Q, k, l)
  BY MovedFrom
<1>a. \/ a # l /\ i \in 1..Len(P[a]) /\ Q[a][i] = P[a][i]
      \/ a = l /\ i + 1 \in 1..Len(P[l]) /\ Q[a][i] = P[l][i + 1]
      \/ a = k /\ i = Len(P[k]) + 1 /\ 1 \in 1..Len(P[l]) /\ Q[a][i] = P[l][1]
  BY <1>m DEF From
<1>b. \/ b # l /\ j \in 1..Len(P[b]) /\ Q[b][j] = P[b][j]
      \/ b = l /\ j + 1 \in 1..Len(P[l]) /\ Q[b][j] = P[l][j + 1]
      \/ b = k /\ j = Len(P[k]) + 1 /\ 1 \in 1..Len(P[l]) /\ Q[b][j] = P[l][1]
  BY <1>m DEF From
<1>2. CASE a # l /\ i \in 1..Len(P[a]) /\ Q[a][i] = P[a][i]
  <2>1. CASE b # l /\ j \in 1..Len(P[b]) /\ Q[b][j] = P[b][j]
    BY <1>1, <1>2, <2>1
  <2>2. CASE b = l /\ j + 1 \in 1..Len(P[l]) /\ Q[b][j] = P[l][j + 1]
    BY <1>0, <1>1, <1>2, <2>2
  <2>3. CASE b = k /\ j = Len(P[k]) + 1 /\ 1 \in 1..Len(P[l]) /\ Q[b][j] = P[l][1]
    <3>1. a < l
      BY <1>0, <2>3
    <3> QED
      BY <1>1, <1>2, <2>3, <3>1
  <2> QED
    BY <1>b, <2>1, <2>2, <2>3
<1>3. CASE a = l /\ i + 1 \in 1..Len(P[l]) /\ Q[a][i] = P[l][i + 1]
  <2>1. CASE b # l /\ j \in 1..Len(P[b]) /\ Q[b][j] = P[b][j]
    BY <1>0, <1>1, <1>3, <2>1
  <2>2. CASE b = l /\ j + 1 \in 1..Len(P[l]) /\ Q[b][j] = P[l][j + 1]
    BY <1>0, <1>1, <1>3, <2>2
  <2>3. CASE b = k
    BY <1>0, <1>3, <2>3
  <2> QED
    BY <1>b, <2>1, <2>2, <2>3
<1>4. CASE a = k /\ i = Len(P[k]) + 1 /\ 1 \in 1..Len(P[l]) /\ Q[a][i] = P[l][1]
  <2>1. CASE b # l /\ j \in 1..Len(P[b]) /\ Q[b][j] = P[b][j]
    <3>1. a < b
      BY <1>0, <1>4, <2>1
    <3>2. ~(b < l)
      <4>1. P[b] # <<>>
        BY <2>1
      <4> QED
        BY <1>4, <3>1, <4>1 DEF Moves
    <3>3. l < b
      BY <1>0, <2>1, <3>2
    <3> QED
      BY <1>1, <1>4, <2>1, <3>3
  <2>2. CASE b = l /\ j + 1 \in 1..Len(P[l]) /\ Q[b][j] = P[l][j + 1]
    BY <1>0, <1>1, <1>4, <2>2
  <2>3. CASE b = k /\ j = Len(P[k]) + 1
    BY <1>0, <1>4, <2>3
  <2> QED
    BY <1>b, <2>1, <2>2, <2>3
<1> QED
  BY <1>a, <1>2, <1>3, <1>4

LEMMA DropKeepsOrder ==
  ASSUME NEW P, NEW Q, IsLine(P), IsLine(Q), Drops(P, Q), Ordered(P)
  PROVE  Ordered(Q) /\ \A c, n : On(Q, c, n) => On(P, c, n)
<1>1. ASSUME NEW a \in Place, NEW i \in 1..Len(Q[a])
      PROVE  \/ i \in 1..Len(P[a]) /\ Q[a] = P[a] /\ Q[a][i] = P[a][i]
             \/ i + 1 \in 1..Len(P[a]) /\ Q[a] # P[a] /\ Q[a][i] = P[a][i + 1]
  <2>0. P[a] \in Seq(Nat)
    BY DEF IsLine
  <2>1. CASE Q[a] = P[a]
    BY <1>1, <2>1
  <2>2. CASE Q[a] = <<>>
    BY <1>1, <2>2
  <2>3. CASE P[a] # <<>> /\ Q[a] = Tail(P[a])
    <3>1. Len(Q[a]) = Len(P[a]) - 1 /\ Len(P[a]) \in Nat
      BY <2>0, <2>3
    <3>2. Q[a] # P[a]
      BY <3>1
    <3>3. i + 1 \in 1..Len(P[a]) /\ Q[a][i] = P[a][i + 1]
      BY <1>1, <2>0, <2>3
    <3> QED
      BY <3>2, <3>3
  <2> QED
    BY <2>1, <2>2, <2>3 DEF Drops
<1>2. ASSUME NEW a \in Place, NEW b \in Place, NEW i \in 1..Len(Q[a]), NEW j \in 1..Len(Q[b]),
             a < b \/ (a = b /\ i < j)
      PROVE  Q[a][i] < Q[b][j]
  <2>c. Len(P[a]) \in Nat /\ Len(P[b]) \in Nat /\ i \in Int /\ j \in Int
    BY DEF IsLine
  <2>0. \A x, y \in Place : \A s \in 1..Len(P[x]), t \in 1..Len(P[y]) :
          x < y \/ (x = y /\ s < t) => P[x][s] < P[y][t]
    BY DEF Ordered
  <2>1. \/ i \in 1..Len(P[a]) /\ Q[a] = P[a] /\ Q[a][i] = P[a][i]
        \/ i + 1 \in 1..Len(P[a]) /\ Q[a] # P[a] /\ Q[a][i] = P[a][i + 1]
    BY <1>1
  <2>2. \/ j \in 1..Len(P[b]) /\ Q[b] = P[b] /\ Q[b][j] = P[b][j]
        \/ j + 1 \in 1..Len(P[b]) /\ Q[b] # P[b] /\ Q[b][j] = P[b][j + 1]
    BY <1>1
  <2>3. CASE a < b
    BY <2>c, <2>0, <2>1, <2>2, <2>3
  <2>4. CASE a = b /\ i < j
    BY <2>c, <2>0, <2>1, <2>2, <2>4
  <2> QED
    BY <1>2, <2>3, <2>4
<1>3. ASSUME NEW c, NEW n, On(Q, c, n) PROVE On(P, c, n)
  <2>1. PICK a \in Place : a <= c /\ \E i \in 1..Len(Q[a]) : Q[a][i] = n
    BY <1>3 DEF On
  <2>2. PICK i \in 1..Len(Q[a]) : Q[a][i] = n
    BY <2>1
  <2>3. \E s \in 1..Len(P[a]) : P[a][s] = n
    BY <1>1, <2>2
  <2> QED
    BY <2>1, <2>3 DEF On
<1> QED
  BY <1>2, <1>3 DEF Ordered

(* A move between two places in front of c, or behind it.                  *)
LEMMA MoveKeepsOn ==
  ASSUME NEW P, NEW Q, IsLine(P), IsLine(Q),
         NEW k \in Place, NEW l \in Place, Moves(P, Q, k, l),
         NEW c \in Place, l <= c \/ c < k
  PROVE  \A n : On(Q, c, n) <=> On(P, c, n)
<1>p. P[l] \in Seq(Nat) /\ P[k] \in Seq(Nat)
  BY DEF IsLine
<1>0. k \in Int /\ l \in Int /\ c \in Int /\ k < l
  BY DEF Moves, Place
<1>m. From(P, Q, k, l)
  BY MovedFrom
<1>1. ASSUME NEW n, On(Q, c, n) PROVE On(P, c, n)
  <2>1. PICK a \in Place : a <= c /\ \E i \in 1..Len(Q[a]) : Q[a][i] = n
    BY <1>1 DEF On
  <2>2. PICK i \in 1..Len(Q[a]) : Q[a][i] = n
    BY <2>1
  <2>3. \/ \E s \in 1..Len(P[a]) : P[a][s] = n
        \/ a = k /\ \E s \in 1..Len(P[l]) : P[l][s] = n
    BY <1>m, <2>2 DEF From
  <2>4. CASE \E s \in 1..Len(P[a]) : P[a][s] = n
    BY <2>1, <2>4 DEF On
  <2>5. CASE a = k /\ \E s \in 1..Len(P[l]) : P[l][s] = n
    <3>1. l <= c
      BY <1>0, <2>1, <2>5
    <3> QED
      BY <2>5, <3>1 DEF On
  <2> QED
    BY <2>3, <2>4, <2>5
<1>2. ASSUME NEW n, On(P, c, n) PROVE On(Q, c, n)
  <2>1. PICK a \in Place : a <= c /\ \E i \in 1..Len(P[a]) : P[a][i] = n
    BY <1>2 DEF On
  <2>2. PICK i \in 1..Len(P[a]) : P[a][i] = n
    BY <2>1
  <2>3. CASE a # k /\ a # l
    <3>1. Q[a] = P[a]
      BY <2>3 DEF Moves
    <3> QED
      BY <2>1, <2>2, <3>1 DEF On
  <2>4. CASE a = k
    <3>1. Q[k] = Append(P[k], Head(P[l])) /\ i \in 1..Len(P[k])
      BY <2>2, <2>4 DEF Moves
    <3>2. i \in 1..Len(Q[k]) /\ Q[k][i] = n
      BY <1>p, <2>2, <2>4, <3>1
    <3> QED
      BY <2>1, <2>4, <3>2 DEF On
  <2>5. CASE a = l
    <3>1. /\ Q[k] = Append(P[k], Head(P[l])) /\ Q[l] = Tail(P[l]) /\ P[l] # <<>>
      BY DEF Moves
    <3>2. CASE i = 1
      <4>1. Len(P[k]) + 1 \in 1..Len(Q[k]) /\ Q[k][Len(P[k]) + 1] = n
        BY <1>p, <2>2, <2>5, <3>1, <3>2
      <4>2. k <= c
        BY <1>0, <2>1, <2>5
      <4> QED
        BY <4>1, <4>2 DEF On
    <3>3. CASE i # 1
      <4>1. i - 1 \in 1..Len(Q[l]) /\ Q[l][i - 1] = n
        BY <1>p, <2>2, <2>5, <3>1, <3>3
      <4> QED
        BY <2>1, <2>5, <4>1 DEF On
    <3> QED
      BY <3>2, <3>3
  <2> QED
    BY <2>3, <2>4, <2>5
<1> QED
  BY <1>1, <1>2

(* What has no gap has none in its front part.                             *)
LEMMA FrontHasNoGap ==
  ASSUME NEW P, IsLine(P), Ordered(P), NEW c \in Place, NEW d \in Place, d <= c,
         NEW refused, NoGap(P, c, refused)
  PROVE  NoGap(P, d, refused)
<1> SUFFICES ASSUME NEW m \in Nat, NEW n \in Nat, On(P, d, m), 0 < n, n < m, n \notin refused
             PROVE  On(P, d, n)
  BY DEF NoGap
<1>1. PICK a \in Place : a <= d /\ \E i \in 1..Len(P[a]) : P[a][i] = m
  BY DEF On
<1>2. PICK i \in 1..Len(P[a]) : P[a][i] = m
  BY <1>1
<1>3. On(P, c, m)
  <2>1. a <= c
    BY <1>1 DEF Place
  <2> QED
    BY <1>2, <2>1 DEF On
<1>4. On(P, c, n)
  BY <1>3 DEF NoGap
<1>5. PICK b \in Place : b <= c /\ \E j \in 1..Len(P[b]) : P[b][j] = n
  BY <1>4 DEF On
<1>6. PICK j \in 1..Len(P[b]) : P[b][j] = n
  BY <1>5
<1>7. ~(a < b)
  BY <1>2, <1>6 DEF Ordered
<1>8. b <= d
  BY <1>1, <1>7 DEF Place
<1> QED
  BY <1>6, <1>8 DEF On

LEMMA GapKept ==
  ASSUME NEW P, NEW Q, NEW c, NEW refused, NEW more, NoGap(P, c, refused),
         \A n \in Nat : On(Q, c, n) => On(P, c, n),
         \A n \in Nat : On(P, c, n) => On(Q, c, n) \/ n = 0 \/ n \in more,
         refused \subseteq more
  PROVE  NoGap(Q, c, more)
BY DEF NoGap

LEMMA ElementOf == ASSUME NEW q \in Seq(Nat), NEW i \in 1..Len(q) PROVE q[i] \in Nat
OBVIOUS

LEMMA LessThanNext ==
  ASSUME NEW u \in Nat, NEW v, NEW x \in Nat, u < x, v = x \/ v = x + 1
  PROVE  u < v
OBVIOUS

LEMMA OrderedAt ==
  ASSUME NEW P, Ordered(P), NEW k \in Place, NEW l \in Place, NEW i \in 1..Len(P[k]),
         NEW j \in 1..Len(P[l]), k < l
  PROVE  P[k][i] < P[l][j]
BY DEF Ordered

LEMMA OnAt ==
  ASSUME NEW P, NEW c, NEW a \in Place, a <= c, NEW i \in 1..Len(P[a]), NEW n, P[a][i] = n
  PROVE  On(P, c, n)
BY DEF On

LEMMA MoveStep ==
  ASSUME NEW P, NEW Q, IsLine(P), IsLine(Q),
         NEW k \in Place, NEW l \in Place, Moves(P, Q, k, l), Ordered(P),
         NEW c \in Place, l <= c \/ c < k, NEW refused, NoGap(P, c, refused)
  PROVE  Ordered(Q) /\ NoGap(Q, c, refused)
<1>1. Ordered(Q)
  BY MoveKeepsOrder
<1>2. \A n : On(Q, c, n) <=> On(P, c, n)
  BY MoveKeepsOn
<1> QED
  BY <1>1, <1>2 DEF NoGap

(* The number x needs no place any more: it is refused, or 0.              *)
Released(x, refused, more) == refused \subseteq more /\ x \in more \union {0}

(* The head of place l goes, and was refused or is the configuration.      *)
LEMMA HeadGone ==
  ASSUME NEW P, NEW Q, IsLine(P), IsLine(Q), NEW l \in Place,
         LosesHead(P, Q, l), Ordered(P), NEW c \in Place, NEW refused, NEW more,
         NoGap(P, c, refused),
         Released(Head(P[l]), refused, more)
  PROVE  /\ Ordered(Q) /\ NoGap(Q, c, more)
         /\ \A n : On(Q, 10, n) => On(P, 10, n)
         /\ \A n : On(P, 10, n) => On(Q, 10, n) \/ n = Head(P[l])
<1>0. P[l] # <<>> /\ Q[l] = Tail(P[l]) /\ \A a \in Place : a # l => Q[a] = P[a]
  BY DEF LosesHead
<1>1. Drops(P, Q)
  BY <1>0 DEF Drops
<1>2. Ordered(Q) /\ \A d, n : On(Q, d, n) => On(P, d, n)
  BY <1>1, DropKeepsOrder
<1>3. ASSUME NEW d \in Place, NEW n, On(P, d, n) PROVE On(Q, d, n) \/ n = Head(P[l])
  <2>1. PICK a \in Place : a <= d /\ \E i \in 1..Len(P[a]) : P[a][i] = n
    BY <1>3 DEF On
  <2>2. PICK i \in 1..Len(P[a]) : P[a][i] = n
    BY <2>1
  <2>3. CASE a # l
    BY <1>0, <2>1, <2>2, <2>3 DEF On
  <2>4. CASE a = l
    <3>0. P[l] \in Seq(Nat)
      BY DEF IsLine
    <3>1. CASE i = 1
      BY <2>2, <2>4, <3>0, <3>1
    <3>2. CASE i # 1
      <4>1. i - 1 \in 1..Len(Q[l]) /\ Q[l][i - 1] = n
        BY <1>0, <2>2, <2>4, <3>0, <3>2
      <4> QED
        BY <2>1, <2>4, <4>1 DEF On
    <3> QED
      BY <3>1, <3>2
  <2> QED
    BY <2>3, <2>4
<1>4. NoGap(Q, c, more)
  <2>1. \A n \in Nat : On(P, c, n) => On(Q, c, n) \/ n = 0 \/ n \in more
    BY <1>3 DEF Released
  <2> QED
    BY <1>2, <2>1, GapKept DEF Released
<1>5. 10 \in Place
  BY DEF Place
<1> QED
  BY <1>2, <1>3, <1>4, <1>5

(* The number h left the line P behind the file, and was taken.            *)
Left(P, h) ==
  /\ ~On(P, 10, h)
  /\ \A i \in 1..Len(P[1]) : P[1][i] < h
  /\ h < P[10][1]

LEMMA TailAt ==
  ASSUME NEW q \in Seq(Nat), q # <<>>, NEW i \in 1..Len(Tail(q))
  PROVE  i + 1 \in 1..Len(q) /\ Tail(q)[i] = q[i + 1] /\ 1 < i + 1
OBVIOUS

(* A number that goes as the head of a place was on the line only there.   *)
LEMMA HeadHasLeft ==
  ASSUME NEW P, NEW Q, IsLine(P), IsLine(Q), NEW l \in Place, l # 1, l # 10,
         LosesHead(P, Q, l), Ordered(P), Len(P[10]) = 1
  PROVE  Left(Q, Head(P[l]))
<1>0. P[l] # <<>> /\ Q[l] = Tail(P[l]) /\ \A a \in Place : a # l => Q[a] = P[a]
  BY DEF LosesHead
<1>1. 1 \in Place /\ 10 \in Place /\ 1 < l /\ l < 10 /\ l \in Int
  BY DEF Place
<1>2. P[l] \in Seq(Nat) /\ 1 \in 1..Len(P[l]) /\ P[l][1] = Head(P[l]) /\ Len(P[l]) \in Nat
  BY <1>0 DEF IsLine
<1>3. Head(P[l]) \in Nat
  BY <1>2
<1>4. \A a \in Place : \A i \in 1..Len(P[a]) : P[a][i] \in Nat
  BY ElementOf DEF IsLine
<1>5. ASSUME NEW a \in Place, NEW i \in 1..Len(Q[a]), Q[a][i] = Head(P[l]) PROVE FALSE
  <2>1. CASE a = l
    <3>1. i + 1 \in 1..Len(P[l]) /\ Q[l][i] = P[l][i + 1] /\ 1 < i + 1
      <4>1. i \in 1..Len(Tail(P[l])) /\ Q[l] = Tail(P[l])
        BY <1>0, <2>1
      <4> QED
        BY <1>0, <1>2, <4>1, TailAt
    <3>2. P[l][1] < P[l][i + 1]
      BY <1>2, <3>1 DEF Ordered
    <3> QED
      BY <1>2, <1>3, <1>5, <2>1, <3>1, <3>2
  <2>2. CASE a # l
    <3>1. Q[a] = P[a] /\ i \in 1..Len(P[a]) /\ P[a][i] = P[l][1]
      BY <1>0, <1>2, <1>5, <2>2
    <3>2. a < l \/ l < a
      BY <1>1, <2>2 DEF Place
    <3>3. P[a][i] < P[l][1] \/ P[l][1] < P[a][i]
      BY <1>2, <3>1, <3>2, OrderedAt
    <3> QED
      BY <1>2, <1>3, <3>1, <3>3
  <2> QED
    BY <2>1, <2>2
<1>6. ~On(Q, 10, Head(P[l]))
  BY <1>5 DEF On
<1>7. \A i \in 1..Len(Q[1]) : Q[1][i] < Head(P[l])
  <2> SUFFICES ASSUME NEW i \in 1..Len(Q[1]) PROVE Q[1][i] < Head(P[l])
    OBVIOUS
  <2>1. Q[1] = P[1]
    BY <1>0, <1>1
  <2> QED
    BY <1>1, <1>2, <2>1, OrderedAt
<1>8. Head(P[l]) < Q[10][1]
  <2>1. Q[10] = P[10] /\ 1 \in 1..Len(P[10])
    BY <1>0, <1>1
  <2> QED
    BY <1>1, <1>2, <2>1, OrderedAt
<1> QED
  BY <1>6, <1>7, <1>8 DEF Left

(* Only places behind the c-th lose something.                             *)
LEMMA DropsBehind ==
  ASSUME NEW P, NEW Q, IsLine(P), IsLine(Q), NEW c \in Place,
         Drops(P, Q), \A a \in Place : a <= c => Q[a] = P[a], Ordered(P),
         NEW refused, NoGap(P, c, refused)
  PROVE  Ordered(Q) /\ NoGap(Q, c, refused)
<1>1. Ordered(Q)
  BY DropKeepsOrder
<1>2. \A n : On(Q, c, n) <=> On(P, c, n)
  BY DEF On
<1> QED
  BY <1>1, <1>2 DEF NoGap

(* The next number x is taken.                                             *)
LEMMA NumberTaken ==
  ASSUME NEW P, NEW Q, IsLine(P), IsLine(Q), NEW x \in Nat,
         P[10] = <<x>>, Q[10] = <<x + 1>>, Q[9] = Append(P[9], x),
         \A a \in Place : a < 9 => Q[a] = P[a],
         Ordered(P), NEW c \in {1, 7, 10}, NEW refused, NoGap(P, c, refused)
  PROVE  /\ Ordered(Q) /\ NoGap(Q, c, refused)
         /\ On(Q, 10, 0) => On(P, 10, 0)
         /\ On(P, 10, 0) => On(Q, 10, 0)
<1>p. 9 \in Place /\ 10 \in Place /\ 9 <= 10 /\ 10 <= 10
  BY DEF Place
<1>z. \A a \in Place : a \in Int /\ (a < 9 \/ a = 9 \/ a = 10)
  BY DEF Place
<1>y. /\ 1 \in 1..Len(P[10]) /\ P[10][1] = x
      /\ 1 \in 1..Len(Q[10]) /\ Q[10][1] = x + 1 /\ Len(Q[10]) = 1
  OBVIOUS
<1>q. P[9] \in Seq(Nat) /\ Len(P[9]) \in Nat
  BY <1>p DEF IsLine
<1>r. \A k, l \in Place : \A i \in 1..Len(P[k]), j \in 1..Len(P[l]) :
        k < l \/ (k = l /\ i < j) => P[k][i] < P[l][j]
  BY DEF Ordered
(* Every number but the last two is where it was, and below x.             *)
<1>1. ASSUME NEW a \in Place, NEW i \in 1..Len(Q[a])
      PROVE  \/ a < 10 /\ i \in 1..Len(P[a]) /\ Q[a][i] = P[a][i] /\ Q[a][i] < x
             \/ a = 9 /\ i = Len(P[9]) + 1 /\ Q[a][i] = x
             \/ a = 10 /\ i = 1 /\ Q[a][i] = x + 1
  <2>1. CASE a < 9
    <3>1. i \in 1..Len(P[a]) /\ Q[a][i] = P[a][i]
      BY <1>1, <2>1
    <3>2. a < 10
      BY <1>z, <2>1
    <3>3. P[a][i] < P[10][1]
      BY <1>p, <1>y, <3>1, <3>2 DEF Ordered
    <3> QED
      BY <1>y, <3>1, <3>2, <3>3
  <2>2. CASE a = 9
    <3>1. CASE i = Len(P[9]) + 1
      BY <1>q, <2>2, <3>1
    <3>2. CASE i # Len(P[9]) + 1
      <4>1. i \in 1..Len(P[9]) /\ Q[9][i] = P[9][i]
        BY <1>q, <1>1, <2>2, <3>2
      <4>2. P[9][i] < P[10][1]
        <5>1. 9 < 10
          OBVIOUS
        <5> QED
          BY <1>p, <1>y, <4>1, <5>1, OrderedAt
      <4>3. Q[a][i] = P[9][i] /\ i \in 1..Len(P[a])
        BY <2>2, <4>1
      <4>4. Q[a][i] < x
        BY <1>y, <4>2, <4>3
      <4> QED
        BY <2>2, <4>3, <4>4
    <3> QED
      BY <3>1, <3>2
  <2>3. CASE a = 10
    <3>1. i \in 1..1
      BY <1>1, <1>y, <2>3
    <3> QED
      BY <1>y, <2>3, <3>1
  <2> QED
    BY <1>z, <2>1, <2>2, <2>3
<1>2. Ordered(Q)
  <2> SUFFICES ASSUME NEW a \in Place, NEW b \in Place,
                      NEW i \in 1..Len(Q[a]), NEW j \in 1..Len(Q[b]),
                      a < b \/ (a = b /\ i < j)
               PROVE  Q[a][i] < Q[b][j]
    BY DEF Ordered
  <2>0. a \in Int /\ b \in Int /\ i \in Int /\ j \in Int
    BY <1>z
  <2>a. \/ a < 10 /\ i \in 1..Len(P[a]) /\ Q[a][i] = P[a][i] /\ Q[a][i] < x
        \/ a = 9 /\ i = Len(P[9]) + 1 /\ Q[a][i] = x
        \/ a = 10 /\ i = 1 /\ Q[a][i] = x + 1
    BY <1>1
  <2>b. \/ b < 10 /\ j \in 1..Len(P[b]) /\ Q[b][j] = P[b][j] /\ Q[b][j] < x
        \/ b = 9 /\ j = Len(P[9]) + 1 /\ Q[b][j] = x
        \/ b = 10 /\ j = 1 /\ Q[b][j] = x + 1
    BY <1>1
  <2>1. CASE i \in 1..Len(P[a]) /\ Q[a][i] = P[a][i] /\ j \in 1..Len(P[b]) /\ Q[b][j] = P[b][j]
    BY <1>r, <2>1
  <2>2. CASE i \in 1..Len(P[a]) /\ Q[a][i] = P[a][i] /\ Q[a][i] < x /\ Q[b][j] \in {x, x + 1}
    <3>1. P[a] \in Seq(Nat)
      BY DEF IsLine
    <3>2. Q[a][i] \in Nat
      BY <2>2, <3>1, ElementOf
    <3>3. Q[b][j] = x \/ Q[b][j] = x + 1
      BY <2>2
    <3> QED
      BY <2>2, <3>2, <3>3, LessThanNext
  <2>3. CASE a = 9 /\ i = Len(P[9]) + 1 /\ Q[a][i] = x
    BY <1>q, <2>0, <2>3, <2>b
  <2>4. CASE a = 10 /\ i = 1
    BY <2>0, <2>4, <2>b
  <2> QED
    BY <2>a, <2>b, <2>1, <2>2, <2>3, <2>4
<1>3. ASSUME NEW n PROVE On(Q, 10, n) <=> On(P, 10, n) \/ n = x + 1
  <2>1. ASSUME On(Q, 10, n) PROVE On(P, 10, n) \/ n = x + 1
    <3>1. PICK a \in Place : a <= 10 /\ \E i \in 1..Len(Q[a]) : Q[a][i] = n
      BY <2>1 DEF On
    <3>2. PICK i \in 1..Len(Q[a]) : Q[a][i] = n
      BY <3>1
    <3>3. CASE i \in 1..Len(P[a]) /\ Q[a][i] = P[a][i]
      BY <3>1, <3>2, <3>3 DEF On
    <3>4. CASE Q[a][i] = x
      <4>1. 1 \in 1..Len(P[10]) /\ P[10][1] = n
        BY <1>y, <3>2, <3>4
      <4> QED
        BY <1>p, <4>1, OnAt
    <3> QED
      BY <1>1, <3>2, <3>3, <3>4
  <2>2. ASSUME On(P, 10, n) PROVE On(Q, 10, n)
    <3>1. PICK a \in Place : a <= 10 /\ \E i \in 1..Len(P[a]) : P[a][i] = n
      BY <2>2 DEF On
    <3>2. PICK i \in 1..Len(P[a]) : P[a][i] = n
      BY <3>1
    <3>3. CASE a < 9
      BY <3>1, <3>2, <3>3 DEF On
    <3>4. CASE a = 9
      <4>1. i \in 1..Len(Q[9]) /\ Q[9][i] = n
        BY <1>q, <3>2, <3>4
      <4> QED
        BY <1>p, <4>1, OnAt
    <3>5. CASE a = 10
      <4>1. n = x
        BY <1>y, <3>2, <3>5
      <4>2. Len(P[9]) + 1 \in 1..Len(Q[9]) /\ Q[9][Len(P[9]) + 1] = n
        BY <1>q, <4>1
      <4> QED
        BY <1>p, <4>2, OnAt
    <3> QED
      BY <1>z, <3>3, <3>4, <3>5
  <2>3. ASSUME n = x + 1 PROVE On(Q, 10, n)
    <3>1. 1 \in 1..Len(Q[10]) /\ Q[10][1] = n
      BY <1>y, <2>3
    <3> QED
      BY <1>p, <3>1, OnAt
  <2> QED
    BY <2>1, <2>2, <2>3
<1>4. NoGap(Q, c, refused)
  <2>1. CASE c \in {1, 7}
    <3>1. \A a \in Place : a <= c => Q[a] = P[a]
      BY <1>z, <2>1
    <3>2. \A n : On(Q, c, n) <=> On(P, c, n)
      BY <3>1 DEF On
    <3> QED
      BY <3>2 DEF NoGap
  <2>2. CASE c = 10
    <3> SUFFICES ASSUME NEW m \in Nat, NEW n \in Nat, On(Q, 10, m), 0 < n, n < m, n \notin refused
                 PROVE  On(P, 10, n)
      BY <1>3, <2>2 DEF NoGap
    <3>1. CASE On(P, 10, m)
      BY <2>2, <3>1 DEF NoGap
    <3>2. CASE m = x + 1
      <4>1. On(P, 10, x)
        BY <1>p, <1>y, OnAt
      <4>2. n = x \/ n < x
        BY <3>2
      <4> QED
        BY <2>2, <4>1, <4>2 DEF NoGap
    <3> QED
      BY <1>3, <3>1, <3>2
  <2> QED
    BY <2>1, <2>2
<1> QED
  BY <1>2, <1>3, <1>4

(* The configuration comes first.                                          *)
LEMMA ConfigurationFirst ==
  ASSUME NEW P, NEW Q, IsLine(P), IsLine(Q),
         \A a \in Place : a <= 4 => P[a] = <<>>, Q[4] = << 0 >>,
         \A a \in Place : a # 4 => Q[a] = P[a],
         Ordered(P), ~On(P, 10, 0), NEW refused, NoGap(P, 10, refused)
  PROVE  Ordered(Q) /\ NoGap(Q, 10, refused) /\ On(Q, 10, 0) /\ ~On(Q, 2, 0)
<1>p. 4 \in Place /\ 4 <= 10
  BY DEF Place
<1>z. \A a \in Place : a \in Int /\ a <= 10
  BY DEF Place
<1>y. 1 \in 1..Len(Q[4]) /\ Q[4][1] = 0 /\ Len(Q[4]) = 1
  OBVIOUS
<1>1. ASSUME NEW a \in Place, NEW i \in 1..Len(Q[a])
      PROVE  \/ a = 4 /\ i = 1 /\ Q[a][i] = 0
             \/ a > 4 /\ i \in 1..Len(P[a]) /\ Q[a][i] = P[a][i] /\ Q[a][i] > 0
  <2>1. CASE a = 4
    <3>1. i \in 1..1
      BY <1>1, <1>y, <2>1
    <3> QED
      BY <1>y, <2>1, <3>1
  <2>2. CASE a # 4
    <3>1. Q[a] = P[a] /\ i \in 1..Len(P[a]) /\ a > 4
      BY <1>z, <1>1, <2>2
    <3>2. P[a] \in Seq(Nat) /\ P[a][i] # 0
      BY <1>z, <3>1 DEF On, IsLine
    <3>3. P[a][i] \in Nat
      BY <3>1, <3>2
    <3> QED
      BY <3>1, <3>2, <3>3
  <2> QED
    BY <2>1, <2>2
<1>2. Ordered(Q)
  <2> SUFFICES ASSUME NEW a \in Place, NEW b \in Place,
                      NEW i \in 1..Len(Q[a]), NEW j \in 1..Len(Q[b]),
                      a < b \/ (a = b /\ i < j)
               PROVE  Q[a][i] < Q[b][j]
    BY DEF Ordered
  <2>a. \/ a = 4 /\ i = 1 /\ Q[a][i] = 0
        \/ a > 4 /\ i \in 1..Len(P[a]) /\ Q[a][i] = P[a][i] /\ Q[a][i] > 0
    BY <1>1
  <2>b. \/ b = 4 /\ j = 1 /\ Q[b][j] = 0
        \/ b > 4 /\ j \in 1..Len(P[b]) /\ Q[b][j] = P[b][j] /\ Q[b][j] > 0
    BY <1>1
  <2>1. CASE b = 4 /\ j = 1
    BY <1>z, <2>a, <2>1
  <2>2. CASE a = 4 /\ b > 4
    BY <2>a, <2>b, <2>2
  <2>3. CASE a > 4 /\ b > 4
    BY <2>a, <2>b, <2>3 DEF Ordered
  <2> QED
    BY <2>a, <2>b, <2>1, <2>2, <2>3
<1>3. ASSUME NEW n, On(Q, 10, n) PROVE On(P, 10, n) \/ n = 0
  <2>1. PICK a \in Place : a <= 10 /\ \E i \in 1..Len(Q[a]) : Q[a][i] = n
    BY <1>3 DEF On
  <2>2. PICK i \in 1..Len(Q[a]) : Q[a][i] = n
    BY <2>1
  <2> QED
    BY <1>1, <2>1, <2>2 DEF On
<1>4. ASSUME NEW n, On(P, 10, n) PROVE On(Q, 10, n)
  <2>1. PICK a \in Place : a <= 10 /\ \E i \in 1..Len(P[a]) : P[a][i] = n
    BY <1>4 DEF On
  <2>2. a # 4
    BY <2>1
  <2> QED
    BY <2>1, <2>2 DEF On
<1>5. NoGap(Q, 10, refused)
  BY <1>3, <1>4 DEF NoGap
<1>6. On(Q, 10, 0)
  BY <1>p, <1>y, OnAt
<1>7. ~On(Q, 2, 0)
  BY <1>z, <1>1 DEF On
<1> QED
  BY <1>2, <1>5, <1>6, <1>7

----------------------------------------------------------------------------
(* The line of a recording, and what holds of it.                          *)

(* The place up to which the line still has no gap: what the thread reads  *)
(* once stop has begun it drops, and in the end stop empties the queues.   *)
Cut == IF cPc \in TornDown THEN 1
       ELSE IF escStarted \/ cPc \in Starting THEN 10 ELSE 7

(* The line is in order, and has no gap but for frames that were refused.  *)
LineInv == Ordered(Line) /\ NoGap(Line, Cut, failed)

(* How far the packer's thread is, and that the software path does not use *)
(* mFramesReceived.                                                        *)
PackerInv ==
  /\ pPc = "none" <=> cPc \in {"init", "mgrStart", "escStart", "create"}
  /\ pPc \in {"none", "csd", "readCsd"} =>
       tspOut = <<>> /\ cPc \notin Stopping \union {"done"}
  /\ tspStarted <=> cPc \in {"reading", "tspStop"}
  /\ soft => mFramesReceived = <<>>
  /\ cPc = "init" => encOut = <<>> /\ escOut = <<>> /\ tspOut = <<>> /\ written = <<>>

(* From the start of the encoder to the stop of the packer.                *)
Early == cPc \in (Starting \ {"init"}) \union {"reading", "tspStop"}

(* The codec's configuration comes first and is never put into the file.   *)
CsdInv ==
  /\ ~On(Line, 2, 0)
  /\ pPc \in {"loop", "read"} \/ cPc = "init" => ~On(Line, 10, 0)
  /\ pPc \in {"none", "csd", "readCsd"} /\ Early => On(Line, 10, 0)

(* The packer's thread reads its first unit, or a later one, or ends.      *)
SameRead ==
  \/ pPc' = pPc \/ pPc' = "out" \/ (pPc = "none" /\ pPc' = "csd")
  \/ {pPc, pPc'} = {"csd", "readCsd"} \/ {pPc, pPc'} = {"loop", "read"}

LEMMA NumsOf ==
  ASSUME TypeOK, NEW q \in Seq(Frame)
  PROVE  /\ Nums(q) \in Seq(1..MaxFrames) /\ Nums(q) \in Seq(Nat)
         /\ \A f \in Frame : Nums(Append(q, f)) = Append(Nums(q), f.n)
         /\ q # <<>> => /\ Nums(q) # <<>> /\ Nums(Tail(q)) = Tail(Nums(q))
                        /\ Head(Nums(q)) = Head(q).n
<1>0. MaxFrames \in Nat /\ \A f \in Frame : f.n \in 1..MaxFrames
  BY RecordAssumption, FrameFields DEF RecordAssumption
<1>1. Len(q) \in Nat /\ \A i \in 1..Len(q) : q[i] \in Frame
  OBVIOUS
<1>2. Nums(q) \in Seq(1..MaxFrames)
  BY <1>0, <1>1 DEF Nums
<1>3. Nums(q) \in Seq(Nat) /\ Len(Nums(q)) = Len(q)
  BY <1>0, <1>1 DEF Nums
<1>4. ASSUME NEW f \in Frame PROVE Nums(Append(q, f)) = Append(Nums(q), f.n)
  BY <1>0, <1>1, <1>3 DEF Nums
<1>5. ASSUME q # <<>> PROVE /\ Nums(q) # <<>> /\ Nums(Tail(q)) = Tail(Nums(q))
                            /\ Head(Nums(q)) = Head(q).n
  BY <1>0, <1>1, <1>3, <1>5 DEF Nums
<1> QED
  BY <1>2, <1>3, <1>4, <1>5

InHand == IF vPc = "got" THEN <<vFrame.n>> ELSE <<>>

LEMMA LineIs ==
  /\ Line[1] = written /\ Line[2] = tspOut /\ Line[3] = escOut /\ Line[4] = encOut
  /\ Line[5] = Nums(enc) /\ Line[6] = Nums(mInputBufferQueue) /\ Line[7] = Nums(mFramesReceived)
  /\ Line[8] = InHand /\ Line[9] = Nums(mgrQueue) /\ Line[10] = <<taken + 1>>
BY DEF Line, InHand

LEMMA LineIsNext ==
  /\ Line'[1] = written' /\ Line'[2] = tspOut' /\ Line'[3] = escOut' /\ Line'[4] = encOut'
  /\ Line'[5] = Nums(enc') /\ Line'[6] = Nums(mInputBufferQueue')
  /\ Line'[7] = Nums(mFramesReceived')
  /\ Line'[8] = InHand' /\ Line'[9] = Nums(mgrQueue') /\ Line'[10] = <<taken' + 1>>
BY DEF Line, InHand, Nums

LEMMA EveryPlace == \A a \in Place : \/ a = 1 \/ a = 2 \/ a = 3 \/ a = 4 \/ a = 5
                                 \/ a = 6 \/ a = 7 \/ a = 8 \/ a = 9 \/ a = 10
BY DEF Place

LEMMA LineTyped == TypeOK /\ HolderInv => IsLine(Line)
<1> SUFFICES ASSUME TypeOK, HolderInv PROVE IsLine(Line)
  OBVIOUS
<1>0. MaxFrames \in Nat /\ \A f \in Frame : f.n \in 1..MaxFrames
  BY RecordAssumption, FrameFields DEF RecordAssumption
<1>1. written \in Seq(Nat) /\ tspOut \in Seq(Nat) /\ escOut \in Seq(Nat) /\ encOut \in Seq(Nat)
  BY <1>0 DEF TypeOK, UnitsTyped, EsUnit
<1>2. /\ Nums(enc) \in Seq(Nat) /\ Nums(mInputBufferQueue) \in Seq(Nat)
      /\ Nums(mFramesReceived) \in Seq(Nat) /\ Nums(mgrQueue) \in Seq(Nat)
  BY NumsOf DEF TypeOK, FramesTyped
<1>3. InHand \in Seq(Nat) /\ <<taken + 1>> \in Seq(Nat)
  <2>1. taken + 1 \in Nat
    BY <1>0 DEF TypeOK, FramesTyped
  <2>2. vPc = "got" => vFrame.n \in Nat
    BY <1>0 DEF HolderInv
  <2> QED
    BY <2>1, <2>2 DEF InHand
<1>4. \A a \in Place : Line[a] \in Seq(Nat)
  BY <1>1, <1>2, <1>3, LineIs, EveryPlace
<1>5. Line = [a \in Place |-> Line[a]]
  BY DEF Line, Place
<1> QED
  BY <1>4, <1>5 DEF IsLine

LEMMA LineTypedNext == TypeOK' /\ HolderInv' => IsLine(Line')
<1>1. (TypeOK /\ HolderInv => IsLine(Line))'
  BY LineTyped, PTL
<1> QED
  BY <1>1 DEF IsLine

LEMMA LineSame ==
  UNCHANGED <<written, tspOut, escOut, encOut, enc, mInputBufferQueue, mFramesReceived, mgrQueue,
              taken, InHand>>
  => Line' = Line
BY DEF Line, InHand, Nums

LEMMA CutIs ==
  ASSUME TypeOK, ThreadInv
  PROVE  Cut = IF cPc \in TornDown THEN 1
               ELSE IF cPc \in {"wait", "waiting"} THEN 7 ELSE 10
BY DEF Cut, TypeOK, ThreadsTyped, ThreadInv, TornDown, Starting, Stopping

LEMMA CutStep ==
  ASSUME TypeOK, ThreadInv, TypeOK', ThreadInv', [Next]_vars
  PROVE  Cut \in {1, 7, 10} /\ Cut' \in {1, 7, 10} /\ Cut' <= Cut
<1> DEFINE CutOf(pc) == IF pc \in TornDown THEN 1
                        ELSE IF pc \in {"wait", "waiting"} THEN 7 ELSE 10
<1>1. Cut = CutOf(cPc)
  BY CutIs
<1>2. Cut' = CutOf(cPc')
  BY DEF Cut, TypeOK, ThreadsTyped, ThreadInv, TornDown, Starting, Stopping
<1>3. CutOf(cPc') <= CutOf(cPc)
  <2> USE DEF device, callback, manager, queues, video, encoder, packer, caller, history, TornDown
  <2>1. ASSUME NEW b \in Buffers, Capture(b) PROVE CutOf(cPc') <= CutOf(cPc)
    BY <2>1 DEF Capture
  <2>2. CASE Callback
    BY <2>2 DEF Callback, CallbackTest, CallbackError, Unwanted, CallbackDeliver
  <2>3. CASE DequeueInput \/ ReadBuffer \/ KeepFrame \/ Feed \/ DequeueOutput
    BY <2>3 DEF DequeueInput, ReadBuffer, KeepFrame, Feed, DequeueOutput
  <2>4. CASE VideoTest
    BY <2>4 DEF VideoTest
  <2>5. CASE Codec \/ Packer
    BY <2>5 DEF Codec, Encode, ReturnBuffer, Packer, PackerTest, PackerFindsNothing,
                PackerReadCsd, PackerRead, PackerExit
  <2>6. CASE \/ StartDevice \/ StartFails \/ StartManager \/ StartConvertor \/ CreatePacker
             \/ StartPacker
    BY <2>6 DEF StartDevice, StartFails, StartManager, StartConvertor, CreatePacker, StartPacker
  <2>7. CASE WritePackets
    BY <2>7 DEF WritePackets
  <2>8. CASE StopPacker \/ StopConvertor \/ WaitForThread \/ WaitTimeout
    BY <2>8 DEF StopPacker, StopConvertor, WaitForThread, WaitTimeout
  <2>9. CASE DrainFrame \/ DrainFree \/ DrainEnd
    BY <2>9 DEF DrainFrame, DrainFree, DrainEnd
  <2>10. CASE StopManager \/ ResetManager \/ StopEncoder \/ Uninit
    BY <2>10 DEF StopManager, ResetManager, StopEncoder, Uninit
  <2>11. CASE UNCHANGED vars
    BY <2>11 DEF vars
  <2> QED
    BY <2>1, <2>2, <2>3, <2>4, <2>5, <2>6, <2>7, <2>8, <2>9, <2>10, <2>11
       DEF Next, VideoThread, Caller
<1> QED
  BY <1>1, <1>2, <1>3

(* A frame that the encoder refuses is on the line no more.                *)
RefusedOnce == failed' = failed \/ \E h : failed' = failed \union {h} /\ Left(Line', h)

(* One call of feedEncoderInputBuffers, when R is the line with q as the   *)
(* queue it is called with.                                                *)
LEMMA FeedLine ==
  ASSUME TypeOK, IsLine(Line'), NEW R, IsLine(R),
         NEW q \in Seq(Frame),
         R[5] = Nums(enc), R[6] = Nums(q), \A a \in Place : a # 5 /\ a # 6 => Line'[a] = R[a],
         FeedNothing(q) \/ FeedFrame(q) \/ FeedFails(q),
         Ordered(R), NEW c \in Place, 6 <= c \/ c < 5, NoGap(R, c, failed)
  PROVE  /\ Ordered(Line') /\ NoGap(Line', c, failed') /\ RefusedOnce
         /\ On(Line', 2, 0) => On(R, 2, 0)
         /\ On(Line', 10, 0) => On(R, 10, 0)
         /\ On(R, 10, 0) => On(Line', 10, 0)
<1>p. 2 \in Place /\ 5 \in Place /\ 6 \in Place /\ 10 \in Place /\ 5 < 6 /\ 2 < 5 /\ 6 <= 10
      /\ 5 # 6 /\ (6 <= c \/ c < 5) /\ (6 <= 10 \/ 10 < 5)
  BY DEF Place
<1>s. On(Line', 2, 0) => On(R, 2, 0)
  <2>1. \A a \in Place : a <= 2 => a # 5 /\ a # 6
    BY DEF Place
  <2>2. \A a \in Place : a <= 2 => Line'[a] = R[a]
    BY <2>1
  <2> QED
    BY <2>2 DEF On
<1>e. enc \in Seq(Frame)
  BY DEF TypeOK, FramesTyped
<1>1. CASE FeedNothing(q)
  <2>1. enc' = enc /\ mInputBufferQueue' = q /\ failed' = failed
    BY <1>1 DEF FeedNothing, history
  <2>2. Line'[5] = R[5] /\ Line'[6] = R[6]
    BY <2>1, LineIsNext
  <2>3. \A a \in Place : Line'[a] = R[a]
    BY <2>2
  <2>4. Line' = R
    BY <2>3 DEF IsLine
  <2> QED
    BY <2>1, <2>4 DEF RefusedOnce
<1>2. ASSUME q # <<>> PROVE /\ Head(q) \in Frame /\ R[6] # <<>> /\ Nums(Tail(q)) = Tail(R[6])
                            /\ Head(R[6]) = Head(q).n
  BY <1>2, HeadTail, NumsOf
<1>3. CASE FeedFrame(q)
  <2>1. enc' = Append(enc, Head(q)) /\ mInputBufferQueue' = Tail(q) /\ failed' = failed /\ q # <<>>
    BY <1>3 DEF FeedFrame, history
  <2>2. Line'[5] = Append(R[5], Head(R[6])) /\ Line'[6] = Tail(R[6])
    BY <1>e, <1>2, <2>1, LineIsNext, NumsOf
  <2>3. \A a \in Place : ~(5 < a /\ a < 6)
    BY DEF Place
  <2>4. Moves(R, Line', 5, 6)
    BY <1>p, <1>2, <2>1, <2>2, <2>3 DEF Moves
  <2>5. Ordered(Line') /\ NoGap(Line', c, failed)
    BY <1>p, <2>4, MoveStep
  <2>6. \A n : On(Line', 10, n) <=> On(R, 10, n)
    BY <1>p, <2>4, MoveKeepsOn
  <2> QED
    BY <1>s, <2>1, <2>5, <2>6 DEF RefusedOnce
<1>4. CASE FeedFails(q)
  <2>1. /\ enc' = enc /\ mInputBufferQueue' = Tail(q) /\ failed' = failed \union {Head(q).n}
        /\ q # <<>>
    BY <1>4 DEF FeedFails
  <2>2. Line'[5] = R[5] /\ Line'[6] = Tail(R[6])
    BY <1>2, <2>1, LineIsNext
  <2>3. \A a \in Place : a # 6 => Line'[a] = R[a]
    BY <2>2
  <2>4. Released(Head(R[6]), failed, failed')
    BY <1>2, <2>1 DEF Released
  <2>l. LosesHead(R, Line', 6)
    BY <1>2, <2>1, <2>2, <2>3 DEF LosesHead
  <2>5. /\ Ordered(Line') /\ NoGap(Line', c, failed')
        /\ \A n : On(Line', 10, n) => On(R, 10, n)
        /\ \A n : On(R, 10, n) => On(Line', 10, n) \/ n = Head(R[6])
    BY <1>p, <2>4, <2>l, HeadGone, SMTT(30)
  <2>6. Head(R[6]) # 0
    BY <1>2, <2>1, FrameFields, RecordAssumption DEF RecordAssumption
  <2>7. Left(Line', Head(R[6]))
    <3>1. Len(R[10]) = 1
      <4>1. R[10] = Line'[10]
        BY <1>p
      <4>2. R[10] = <<taken' + 1>>
        BY <4>1, LineIsNext
      <4> QED
        BY <4>2
    <3>2. 6 # 1 /\ 6 # 10
      OBVIOUS
    <3> QED
      BY <1>p, <2>l, <3>1, <3>2, HeadHasLeft
  <2>8. RefusedOnce
    BY <1>2, <2>1, <2>7 DEF RefusedOnce
  <2> QED
    BY <1>s, <2>5, <2>6, <2>8
<1> QED
  BY <1>1, <1>3, <1>4

----------------------------------------------------------------------------
(* Each step on the line.                                                  *)

(* What is known before and after a step.                                  *)
Known == /\ TypeOK /\ HolderInv /\ ThreadInv /\ RunningInv
         /\ PackerInv

LEMMA CsdKept ==
  ASSUME CsdInv, On(Line', 2, 0) => On(Line, 2, 0), On(Line', 10, 0) <=> On(Line, 10, 0),
         SameRead, cPc' = "init" => cPc = "init", Early' => Early
  PROVE  CsdInv'
BY DEF CsdInv, SameRead

LEMMA CsdKeptLate ==
  ASSUME CsdInv, On(Line', 2, 0) => On(Line, 2, 0), On(Line', 10, 0) => On(Line, 10, 0),
         pPc' = pPc, cPc' # "init", ~Early'
  PROVE  CsdInv'
BY DEF CsdInv

LEMMA LineKept ==
  ASSUME Known, Known', [Next]_vars, Ordered(Line'), NoGap(Line', Cut, failed')
  PROVE  LineInv'
<1>1. Cut \in {1, 7, 10} /\ Cut' \in {1, 7, 10} /\ Cut' <= Cut
  BY CutStep DEF Known
<1>2. Cut \in Place /\ Cut' \in Place
  BY <1>1 DEF Place
<1>3. IsLine(Line')
  BY LineTyped, LineTypedNext DEF Known
<1> QED
  BY <1>1, <1>2, <1>3, FrontHasNoGap DEF LineInv

(* A step that moves a number from place l to place k.                     *)
LEMMA MoveOnLine ==
  ASSUME Known, Known', [Next]_vars, LineInv, NEW k \in Place, NEW l \in Place,
         Moves(Line, Line', k, l), l <= Cut \/ Cut < k, failed' = failed
  PROVE  /\ LineInv'
         /\ On(Line', 10, 0) <=> On(Line, 10, 0)
         /\ l <= 2 \/ 2 < k => (On(Line', 2, 0) => On(Line, 2, 0))
<1>1. Cut \in Place
  BY CutStep DEF Known, Place
<1>2. IsLine(Line) /\ IsLine(Line')
  BY LineTyped, LineTypedNext DEF Known
<1>3. Ordered(Line') /\ NoGap(Line', Cut, failed)
  BY <1>1, <1>2, MoveStep DEF LineInv
<1>4. 2 \in Place /\ 10 \in Place /\ (l <= 10 \/ 10 < k)
  BY DEF Place
<1>5. On(Line', 10, 0) <=> On(Line, 10, 0)
  BY <1>2, <1>4, MoveKeepsOn
<1>6. l <= 2 \/ 2 < k => (On(Line', 2, 0) => On(Line, 2, 0))
  BY <1>2, <1>4, MoveKeepsOn
<1> QED
  BY <1>3, <1>5, <1>6, LineKept

(* A step that takes numbers from places the file does not wait for.       *)
LEMMA DropOnLine ==
  ASSUME Known, Known', [Next]_vars, LineInv, Drops(Line, Line'),
         NEW c \in Place, Cut' <= c, c <= Cut,
         \A a \in Place : a <= c => Line'[a] = Line[a], failed' = failed
  PROVE  /\ LineInv'
         /\ On(Line', 10, 0) => On(Line, 10, 0)
         /\ On(Line', 2, 0) => On(Line, 2, 0)
<1>1. Cut \in Place /\ Cut' \in Place
  BY CutStep DEF Known, Place
<1>2. IsLine(Line) /\ IsLine(Line')
  BY LineTyped, LineTypedNext DEF Known
<1>3. NoGap(Line, c, failed)
  BY <1>1, <1>2, FrontHasNoGap DEF LineInv
<1>4. Ordered(Line') /\ NoGap(Line', c, failed)
  BY <1>2, <1>3, DropsBehind DEF LineInv
<1>5. NoGap(Line', Cut', failed')
  BY <1>1, <1>2, <1>4, FrontHasNoGap
<1>6. /\ On(Line', 10, 0) => On(Line, 10, 0)
      /\ On(Line', 2, 0) => On(Line, 2, 0)
  BY <1>2, DropKeepsOrder DEF LineInv
<1> QED
  BY <1>4, <1>5, <1>6 DEF LineInv

LEMMA DeliverOnLine ==
  ASSUME Known, Known', [Next]_vars, LineInv, CsdInv, CallbackDeliver
  PROVE  LineInv' /\ CsdInv'
<1> USE DEF device, callback, manager, queues, video, encoder, packer, caller, history
<1>1. IsLine(Line) /\ IsLine(Line')
  BY LineTyped, LineTypedNext DEF Known
<1>2. Cut \in {1, 7, 10}
  BY CutStep DEF Known
<1>3. /\ UNCHANGED <<written, tspOut, escOut, encOut, enc, mInputBufferQueue, mFramesReceived,
                     InHand, failed>>
      /\ pPc' = pPc /\ cPc' = cPc /\ Early' = Early
  BY DEF CallbackDeliver, InHand, Early
<1>4. CASE taken' = taken
  <2>1. mgrQueue' = mgrQueue
    BY <1>4 DEF CallbackDeliver, Known, TypeOK, FramesTyped
  <2>2. Line' = Line
    BY <1>3, <1>4, <2>1, LineSame
  <2> QED
    BY <1>3, <2>2, LineKept, CsdKept DEF LineInv, SameRead
<1>5. CASE taken' # taken
  <2>1. /\ taken' = taken + 1
        /\ mgrQueue' = Append(mgrQueue, [n |-> taken + 1, b |-> IF HasClient /\ mCanvasClientExist
                                                                  THEN cbBuf ELSE NoBuffer])
    BY <1>5 DEF CallbackDeliver
  <2> DEFINE f == [n |-> taken + 1, b |-> IF HasClient /\ mCanvasClientExist
                                            THEN cbBuf ELSE NoBuffer]
  <2>2. f \in Frame
    <3>1. cbPc # "idle" /\ ((HasClient /\ mCanvasClientExist) \/ soft)
      BY <1>5 DEF CallbackDeliver
    <3>2. taken < MaxFrames /\ cbBuf \in Buffers /\ taken + 1 \in 1..MaxFrames
      BY <3>1, RecordAssumption DEF Known, HolderInv, TypeOK, FramesTyped, RecordAssumption
    <3> QED
      BY <3>1, <3>2 DEF Known, HolderInv, Frame
  <2>3. Nums(mgrQueue') = Append(Nums(mgrQueue), taken + 1)
    <3>1. Nums(Append(mgrQueue, f)) = Append(Nums(mgrQueue), f.n)
      BY <2>2, NumsOf DEF Known, TypeOK, FramesTyped
    <3> QED
      BY <2>1, <3>1
  <2>4. taken + 1 \in Nat
    BY RecordAssumption DEF Known, TypeOK, FramesTyped, RecordAssumption
  <2>5. /\ Line[10] = <<taken + 1>> /\ Line'[10] = <<taken + 1 + 1>>
        /\ Line'[9] = Append(Line[9], taken + 1)
    BY <2>1, <2>3, LineIs, LineIsNext
  <2>6. \A a \in Place : a < 9 => Line'[a] = Line[a]
    <3> SUFFICES ASSUME NEW a \in Place, a < 9 PROVE Line'[a] = Line[a]
      OBVIOUS
    <3>1. a \in {1, 2, 3, 4, 5, 6, 7, 8}
      BY DEF Place
    <3> QED
      BY <1>3, <3>1, LineIs, LineIsNext
  <2>7. /\ Ordered(Line') /\ NoGap(Line', Cut, failed)
        /\ On(Line', 10, 0) => On(Line, 10, 0)
        /\ On(Line, 10, 0) => On(Line', 10, 0)
    BY <1>1, <1>2, <2>4, <2>5, <2>6, NumberTaken DEF LineInv
  <2>8. On(Line', 2, 0) => On(Line, 2, 0)
    <3>1. \A a \in Place : a <= 2 => Line'[a] = Line[a]
      BY <2>6 DEF Place
    <3> QED
      BY <3>1 DEF On
  <2> QED
    BY <1>3, <2>7, <2>8, LineKept, CsdKept DEF SameRead
<1> QED
  BY <1>4, <1>5

LEMMA ReadOnLine ==
  ASSUME Known, Known', [Next]_vars, LineInv, CsdInv, ReadBuffer
  PROVE  LineInv' /\ CsdInv'
<1> USE DEF device, callback, manager, queues, video, encoder, packer, caller, history
<1>1. /\ UNCHANGED <<written, tspOut, escOut, encOut, enc, mInputBufferQueue, mFramesReceived,
                     taken, failed>>
      /\ pPc' = pPc /\ cPc' = cPc /\ Early' = Early
  BY DEF ReadBuffer, Early
<1>2. CASE mgrStarted /\ mgrQueue # <<>>
  <2>1. vPc = "read" /\ vPc' = "got" /\ vFrame' = Head(mgrQueue) /\ mgrQueue' = Tail(mgrQueue)
    BY <1>2 DEF ReadBuffer
  <2>2. /\ Line[8] = <<>> /\ Line'[8] = <<Head(mgrQueue).n>>
    BY <2>1, LineIs, LineIsNext DEF InHand
  <2>3. Line[9] # <<>> /\ Line'[9] = Tail(Line[9]) /\ Head(Line[9]) = Head(mgrQueue).n
    BY <1>2, <2>1, LineIs, LineIsNext, NumsOf DEF Known, TypeOK, FramesTyped
  <2>4. Line'[8] = Append(Line[8], Head(Line[9]))
    BY <2>2, <2>3
  <2>5. \A a \in Place : a # 8 /\ a # 9 => Line'[a] = Line[a]
    BY <1>1, LineIs, LineIsNext, EveryPlace
  <2>6. 8 \in Place /\ 9 \in Place /\ 8 < 9 /\ \A a \in Place : ~(8 < a /\ a < 9)
    BY DEF Place
  <2>7. Moves(Line, Line', 8, 9)
    BY <2>3, <2>4, <2>5, <2>6 DEF Moves
  <2>8. 9 <= Cut \/ Cut < 8
    BY CutStep DEF Known
  <2>9. /\ LineInv' /\ (On(Line', 10, 0) <=> On(Line, 10, 0))
        /\ On(Line', 2, 0) => On(Line, 2, 0)
    <3>1. 9 <= 2 \/ 2 < 8
      OBVIOUS
    <3> QED
      BY <1>1, <2>6, <2>7, <2>8, <3>1, MoveOnLine
  <2> QED
    BY <1>1, <2>9, CsdKept DEF SameRead
<1>3. CASE ~(mgrStarted /\ mgrQueue # <<>>)
  <2>1. vPc' # "got" /\ vPc # "got" /\ mgrQueue' = mgrQueue
    BY <1>3 DEF ReadBuffer
  <2>2. Line' = Line
    BY <1>1, <2>1, LineSame DEF InHand
  <2> QED
    BY <1>1, <2>2, LineKept, CsdKept DEF LineInv, SameRead
<1> QED
  BY <1>2, <1>3

LEMMA KeepOnLine ==
  ASSUME Known, Known', [Next]_vars, LineInv, CsdInv, KeepFrame
  PROVE  LineInv' /\ CsdInv'
<1> USE DEF device, callback, manager, queues, video, encoder, packer, caller, history
<1>1. /\ UNCHANGED <<written, tspOut, escOut, encOut, enc, mgrQueue, taken, failed>>
      /\ pPc' = pPc /\ cPc' = cPc /\ Early' = Early
  BY DEF KeepFrame, Early
<1>2. /\ vFrame \in Frame /\ Line[8] = <<vFrame.n>> /\ Line'[8] = <<>>
  BY LineIs, LineIsNext DEF KeepFrame, InHand, Known, HolderInv
<1>3. Line[8] # <<>> /\ Line'[8] = Tail(Line[8]) /\ Head(Line[8]) = vFrame.n
  BY <1>2
<1>4. CASE escStarted /\ soft
  <2>1. mInputBufferQueue' = Append(mInputBufferQueue, vFrame) /\ mFramesReceived' = mFramesReceived
    BY <1>4 DEF KeepFrame
  <2>2. Line'[6] = Append(Line[6], Head(Line[8]))
    <3>1. Nums(mInputBufferQueue') = Append(Nums(mInputBufferQueue), vFrame.n)
      BY <1>2, <2>1, NumsOf DEF Known, TypeOK, FramesTyped
    <3>2. Line[6] = Nums(mInputBufferQueue) /\ Line'[6] = Nums(mInputBufferQueue')
      BY LineIs, LineIsNext
    <3> QED
      BY <1>3, <3>1, <3>2
  <2>3. \A a \in Place : a # 6 /\ a # 8 => Line'[a] = Line[a]
    BY <1>1, <2>1, LineIs, LineIsNext, EveryPlace
  <2>4. 6 \in Place /\ 8 \in Place /\ 6 < 8 /\ \A a \in Place : 6 < a /\ a < 8 => a = 7
    BY DEF Place
  <2>5. Line[7] = <<>>
    BY <1>4, LineIs DEF Known, PackerInv, Nums
  <2>6. Moves(Line, Line', 6, 8)
    BY <1>3, <2>2, <2>3, <2>4, <2>5 DEF Moves
  <2>7. 8 <= Cut
    BY <1>4 DEF Cut, Known, ThreadInv, TornDown
  <2>8. /\ LineInv' /\ (On(Line', 10, 0) <=> On(Line, 10, 0))
        /\ On(Line', 2, 0) => On(Line, 2, 0)
    <3>1. 8 <= 2 \/ 2 < 6
      OBVIOUS
    <3> QED
      BY <1>1, <2>4, <2>6, <2>7, <3>1, MoveOnLine
  <2> QED
    BY <1>1, <2>8, CsdKept DEF SameRead
<1>5. CASE escStarted /\ ~soft
  <2>1. mFramesReceived' = Append(mFramesReceived, vFrame) /\ mInputBufferQueue' = mInputBufferQueue
    BY <1>5 DEF KeepFrame
  <2>2. Line'[7] = Append(Line[7], Head(Line[8]))
    <3>1. Nums(mFramesReceived') = Append(Nums(mFramesReceived), vFrame.n)
      BY <1>2, <2>1, NumsOf DEF Known, TypeOK, FramesTyped
    <3>2. Line[7] = Nums(mFramesReceived) /\ Line'[7] = Nums(mFramesReceived')
      BY LineIs, LineIsNext
    <3> QED
      BY <1>3, <3>1, <3>2
  <2>3. \A a \in Place : a # 7 /\ a # 8 => Line'[a] = Line[a]
    BY <1>1, <2>1, LineIs, LineIsNext, EveryPlace
  <2>4. 7 \in Place /\ 8 \in Place /\ 7 < 8 /\ \A a \in Place : ~(7 < a /\ a < 8)
    BY DEF Place
  <2>5. Moves(Line, Line', 7, 8)
    BY <1>3, <2>2, <2>3, <2>4 DEF Moves
  <2>6. 8 <= Cut
    BY <1>5 DEF Cut, Known, ThreadInv, TornDown
  <2>7. /\ LineInv' /\ (On(Line', 10, 0) <=> On(Line, 10, 0))
        /\ On(Line', 2, 0) => On(Line, 2, 0)
    <3>1. 8 <= 2 \/ 2 < 7
      OBVIOUS
    <3> QED
      BY <1>1, <2>4, <2>5, <2>6, <3>1, MoveOnLine
  <2> QED
    BY <1>1, <2>7, CsdKept DEF SameRead
<1>6. CASE ~escStarted
  <2>1. mFramesReceived' = mFramesReceived /\ mInputBufferQueue' = mInputBufferQueue
        /\ escStarted' = escStarted
    BY <1>6 DEF KeepFrame
  <2>2. \A a \in Place : a # 8 => Line'[a] = Line[a]
    BY <1>1, <2>1, LineIs, LineIsNext, EveryPlace
  <2>3. Drops(Line, Line')
    BY <1>2, <2>2 DEF Drops
  <2>4. vPc = "got" /\ cPc \in TornDown \union {"wait", "waiting"}
    BY <1>6 DEF KeepFrame, Known, ThreadInv, TypeOK, ThreadsTyped, Starting, Stopping, TornDown
  <2>5. Cut \in {1, 7} /\ Cut' = Cut /\ cPc' # "init" /\ ~Early'
    BY <1>1, <1>6, <2>1, <2>4 DEF Cut, Early, Starting, TornDown
  <2>6. Cut \in Place /\ Cut' <= Cut /\ Cut <= Cut /\ \A a \in Place : a <= Cut => a # 8
    BY <2>5 DEF Place
  <2>7. /\ LineInv' /\ (On(Line', 10, 0) => On(Line, 10, 0))
        /\ On(Line', 2, 0) => On(Line, 2, 0)
    BY <1>1, <2>2, <2>3, <2>6, DropOnLine
  <2> QED
    BY <1>1, <2>5, <2>7, CsdKeptLate
<1> QED
  BY <1>4, <1>5, <1>6

LEMMA FeedOnLine ==
  ASSUME Known, Known', [Next]_vars, LineInv, CsdInv, Feed
  PROVE  LineInv' /\ CsdInv' /\ RefusedOnce
<1> USE DEF device, callback, manager, queues, video, encoder, packer, caller, history
<1>0. IsLine(Line) /\ IsLine(Line') /\ TypeOK
  BY LineTyped, LineTypedNext DEF Known
<1>1. /\ UNCHANGED <<written, tspOut, escOut, encOut, mgrQueue, taken, InHand>>
      /\ pPc' = pPc /\ cPc' = cPc /\ Early' = Early
  BY DEF Feed, Early, InHand
<1>2. Cut \in Place /\ (6 <= Cut \/ Cut < 5) /\ (7 <= Cut \/ Cut < 6)
  BY CutStep DEF Place, Known
<1>3. CASE soft
  <2>1. /\ mFramesReceived' = mFramesReceived
        /\ \/ FeedNothing(mInputBufferQueue) \/ FeedFrame(mInputBufferQueue)
           \/ FeedFails(mInputBufferQueue)
    BY <1>3 DEF Feed
  <2>2. \A a \in Place : a # 5 /\ a # 6 => Line'[a] = Line[a]
    BY <1>1, <2>1, LineIs, LineIsNext, EveryPlace
  <2>3. mInputBufferQueue \in Seq(Frame)
    BY <1>0 DEF TypeOK, FramesTyped
  <2>4. Line[5] = Nums(enc) /\ Line[6] = Nums(mInputBufferQueue)
    BY LineIs
  <2>5. /\ Ordered(Line') /\ NoGap(Line', Cut, failed') /\ RefusedOnce
        /\ On(Line', 2, 0) => On(Line, 2, 0)
        /\ On(Line', 10, 0) => On(Line, 10, 0)
        /\ On(Line, 10, 0) => On(Line', 10, 0)
    BY <1>0, <1>2, <2>1, <2>2, <2>3, <2>4, FeedLine DEF LineInv
  <2> QED
    BY <1>1, <2>5, LineKept, CsdKept DEF SameRead
<1>4. CASE ~soft /\ mFramesReceived = <<>>
  <2>1. UNCHANGED <<mFramesReceived, mInputBufferQueue, enc, failed>>
    BY <1>4 DEF Feed
  <2>2. Line' = Line
    BY <1>1, <2>1, LineSame
  <2> QED
    BY <1>1, <2>1, <2>2, LineKept, CsdKept DEF LineInv, RefusedOnce, SameRead
<1>5. CASE ~soft /\ mFramesReceived # <<>>
  <2> DEFINE q == Append(mInputBufferQueue, Head(mFramesReceived))
             R == [Line EXCEPT ![6] = Nums(q), ![7] = Nums(Tail(mFramesReceived))]
  <2>1. /\ mFramesReceived' = Tail(mFramesReceived)
        /\ FeedNothing(q) \/ FeedFrame(q) \/ FeedFails(q)
    BY <1>5 DEF Feed
  <2>2. /\ q \in Seq(Frame) /\ Head(mFramesReceived) \in Frame
        /\ Tail(mFramesReceived) \in Seq(Frame) /\ mInputBufferQueue \in Seq(Frame)
        /\ mFramesReceived \in Seq(Frame)
    BY <1>0, <1>5, HeadTail DEF TypeOK, FramesTyped
  <2>3. /\ Nums(q) = Append(Line[6], Head(Line[7])) /\ Line[7] # <<>>
        /\ Nums(Tail(mFramesReceived)) = Tail(Line[7])
    BY <1>0, <1>5, <2>2, NumsOf, LineIs
  <2>4. /\ R[6] = Nums(q) /\ R[7] = Nums(Tail(mFramesReceived))
        /\ \A a \in Place : a # 6 /\ a # 7 => R[a] = Line[a]
    <3>1. DOMAIN Line = Place /\ 6 \in Place /\ 7 \in Place
      BY <1>0 DEF IsLine, Place
    <3> HIDE DEF q
    <3> QED
      BY <3>1
  <2>5. IsLine(R)
    <3>1. Nums(q) \in Seq(Nat) /\ Nums(Tail(mFramesReceived)) \in Seq(Nat)
      BY <1>0, <2>2, NumsOf
    <3> QED
      BY <1>0, <3>1 DEF IsLine
  <2> HIDE DEF R, q
  <2>6. 2 \in Place /\ 6 \in Place /\ 7 \in Place /\ 10 \in Place /\ 6 < 7
        /\ \A a \in Place : ~(6 < a /\ a < 7)
        /\ (7 <= 10 \/ 10 < 6) /\ (7 <= 2 \/ 2 < 6) /\ (7 <= Cut \/ Cut < 6)
    BY <1>2 DEF Place
  <2>7. Moves(Line, R, 6, 7)
    BY <2>3, <2>4, <2>6 DEF Moves
  <2>8. Ordered(R) /\ NoGap(R, Cut, failed)
    BY <1>0, <1>2, <2>5, <2>6, <2>7, MoveStep DEF LineInv
  <2>9. (On(R, 10, 0) <=> On(Line, 10, 0)) /\ (On(R, 2, 0) <=> On(Line, 2, 0))
    BY <1>0, <2>5, <2>6, <2>7, MoveKeepsOn
  <2>10. \A a \in Place : a # 5 /\ a # 6 => Line'[a] = R[a]
    BY <1>1, <2>1, <2>4, LineIs, LineIsNext, EveryPlace
  <2>11. R[5] = Nums(enc)
    BY <2>4, LineIs DEF Place
  <2>12. /\ Ordered(Line') /\ NoGap(Line', Cut, failed') /\ RefusedOnce
         /\ On(Line', 2, 0) => On(R, 2, 0)
         /\ On(Line', 10, 0) => On(R, 10, 0)
         /\ On(R, 10, 0) => On(Line', 10, 0)
    BY <1>0, <1>2, <2>1, <2>2, <2>4, <2>5, <2>8, <2>10, <2>11, FeedLine
  <2> QED
    BY <1>1, <2>9, <2>12, LineKept, CsdKept DEF SameRead
<1> QED
  BY <1>3, <1>4, <1>5

(* The threads behind the encoder.                                         *)
LEMMA OutputOnLine ==
  ASSUME Known, Known', [Next]_vars, LineInv, CsdInv, DequeueOutput
  PROVE  LineInv' /\ CsdInv'
<1> USE DEF device, callback, manager, queues, video, encoder, packer, caller, history
<1>1. /\ UNCHANGED <<written, tspOut, enc, mInputBufferQueue, mFramesReceived, mgrQueue, taken,
                     InHand, failed>>
      /\ pPc' = pPc /\ cPc' = cPc /\ Early' = Early
  BY DEF DequeueOutput, Early, InHand
<1>2. CASE escStarted /\ encOut # <<>>
  <2>1. encOut' = Tail(encOut) /\ escOut' = Append(escOut, Head(encOut))
    BY <1>2 DEF DequeueOutput
  <2>2. /\ Line[4] # <<>> /\ Line'[4] = Tail(Line[4])
        /\ Line'[3] = Append(Line[3], Head(Line[4]))
    BY <1>2, <2>1, LineIs, LineIsNext
  <2>3. \A a \in Place : a # 3 /\ a # 4 => Line'[a] = Line[a]
    BY <1>1, LineIs, LineIsNext, EveryPlace
  <2>4. 3 \in Place /\ 4 \in Place /\ 3 < 4 /\ \A a \in Place : ~(3 < a /\ a < 4)
    BY DEF Place
  <2>5. Moves(Line, Line', 3, 4)
    BY <2>2, <2>3, <2>4 DEF Moves
  <2>6. (4 <= Cut \/ Cut < 3) /\ (4 <= 2 \/ 2 < 3)
    BY <1>2 DEF Cut, Known, ThreadInv, TornDown
  <2>7. /\ LineInv' /\ (On(Line', 10, 0) <=> On(Line, 10, 0))
        /\ On(Line', 2, 0) => On(Line, 2, 0)
    BY <1>1, <2>4, <2>5, <2>6, MoveOnLine
  <2> QED
    BY <1>1, <2>7, CsdKept DEF SameRead
<1>3. CASE ~(escStarted /\ encOut # <<>>)
  <2>1. encOut' = encOut /\ escOut' = escOut
    BY <1>3 DEF DequeueOutput
  <2>2. Line' = Line
    BY <1>1, <2>1, LineSame
  <2> QED
    BY <1>1, <2>2, LineKept, CsdKept DEF LineInv, SameRead
<1> QED
  BY <1>2, <1>3

LEMMA EncodeOnLine ==
  ASSUME Known, Known', [Next]_vars, LineInv, CsdInv, Encode
  PROVE  LineInv' /\ CsdInv'
<1> USE DEF device, callback, manager, queues, video, encoder, packer, caller, history
<1>1. /\ UNCHANGED <<written, tspOut, escOut, mInputBufferQueue, mFramesReceived, mgrQueue, taken,
                     InHand, failed>>
      /\ pPc' = pPc /\ cPc' = cPc /\ Early' = Early
  BY DEF Encode, Early, InHand
<1>2. /\ Line[5] # <<>> /\ Line'[5] = Tail(Line[5])
      /\ Line'[4] = Append(Line[4], Head(Line[5]))
  <2>1. enc # <<>> /\ enc' = Tail(enc) /\ encOut' = Append(encOut, Head(enc).n)
    BY DEF Encode
  <2> QED
    BY <2>1, LineIs, LineIsNext, NumsOf DEF Known, TypeOK, FramesTyped
<1>3. \A a \in Place : a # 4 /\ a # 5 => Line'[a] = Line[a]
  BY <1>1, LineIs, LineIsNext, EveryPlace
<1>4. 4 \in Place /\ 5 \in Place /\ 4 < 5 /\ \A a \in Place : ~(4 < a /\ a < 5)
  BY DEF Place
<1>5. Moves(Line, Line', 4, 5)
  BY <1>2, <1>3, <1>4 DEF Moves
<1>6. (5 <= Cut \/ Cut < 4) /\ (5 <= 2 \/ 2 < 4)
  BY CutStep DEF Known
<1>7. /\ LineInv' /\ (On(Line', 10, 0) <=> On(Line, 10, 0))
      /\ On(Line', 2, 0) => On(Line, 2, 0)
  BY <1>1, <1>4, <1>5, <1>6, MoveOnLine
<1> QED
  BY <1>1, <1>7, CsdKept DEF SameRead

LEMMA PackerReadOnLine ==
  ASSUME Known, Known', [Next]_vars, LineInv, CsdInv, PackerRead
  PROVE  LineInv' /\ CsdInv'
<1> USE DEF device, callback, manager, queues, video, encoder, packer, caller, history
<1>1. /\ UNCHANGED <<written, encOut, enc, mInputBufferQueue, mFramesReceived, mgrQueue, taken,
                     InHand, failed>>
      /\ pPc = "read" /\ pPc' = "loop" /\ cPc' = cPc
  BY DEF PackerRead, InHand
<1>2. /\ Line[3] # <<>> /\ Line'[3] = Tail(Line[3])
      /\ Line'[2] = Append(Line[2], Head(Line[3]))
  <2>1. escOut # <<>> /\ escOut' = Tail(escOut) /\ tspOut' = Append(tspOut, Head(escOut))
    BY DEF PackerRead
  <2> QED
    BY <2>1, LineIs, LineIsNext
<1>3. \A a \in Place : a # 2 /\ a # 3 => Line'[a] = Line[a]
  BY <1>1, LineIs, LineIsNext, EveryPlace
<1>4. 2 \in Place /\ 3 \in Place /\ 2 < 3 /\ \A a \in Place : ~(2 < a /\ a < 3)
  BY DEF Place
<1>5. Moves(Line, Line', 2, 3)
  BY <1>2, <1>3, <1>4 DEF Moves
<1>6. 3 <= Cut \/ Cut < 2
  BY CutStep DEF Known
<1>7. LineInv' /\ (On(Line', 10, 0) <=> On(Line, 10, 0))
  BY <1>1, <1>4, <1>5, <1>6, MoveOnLine
<1>8. ~On(Line', 10, 0)
  BY <1>1, <1>7 DEF CsdInv
<1>9. ~On(Line', 2, 0)
  BY <1>8 DEF On, Place
<1> QED
  BY <1>1, <1>7, <1>8, <1>9 DEF CsdInv

(* The configuration is what the packer's thread reads first.              *)
LEMMA CsdOnLine ==
  ASSUME Known, Known', [Next]_vars, LineInv, CsdInv, PackerReadCsd
  PROVE  LineInv' /\ CsdInv'
<1> USE DEF device, callback, manager, queues, video, encoder, packer, caller, history
<1>0. IsLine(Line) /\ IsLine(Line')
  BY LineTyped, LineTypedNext DEF Known
<1>1. /\ UNCHANGED <<written, tspOut, encOut, enc, mInputBufferQueue, mFramesReceived, mgrQueue,
                     taken, InHand, failed>>
      /\ pPc = "readCsd" /\ pPc' = "loop" /\ cPc' = cPc
      /\ escOut # <<>> /\ escOut' = Tail(escOut)
  BY DEF PackerReadCsd, InHand
<1>2. Line[3] # <<>> /\ Line'[3] = Tail(Line[3]) /\ Line[3] = escOut
  BY <1>1, LineIs, LineIsNext
<1>3. \A a \in Place : a # 3 => Line'[a] = Line[a]
  BY <1>1, LineIs, LineIsNext, EveryPlace
<1>4. On(Line, 10, 0) /\ ~On(Line, 2, 0)
  <2>1. Early
    BY <1>1 DEF Early, Known, PackerInv, TypeOK, ThreadsTyped, Starting
  <2> QED
    BY <1>1, <2>1 DEF CsdInv
<1>p. 3 \in Place /\ 2 \in Place /\ 10 \in Place
  BY DEF Place
<1>5. Head(Line[3]) = 0
  <2>1. PICK a \in Place : \E i \in 1..Len(Line[a]) : Line[a][i] = 0
    BY <1>4 DEF On
  <2>2. PICK i \in 1..Len(Line[a]) : Line[a][i] = 0
    BY <2>1
  <2>3. ~(a <= 2)
    <3> SUFFICES ASSUME a <= 2 PROVE FALSE
      OBVIOUS
    <3>1. On(Line, 2, 0)
      BY <2>2, OnAt
    <3> QED
      BY <1>4, <3>1
  <2>4. Line[3] \in Seq(Nat) /\ 1 \in 1..Len(Line[3]) /\ Line[3][1] \in Nat
    <3>1. Line[3] \in Seq(Nat)
      BY <1>0, <1>p DEF IsLine
    <3>2. Line[3] # <<>>
      BY <1>2
    <3>3. \A s \in Seq(Nat) : s # <<>> => 1 \in 1..Len(s) /\ s[1] \in Nat
      OBVIOUS
    <3> QED
      BY <3>1, <3>2, <3>3
  <2>5. ~(3 < a \/ (3 = a /\ 1 < i))
    <3>1. 3 < a \/ (3 = a /\ 1 < i) => Line[3][1] < Line[a][i]
      BY <1>p, <2>2, <2>4 DEF LineInv, Ordered
    <3> QED
      BY <2>2, <2>4, <3>1
  <2>6. a = 3 /\ i = 1
    BY <2>3, <2>5 DEF Place
  <2> QED
    BY <1>2, <2>2, <2>6
<1>6. LosesHead(Line, Line', 3) /\ Released(Head(Line[3]), failed, failed')
  BY <1>1, <1>2, <1>3, <1>5 DEF LosesHead, Released
<1>7. Cut \in Place
  BY CutStep DEF Known, Place
<1>8. Ordered(Line') /\ NoGap(Line', Cut, failed')
  BY <1>0, <1>6, <1>7, <1>p, HeadGone DEF LineInv
<1>9. ~On(Line', 10, 0)
  <2> SUFFICES ASSUME On(Line', 10, 0) PROVE FALSE
    OBVIOUS
  <2>1. PICK a \in Place : \E i \in 1..Len(Line'[a]) : Line'[a][i] = 0
    BY DEF On
  <2>2. PICK i \in 1..Len(Line'[a]) : Line'[a][i] = 0
    BY <2>1
  <2>3. Line[3] \in Seq(Nat) /\ 1 \in 1..Len(Line[3]) /\ Line[3][1] = 0
    BY <1>0, <1>2, <1>5, <1>p DEF IsLine
  <2>4. CASE a = 3
    <3> DEFINE t == Tail(Line[3])
    <3>0. i \in 1..Len(t) /\ t[i] = 0
      BY <1>2, <2>2, <2>4
    <3>1. i + 1 \in 1..Len(Line[3]) /\ Line[3][i + 1] = 0 /\ 1 < i + 1
      BY <1>2, <2>3, <3>0
    <3>2. Line[3][1] < Line[3][i + 1]
      BY <1>p, <2>3, <3>1 DEF LineInv, Ordered
    <3> QED
      BY <2>3, <3>1, <3>2
  <2>5. CASE a # 3
    <3>1. i \in 1..Len(Line[a]) /\ Line[a][i] = 0
      BY <1>3, <2>2, <2>5
    <3>2. ~(a <= 2)
      BY <1>4, <3>1 DEF On
    <3>3. 3 < a
      BY <2>5, <3>2 DEF Place
    <3>4. Line[3][1] < Line[a][i]
      BY <1>p, <2>3, <3>1, <3>3, OrderedAt DEF LineInv
    <3> QED
      BY <2>3, <3>1, <3>4
  <2> QED
    BY <2>4, <2>5
<1>10. ~On(Line', 2, 0)
  BY <1>9 DEF On, Place
<1> QED
  BY <1>1, <1>8, <1>9, <1>10, LineKept DEF CsdInv

LEMMA WriteOnLine ==
  ASSUME Known, Known', [Next]_vars, LineInv, CsdInv, WritePackets
  PROVE  LineInv' /\ CsdInv'
<1> USE DEF device, callback, manager, queues, video, encoder, packer, caller, history
<1>1. /\ UNCHANGED <<escOut, encOut, enc, mInputBufferQueue, mFramesReceived, mgrQueue, taken,
                     InHand, failed>>
      /\ pPc' = pPc /\ cPc' # "init" /\ Early
  BY DEF WritePackets, InHand, Early
<1>2. /\ Line[2] # <<>> /\ Line'[2] = Tail(Line[2])
      /\ Line'[1] = Append(Line[1], Head(Line[2]))
  <2>1. tspOut # <<>> /\ tspOut' = Tail(tspOut) /\ written' = Append(written, Head(tspOut))
    BY DEF WritePackets
  <2> QED
    BY <2>1, LineIs, LineIsNext
<1>3. \A a \in Place : a # 1 /\ a # 2 => Line'[a] = Line[a]
  BY <1>1, LineIs, LineIsNext, EveryPlace
<1>4. 1 \in Place /\ 2 \in Place /\ 1 < 2 /\ \A a \in Place : ~(1 < a /\ a < 2)
  BY DEF Place
<1>5. Moves(Line, Line', 1, 2)
  BY <1>2, <1>3, <1>4 DEF Moves
<1>6. (2 <= Cut \/ Cut < 1) /\ (2 <= 2 \/ 2 < 1)
  BY DEF WritePackets, Cut, Known, ThreadInv, TornDown
<1>7. /\ LineInv' /\ (On(Line', 10, 0) <=> On(Line, 10, 0))
      /\ On(Line', 2, 0) => On(Line, 2, 0)
  BY <1>1, <1>4, <1>5, <1>6, MoveOnLine
<1> QED
  BY <1>1, <1>7, CsdKept DEF SameRead

LEMMA StartOnLine ==
  ASSUME Known, Known', [Next]_vars, LineInv, CsdInv, StartDevice \/ StartFails
  PROVE  LineInv' /\ CsdInv'
<1> USE DEF device, callback, manager, queues, video, encoder, packer, caller, history
<1>0. IsLine(Line) /\ IsLine(Line')
  BY LineTyped, LineTypedNext DEF Known
<1>1. /\ UNCHANGED <<written, tspOut, escOut, enc, mInputBufferQueue, mFramesReceived, mgrQueue,
                     taken, InHand, failed>>
      /\ pPc' = pPc /\ cPc = "init" /\ cPc' # "init" /\ encOut' = <<0>>
  BY DEF StartDevice, StartFails, InHand, Csd
<1>2. /\ pPc = "none" /\ written = <<>> /\ tspOut = <<>> /\ escOut = <<>> /\ encOut = <<>>
      /\ Cut = 10
  BY <1>1 DEF Known, PackerInv, Cut, Starting, TornDown
<1>3. \A a \in Place : a <= 4 => Line[a] = <<>>
  <2>1. \A a \in Place : a <= 4 => a \in {1, 2, 3, 4}
    BY DEF Place
  <2> QED
    BY <1>2, <2>1, LineIs
<1>4. Line'[4] = <<0>> /\ \A a \in Place : a # 4 => Line'[a] = Line[a]
  BY <1>1, LineIs, LineIsNext, EveryPlace
<1>5. ~On(Line, 10, 0)
  BY <1>1 DEF CsdInv
<1>6. Ordered(Line') /\ NoGap(Line', 10, failed) /\ On(Line', 10, 0) /\ ~On(Line', 2, 0)
  BY <1>0, <1>2, <1>3, <1>4, <1>5, ConfigurationFirst DEF LineInv
<1> QED
  BY <1>1, <1>2, <1>6, LineKept DEF CsdInv

(* What stop drops cannot come into the file any more.                     *)
LEMMA StopOnLine ==
  ASSUME Known, Known', [Next]_vars, LineInv, CsdInv,
         DrainFrame \/ DrainEnd \/ ResetManager \/ StopEncoder
  PROVE  LineInv' /\ CsdInv'
<1> USE DEF device, callback, manager, queues, video, encoder, packer, caller, history
<1>1. /\ UNCHANGED <<written, tspOut, escOut, taken, InHand, failed>>
      /\ pPc' = pPc /\ cPc' # "init" /\ ~Early'
      /\ cPc \in {"drain", "mgrReset", "encStop"}
      /\ cPc' \in {"drained", "mgrStop", "encStop", "uninit"}
  BY DEF DrainFrame, DrainEnd, ResetManager, StopEncoder, InHand, Early, Starting
<1>2. Cut = 1 /\ Cut' = 1
  BY <1>1 DEF Cut, TornDown
<1>3. Nums(<<>>) = <<>>
  BY DEF Nums
<1>4. \A a \in Place : a \in {1, 2, 3, 8, 10} => Line'[a] = Line[a]
  BY <1>1, LineIs, LineIsNext
<1>5. \/ Line'[7] = Line[7]
      \/ Line'[7] = <<>>
      \/ Line[7] # <<>> /\ Line'[7] = Tail(Line[7])
  <2>1. \/ mFramesReceived' = mFramesReceived
        \/ mFramesReceived # <<>> /\ mFramesReceived' = Tail(mFramesReceived)
    BY DEF DrainFrame, DrainEnd, ResetManager, StopEncoder
  <2> QED
    BY <2>1, LineIs, LineIsNext, NumsOf DEF Known, TypeOK, FramesTyped
<1>6. \/ Line'[6] = Line[6]
      \/ Line'[6] = <<>>
      \/ Line[6] # <<>> /\ Line'[6] = Tail(Line[6])
  <2>1. \/ mInputBufferQueue' = mInputBufferQueue \/ mInputBufferQueue' = <<>>
        \/ mInputBufferQueue # <<>> /\ mInputBufferQueue' = Tail(mInputBufferQueue)
    BY DEF DrainFrame, DrainEnd, ResetManager, StopEncoder
  <2> QED
    BY <1>3, <2>1, LineIs, LineIsNext, NumsOf DEF Known, TypeOK, FramesTyped
<1>7. \/ Line'[9] = Line[9] \/ Line'[9] = <<>>
  <2>1. mgrQueue' = mgrQueue \/ mgrQueue' = <<>>
    BY DEF DrainFrame, DrainEnd, ResetManager, StopEncoder
  <2> QED
    BY <1>3, <2>1, LineIs, LineIsNext
<1>8. /\ Line'[4] = Line[4] \/ Line'[4] = <<>>
      /\ Line'[5] = Line[5] \/ Line'[5] = <<>>
  <2>1. /\ encOut' = encOut \/ encOut' = <<>>
        /\ enc' = enc \/ enc' = <<>>
    BY DEF DrainFrame, DrainEnd, ResetManager, StopEncoder
  <2> QED
    BY <1>3, <2>1, LineIs, LineIsNext
<1>9. Drops(Line, Line')
  BY <1>4, <1>5, <1>6, <1>7, <1>8, EveryPlace DEF Drops
<1>10. /\ Cut' \in Place /\ Cut' <= Cut /\ Cut' <= Cut'
       /\ \A a \in Place : a <= Cut' => Line'[a] = Line[a]
  <2>1. \A a \in Place : a <= 1 => a = 1
    BY DEF Place
  <2> QED
    BY <1>2, <1>4, <2>1 DEF Place
<1>11. /\ LineInv'
       /\ On(Line', 10, 0) => On(Line, 10, 0)
       /\ On(Line', 2, 0) => On(Line, 2, 0)
  BY <1>1, <1>9, <1>10, DropOnLine
<1> QED
  BY <1>1, <1>11, CsdKeptLate

----------------------------------------------------------------------------
(* The invariants.                                                         *)

LEMMA LineStep ==
  ASSUME Known, Known', [Next]_vars, LineInv, CsdInv
  PROVE  LineInv' /\ CsdInv'
<1> USE DEF device, callback, manager, queues, video, encoder, packer, caller, history
<1> DEFINE others == <<written, tspOut, escOut, encOut, enc, mInputBufferQueue, mFramesReceived,
                       mgrQueue, taken, InHand>>
<1>s. ASSUME UNCHANGED others, failed' = failed,
             SameRead, cPc' = "init" => cPc = "init", Early' => Early
      PROVE  LineInv' /\ CsdInv'
  <2>1. Line' = Line
    BY <1>s, LineSame
  <2> QED
    BY <1>s, <2>1, LineKept, CsdKept DEF LineInv
<1>1. ASSUME NEW b \in Buffers, Capture(b) PROVE LineInv' /\ CsdInv'
  BY <1>1, <1>s DEF Capture, InHand, Early, SameRead
<1>2. CASE CallbackTest \/ CallbackError
  BY <1>2, <1>s DEF CallbackTest, CallbackError, Unwanted, InHand, Early, SameRead
<1>3. CASE DequeueInput
  BY <1>3, <1>s DEF DequeueInput, InHand, Early, SameRead
<1>4. CASE VideoTest
  <2>1. UNCHANGED others /\ failed' = failed /\ pPc' = pPc
    BY <1>4 DEF VideoTest, InHand
  <2>2. (cPc' = "init" => cPc = "init") /\ (Early' => Early)
    BY <1>4 DEF VideoTest, Early, Starting
  <2> QED
    BY <1>s, <2>1, <2>2 DEF SameRead
<1>5. CASE ReturnBuffer \/ PackerExit \/ PackerTest \/ PackerFindsNothing
  BY <1>5, <1>s DEF ReturnBuffer, PackerExit, PackerTest, PackerFindsNothing, InHand, Early,
                    SameRead
<1>6. CASE StartConvertor
  <2>1. vPc # "got" /\ vPc' # "got"
    BY <1>6 DEF StartConvertor, Known, ThreadInv
  <2>2. UNCHANGED others /\ failed' = failed /\ pPc' = pPc
    BY <1>6, <2>1 DEF StartConvertor, InHand
  <2>3. cPc' # "init" /\ Early
    BY <1>6 DEF StartConvertor, Early, Starting
  <2> QED
    BY <1>s, <2>2, <2>3 DEF SameRead
<1>7. CASE StartManager \/ CreatePacker \/ StartPacker
  <2>1. UNCHANGED others /\ failed' = failed
        /\ (pPc' = pPc \/ (pPc = "none" /\ pPc' = "csd"))
    BY <1>7 DEF StartManager, CreatePacker, StartPacker, InHand, Known, PackerInv
  <2>2. cPc' # "init" /\ Early
    BY <1>7 DEF StartManager, CreatePacker, StartPacker, Early, Starting
  <2> QED
    BY <1>s, <2>1, <2>2 DEF SameRead
<1>8. CASE StopPacker \/ StopConvertor \/ WaitForThread \/ WaitTimeout
  <2>1. UNCHANGED others /\ failed' = failed /\ pPc' = pPc
    BY <1>8 DEF StopPacker, StopConvertor, WaitForThread, WaitTimeout, InHand
  <2>2. cPc' # "init" /\ ~Early'
    BY <1>8 DEF StopPacker, StopConvertor, WaitForThread, WaitTimeout, Early, Starting
  <2> QED
    BY <1>s, <2>1, <2>2 DEF SameRead
<1>9. CASE DrainFree \/ StopManager \/ Uninit
  <2>1. UNCHANGED others /\ failed' = failed /\ pPc' = pPc
    BY <1>9 DEF DrainFree, StopManager, Uninit, InHand
  <2>2. cPc' # "init" /\ ~Early'
    BY <1>9 DEF DrainFree, StopManager, Uninit, Early, Starting
  <2> QED
    BY <1>s, <2>1, <2>2 DEF SameRead
<1>10. CASE UNCHANGED vars
  BY <1>10, <1>s DEF vars, InHand, Early, SameRead
<1>11. CASE CallbackDeliver
  BY <1>11, DeliverOnLine
<1>12. CASE ReadBuffer
  BY <1>12, ReadOnLine
<1>13. CASE KeepFrame
  BY <1>13, KeepOnLine
<1>14. CASE Feed
  BY <1>14, FeedOnLine
<1>15. CASE DequeueOutput
  BY <1>15, OutputOnLine
<1>16. CASE Encode
  BY <1>16, EncodeOnLine
<1>17. CASE PackerReadCsd
  BY <1>17, CsdOnLine
<1>18. CASE PackerRead
  BY <1>18, PackerReadOnLine
<1>19. CASE StartDevice \/ StartFails
  BY <1>19, StartOnLine
<1>20. CASE WritePackets
  BY <1>20, WriteOnLine
<1>21. CASE DrainFrame \/ DrainEnd \/ ResetManager \/ StopEncoder
  BY <1>21, StopOnLine
<1> QED
  BY <1>1, <1>2, <1>3, <1>4, <1>5, <1>6, <1>7, <1>8, <1>9, <1>10, <1>11, <1>12, <1>13, <1>14,
     <1>15, <1>16, <1>17, <1>18, <1>19, <1>20, <1>21
     DEF Next, Callback, VideoThread, Codec, Packer, Caller

LEMMA PackerStep ==
  ASSUME TypeOK, HolderInv, ThreadInv, RunningInv, PackerInv, [Next]_vars
  PROVE  PackerInv'
<1> USE DEF PackerInv, Stopping, device, callback, manager, queues, video, encoder, packer,
            caller, history
<1>s. soft' = soft
  BY SoftStays
<1>1. ASSUME NEW b \in Buffers, Capture(b) PROVE PackerInv'
  BY <1>1 DEF Capture
<1>2. CASE CallbackTest \/ CallbackError \/ CallbackDeliver
  BY <1>2 DEF CallbackTest, CallbackError, Unwanted, CallbackDeliver
<1>3. CASE DequeueInput \/ ReadBuffer
  BY <1>3 DEF DequeueInput, ReadBuffer
<1>4. CASE KeepFrame
  BY <1>4 DEF KeepFrame
<1>5. CASE Feed
  <2>1. soft => mFramesReceived' = mFramesReceived
    BY <1>5 DEF Feed
  <2>2. UNCHANGED <<pPc, cPc, tspStarted, encOut, escOut, tspOut, written>>
    BY <1>5 DEF Feed
  <2> QED
    BY <1>s, <2>1, <2>2
<1>6. CASE DequeueOutput
  <2>1. cPc # "init"
    BY <1>6 DEF DequeueOutput, ThreadInv
  <2> QED
    BY <1>6, <2>1 DEF DequeueOutput
<1>7. CASE VideoTest
  BY <1>7 DEF VideoTest
<1>8. CASE Encode
  <2>1. cPc # "init"
    BY <1>8 DEF Encode, RunningInv, TornDown
  <2> QED
    BY <1>8, <2>1 DEF Encode
<1>9. CASE ReturnBuffer
  BY <1>9 DEF ReturnBuffer
<1>10. CASE Packer
  BY <1>10 DEF Packer, PackerTest, PackerFindsNothing, PackerReadCsd, PackerRead, PackerExit
<1>11. CASE StartDevice
  BY <1>11 DEF StartDevice
<1>12. CASE StartFails
  BY <1>12 DEF StartFails
<1>13. CASE StartManager
  BY <1>13 DEF StartManager
<1>14. CASE StartConvertor
  BY <1>14 DEF StartConvertor
<1>15. CASE CreatePacker
  BY <1>15 DEF CreatePacker
<1>16. CASE StartPacker
  BY <1>16 DEF StartPacker
<1>17. CASE WritePackets
  BY <1>17 DEF WritePackets
<1>18. CASE StopPacker
  BY <1>18 DEF StopPacker
<1>19. CASE StopConvertor \/ WaitForThread \/ WaitTimeout
  BY <1>19 DEF StopConvertor, WaitForThread, WaitTimeout
<1>20. CASE DrainFrame
  BY <1>20 DEF DrainFrame
<1>21. CASE DrainFree \/ DrainEnd
  BY <1>21 DEF DrainFree, DrainEnd
<1>22. CASE StopManager \/ ResetManager
  BY <1>22 DEF StopManager, ResetManager
<1>23. CASE StopEncoder \/ Uninit
  BY <1>23 DEF StopEncoder, Uninit
<1>24. CASE UNCHANGED vars
  BY <1>24 DEF vars
<1> QED
  BY <1>1, <1>2, <1>3, <1>4, <1>5, <1>6, <1>7, <1>8, <1>9, <1>10, <1>11, <1>12, <1>13, <1>14,
     <1>15, <1>16, <1>17, <1>18, <1>19, <1>20, <1>21, <1>22, <1>23, <1>24
     DEF Next, Callback, VideoThread, Codec, Caller

FileInv == LineInv /\ PackerInv /\ CsdInv

LEMMA FileInit == Init => FileInv
<1> SUFFICES ASSUME Init PROVE FileInv
  OBVIOUS
<1>1. Nums(<<>>) = <<>> /\ InHand = <<>> /\ taken = 0
  BY DEF Init, Nums, InHand
<1>2. \A a \in Place : a # 10 => Line[a] = <<>>
  BY <1>1, LineIs, EveryPlace DEF Init
<1>3. Line[10] = <<1>> /\ 10 \in Place
  BY <1>1, LineIs DEF Place
<1>4. ASSUME NEW a \in Place, NEW i \in 1..Len(Line[a]) PROVE a = 10 /\ i = 1 /\ Line[a][i] = 1
  <2>1. a = 10
    BY <1>2
  <2>2. i \in 1..1
    BY <1>3, <2>1
  <2> QED
    BY <1>3, <2>1, <2>2
<1>5. Ordered(Line)
  BY <1>4 DEF Ordered
<1>6. ASSUME NEW c, NEW n, On(Line, c, n) PROVE n = 1
  BY <1>4, <1>6 DEF On
<1>7. NoGap(Line, Cut, failed)
  <2> SUFFICES ASSUME NEW m \in Nat, NEW n \in Nat, On(Line, Cut, m), 0 < n, n < m PROVE FALSE
    BY DEF NoGap
  <2>1. m = 1
    BY <1>6
  <2> QED
    BY <2>1
<1>8. PackerInv
  BY DEF Init, PackerInv, Stopping
<1>9. CsdInv
  <2>1. ~On(Line, 2, 0) /\ ~On(Line, 10, 0)
    BY <1>6
  <2>2. ~Early
    BY DEF Init, Early, Starting
  <2> QED
    BY <2>1, <2>2 DEF CsdInv
<1> QED
  BY <1>5, <1>7, <1>8, <1>9 DEF FileInv, LineInv

LEMMA FileStep == IInv /\ IInv' /\ FileInv /\ [Next]_vars => FileInv'
<1> SUFFICES ASSUME IInv, IInv', FileInv, [Next]_vars PROVE FileInv'
  OBVIOUS
<1>1. PackerInv'
  BY PackerStep DEF IInv, FileInv
<1>2. Known /\ Known'
  BY <1>1 DEF Known, IInv, FileInv
<1>3. LineInv' /\ CsdInv'
  BY <1>2, LineStep DEF FileInv
<1> QED
  BY <1>1, <1>3 DEF FileInv

LEMMA NoGapInFile == IInv /\ FileInv => RecordingHasNoGap
<1> SUFFICES ASSUME IInv, FileInv, NEW i \in 1..Len(written)
             PROVE  LET before == IF i = 1 THEN 0 ELSE written[i - 1]
                    IN  /\ before < written[i]
                        /\ before + 1 .. written[i] - 1 \subseteq failed
  BY DEF RecordingHasNoGap
<1> DEFINE before == IF i = 1 THEN 0 ELSE written[i - 1]
<1>p. 1 \in Place /\ 1 <= 2 /\ Line[1] = written /\ Cut \in Nat /\ 1 <= Cut
  BY LineIs DEF Place, Cut
<1>0. written \in Seq(Nat) /\ written[i] \in Nat /\ i \in Int
  BY RecordAssumption DEF IInv, TypeOK, UnitsTyped, EsUnit, RecordAssumption
<1>1. written[i] # 0
  BY <1>p DEF FileInv, CsdInv, On
<1>2. i # 1 => i - 1 \in 1..Len(written) /\ written[i - 1] \in Nat
  BY <1>0
<1>3. i # 1 => written[i - 1] < written[i]
  BY <1>p, <1>0, <1>2 DEF FileInv, LineInv, Ordered
<1>4. before \in Nat /\ before < written[i]
  BY <1>0, <1>1, <1>2, <1>3
<1>5. ASSUME NEW n \in before + 1 .. written[i] - 1 PROVE n \in failed
  <2>1. n \in Nat /\ 0 < n /\ before < n /\ n < written[i]
    BY <1>0, <1>4, <1>5
  <2>2. On(Line, Cut, written[i])
    BY <1>p DEF On
  <2>3. On(Line, Cut, n) \/ n \in failed
    BY <1>0, <2>1, <2>2 DEF FileInv, LineInv, NoGap
  <2>4. ASSUME On(Line, Cut, n) PROVE FALSE
    <3>1. PICK a \in Place : \E j \in 1..Len(Line[a]) : Line[a][j] = n
      BY <2>4 DEF On
    <3>2. PICK j \in 1..Len(Line[a]) : Line[a][j] = n
      BY <3>1
    <3>3. a = 1 \/ 1 < a
      BY DEF Place
    <3>4. CASE 1 < a
      <4>1. Line[1][i] < Line[a][j]
        BY <1>p, <3>2, <3>4, OrderedAt DEF FileInv, LineInv
      <4> QED
        BY <1>0, <1>p, <2>1, <3>2, <4>1
    <3>5. CASE a = 1
      <4>1. j \in 1..Len(written) /\ written[j] = n
        BY <1>p, <3>2, <3>5
      <4>2. \A s, t \in 1..Len(written) : s < t => written[s] < written[t]
        BY <1>p DEF FileInv, LineInv, Ordered
      <4>3. j < i
        <5>1. ~(i < j)
          BY <1>0, <2>1, <4>1, <4>2
        <5>2. i # j
          BY <1>0, <2>1, <4>1
        <5> QED
          BY <1>0, <4>1, <5>1, <5>2
      <4>4. CASE j = i - 1
        BY <1>0, <2>1, <4>1, <4>3, <4>4
      <4>5. CASE j < i - 1
        <5>1. i # 1 /\ i - 1 \in 1..Len(written) /\ written[i - 1] \in Nat
          <6>1. j >= 1 /\ j \in Int
            BY <4>1
          <6>2. i # 1
            BY <1>0, <4>5, <6>1
          <6> QED
            BY <1>2, <6>2
        <5>2. written[j] < written[i - 1]
          BY <4>1, <4>2, <4>5, <5>1
        <5>3. before = written[i - 1]
          BY <5>1
        <5> QED
          BY <2>1, <4>1, <5>1, <5>2, <5>3
      <4> QED
        BY <1>0, <4>1, <4>3, <4>4, <4>5
    <3> QED
      BY <3>3, <3>4, <3>5
  <2> QED
    BY <2>3, <2>4
<1> QED
  BY <1>4, <1>5

(* The file has the frames in the order they were captured in, none twice  *)
(* and none missing that the encoder took, for both paths and whatever the *)
(* threads' interleaving (dataCallBack, threadVideoFunc, TSPacker's thread *)
(* and startScreenRecord).                                                 *)
THEOREM RecordingNeverHasGap == Spec => []RecordingHasNoGap
BY FileStep, FileInit, NoGapInFile, Invariance, PTL DEF Spec

----------------------------------------------------------------------------
(* The recording as a FrameStream.                                         *)

(* Frames and numbers in queues.                                           *)
Has(q, n) == \E i \in 1..Len(q) : q[i] = n
HasFrame(q, n) == \E i \in 1..Len(q) : q[i].n = n

LEMMA HasAppend ==
  ASSUME NEW S, NEW q \in Seq(S), NEW x \in S, NEW n
  PROVE  /\ Has(Append(q, x), n) => Has(q, n) \/ n = x
         /\ HasFrame(Append(q, x), n) => HasFrame(q, n) \/ n = x.n
<1> DEFINE r == Append(q, x)
<1>1. /\ Len(q) \in Nat /\ Len(r) = Len(q) + 1 /\ r[Len(q) + 1] = x
      /\ \A i \in 1..Len(q) : r[i] = q[i]
  OBVIOUS
<1> HIDE DEF r
<1>2. \A i \in 1..Len(r) : i = Len(q) + 1 \/ i \in 1..Len(q)
  BY <1>1
<1>3. (Has(r, n) => Has(q, n) \/ n = x) /\ (HasFrame(r, n) => HasFrame(q, n) \/ n = x.n)
  BY <1>1, <1>2 DEF Has, HasFrame
<1> QED
  BY <1>3 DEF r

LEMMA HasHeadTail ==
  ASSUME NEW S, NEW q \in Seq(S), q # <<>>, NEW n
  PROVE  /\ Has(q, Head(q)) /\ HasFrame(q, Head(q).n)
         /\ Has(Tail(q), n) => Has(q, n)
         /\ HasFrame(Tail(q), n) => HasFrame(q, n)
<1> DEFINE t == Tail(q)
           h == Head(q)
<1>1. 1 \in 1..Len(q) /\ q[1] = h
  OBVIOUS
<1>2. \A i \in 1..Len(t) : i + 1 \in 1..Len(q) /\ t[i] = q[i + 1]
  OBVIOUS
<1> HIDE DEF t, h
<1>3. /\ Has(q, h) /\ HasFrame(q, h.n)
      /\ Has(t, n) => Has(q, n)
      /\ HasFrame(t, n) => HasFrame(q, n)
  BY <1>1, <1>2 DEF Has, HasFrame
<1> QED
  BY <1>3 DEF t, h

(* A frame is somewhere between the device and the file, or in the file.   *)
Units(n) == Has(written, n) \/ Has(tspOut, n) \/ Has(escOut, n) \/ Has(encOut, n)
Frames(n) ==
  \/ HasFrame(enc, n) \/ HasFrame(mInputBufferQueue, n) \/ HasFrame(mFramesReceived, n)
  \/ vPc = "got" /\ vFrame.n = n
  \/ HasFrame(mgrQueue, n)
Somewhere(n) == Units(n) \/ Frames(n)

LEMMA NumsHas ==
  ASSUME NEW q, Len(q) \in Nat, NEW n
  PROVE  HasFrame(q, n) <=> \E i \in 1..Len(Nums(q)) : Nums(q)[i] = n
<1>1. Len(Nums(q)) = Len(q) /\ \A i \in 1..Len(q) : Nums(q)[i] = q[i].n
  BY DEF Nums
<1> QED
  BY <1>1 DEF HasFrame

LEMMA OnIsSomewhere == FramesTyped => \A n : On(Line, 10, n) <=> Somewhere(n) \/ n = taken + 1
<1> SUFFICES ASSUME FramesTyped, NEW n PROVE On(Line, 10, n) <=> Somewhere(n) \/ n = taken + 1
  OBVIOUS
<1> DEFINE At(a) == \E i \in 1..Len(Line[a]) : Line[a][i] = n
<1>1. On(Line, 10, n) <=> \E a \in Place : At(a)
  <2>1. \A a \in Place : a <= 10
    BY DEF Place
  <2> QED
    BY <2>1 DEF On
<1>2. /\ At(1) <=> Has(written, n)
      /\ At(2) <=> Has(tspOut, n)
      /\ At(3) <=> Has(escOut, n)
      /\ At(4) <=> Has(encOut, n)
  BY LineIs DEF Has
<1>3. /\ At(5) <=> HasFrame(enc, n)
      /\ At(6) <=> HasFrame(mInputBufferQueue, n)
      /\ At(7) <=> HasFrame(mFramesReceived, n)
      /\ At(9) <=> HasFrame(mgrQueue, n)
  <2>1. /\ Line[5] = Nums(enc) /\ Line[6] = Nums(mInputBufferQueue)
        /\ Line[7] = Nums(mFramesReceived) /\ Line[9] = Nums(mgrQueue)
    BY LineIs
  <2>2. /\ Len(enc) \in Nat /\ Len(mInputBufferQueue) \in Nat
        /\ Len(mFramesReceived) \in Nat /\ Len(mgrQueue) \in Nat
    BY DEF FramesTyped
  <2>3. At(5) <=> HasFrame(enc, n)
    BY <2>1, <2>2, NumsHas
  <2>4. At(6) <=> HasFrame(mInputBufferQueue, n)
    BY <2>1, <2>2, NumsHas
  <2>5. At(7) <=> HasFrame(mFramesReceived, n)
    BY <2>1, <2>2, NumsHas
  <2>6. At(9) <=> HasFrame(mgrQueue, n)
    BY <2>1, <2>2, NumsHas
  <2> QED
    BY <2>3, <2>4, <2>5, <2>6
<1>4. At(8) <=> (vPc = "got" /\ vFrame.n = n)
  BY LineIs DEF InHand
<1>5. At(10) <=> n = taken + 1
  BY LineIs
<1> HIDE DEF At
<1>6. (\E a \in Place : At(a)) <=> \/ At(1) \/ At(2) \/ At(3) \/ At(4) \/ At(5)
                                   \/ At(6) \/ At(7) \/ At(8) \/ At(9) \/ At(10)
  BY DEF Place
<1> QED
  BY <1>1, <1>2, <1>3, <1>4, <1>5, <1>6 DEF Somewhere, Units, Frames

LEMMA OnIsSomewhereNext ==
  FramesTyped' => \A n : On(Line', 10, n) <=> Somewhere(n)' \/ n = taken' + 1
<1>1. (FramesTyped => \A n : On(Line, 10, n) <=> Somewhere(n) \/ n = taken + 1)'
  BY OnIsSomewhere, PTL
<1> QED
  BY <1>1 DEF On

(* What is somewhere was there before, is the configuration, or was taken  *)
(* now.                                                                    *)
LEMMA OnlyTakenComes ==
  ASSUME TypeOK, HolderInv, [Next]_vars, NEW n, Somewhere(n)'
  PROVE  Somewhere(n) \/ n = 0 \/ n = taken + 1
<1> USE DEF device, callback, manager, queues, video, encoder, packer, caller, history
<1>t. /\ mgrQueue \in Seq(Frame) /\ mFramesReceived \in Seq(Frame)
      /\ mInputBufferQueue \in Seq(Frame) /\ enc \in Seq(Frame)
      /\ encOut \in Seq(EsUnit) /\ escOut \in Seq(EsUnit) /\ tspOut \in Seq(EsUnit)
      /\ written \in Seq(EsUnit)
  BY DEF TypeOK, FramesTyped, UnitsTyped
<1>s. Units(n)' \/ Frames(n)'
  BY DEF Somewhere
<1>n. ~Has(<<>>, n) /\ ~HasFrame(<<>>, n)
  BY DEF Has, HasFrame
<1>u. ASSUME UNCHANGED <<written, tspOut, escOut, encOut>> PROVE Units(n)' = Units(n)
  BY <1>u DEF Units
<1>f. ASSUME UNCHANGED <<enc, mInputBufferQueue, mFramesReceived, vPc, vFrame, mgrQueue>>
      PROVE  Frames(n)' = Frames(n)
  BY <1>f DEF Frames
<1>1. ASSUME NEW b \in Buffers, Capture(b) PROVE Somewhere(n)
  BY <1>1, <1>s, <1>u, <1>f DEF Capture, Somewhere
<1>2. CASE CallbackTest \/ CallbackError
  BY <1>2, <1>s, <1>u, <1>f DEF CallbackTest, CallbackError, Unwanted, Somewhere
<1>3. CASE CallbackDeliver
  <2>1. /\ UNCHANGED <<written, tspOut, escOut, encOut>>
        /\ UNCHANGED <<enc, mInputBufferQueue, mFramesReceived, vPc, vFrame>>
    BY <1>3 DEF CallbackDeliver
  <2>2. HasFrame(mgrQueue', n) => HasFrame(mgrQueue, n) \/ n = taken + 1
    <3> DEFINE f == [n |-> taken + 1, b |-> IF HasClient /\ mCanvasClientExist
                                              THEN cbBuf ELSE NoBuffer]
    <3>1. \/ mgrQueue' = mgrQueue
          \/ f \in Frame /\ mgrQueue' = Append(mgrQueue, f)
      <4>1. CASE mgrQueue' = mgrQueue
        BY <4>1
      <4>2. CASE mgrQueue' # mgrQueue
        <5>1. /\ mgrQueue' = Append(mgrQueue, f)
              /\ (HasClient /\ mCanvasClientExist) \/ soft
              /\ cbPc # "idle"
          BY <1>3, <4>2 DEF CallbackDeliver
        <5>2. taken < MaxFrames /\ cbBuf \in Buffers /\ taken + 1 \in 1..MaxFrames
          BY <5>1, RecordAssumption DEF HolderInv, TypeOK, FramesTyped, RecordAssumption
        <5> QED
          BY <5>1, <5>2 DEF HolderInv, Frame
      <4> QED
        BY <4>1, <4>2
    <3>2. f.n = taken + 1
      OBVIOUS
    <3> HIDE DEF f
    <3> QED
      BY <1>t, <3>1, <3>2, HasAppend
  <2> QED
    BY <1>s, <1>u, <2>1, <2>2 DEF Somewhere, Frames
<1>4. CASE DequeueInput
  BY <1>4, <1>s, <1>u DEF DequeueInput, Somewhere, Frames
<1>5. CASE ReadBuffer
  <2>1. /\ UNCHANGED <<written, tspOut, escOut, encOut>>
        /\ UNCHANGED <<enc, mInputBufferQueue, mFramesReceived>>
        /\ \/ vPc' # "got" /\ mgrQueue' = mgrQueue
           \/ mgrQueue # <<>> /\ vFrame' = Head(mgrQueue) /\ mgrQueue' = Tail(mgrQueue)
    BY <1>5 DEF ReadBuffer
  <2>2. \/ vPc' # "got" /\ mgrQueue' = mgrQueue
        \/ /\ HasFrame(mgrQueue, vFrame'.n)
           /\ HasFrame(mgrQueue', n) => HasFrame(mgrQueue, n)
    BY <1>t, <2>1, HasHeadTail
  <2> QED
    BY <1>s, <1>u, <2>1, <2>2 DEF Somewhere, Frames
<1>6. CASE KeepFrame
  <2>1. /\ UNCHANGED <<written, tspOut, escOut, encOut>>
        /\ UNCHANGED <<enc, mgrQueue>>
        /\ vPc = "got" /\ vPc' # "got" /\ vFrame \in Frame
        /\ mFramesReceived' \in {mFramesReceived, Append(mFramesReceived, vFrame)}
        /\ mInputBufferQueue' \in {mInputBufferQueue, Append(mInputBufferQueue, vFrame)}
    BY <1>6 DEF KeepFrame, HolderInv
  <2>2. /\ HasFrame(mFramesReceived', n) => HasFrame(mFramesReceived, n) \/ n = vFrame.n
        /\ HasFrame(mInputBufferQueue', n) => HasFrame(mInputBufferQueue, n) \/ n = vFrame.n
    <3>1. /\ HasFrame(Append(mFramesReceived, vFrame), n)
               => HasFrame(mFramesReceived, n) \/ n = vFrame.n
          /\ HasFrame(Append(mInputBufferQueue, vFrame), n)
               => HasFrame(mInputBufferQueue, n) \/ n = vFrame.n
      BY <1>t, <2>1, HasAppend
    <3> QED
      BY <2>1, <3>1
  <2> QED
    BY <1>s, <1>u, <2>1, <2>2 DEF Somewhere, Frames
<1>7. CASE Feed
  <2>0. /\ UNCHANGED <<written, tspOut, escOut, encOut>>
        /\ UNCHANGED mgrQueue /\ vPc' # "got"
    BY <1>7 DEF Feed
  <2>1. ASSUME NEW q \in Seq(Frame), FeedNothing(q) \/ FeedFrame(q) \/ FeedFails(q)
        PROVE  /\ HasFrame(mInputBufferQueue', n) => HasFrame(q, n)
               /\ HasFrame(enc', n) => HasFrame(q, n) \/ HasFrame(enc, n)
    <3>1. CASE FeedNothing(q)
      BY <3>1 DEF FeedNothing
    <3>2. CASE FeedFrame(q)
      <4>1. /\ q # <<>> /\ Head(q) \in Frame /\ mInputBufferQueue' = Tail(q)
            /\ enc' = Append(enc, Head(q))
        BY <3>2, HeadTail DEF FeedFrame
      <4>2. HasFrame(mInputBufferQueue', n) => HasFrame(q, n)
        BY <4>1, HasHeadTail
      <4>3. HasFrame(q, Head(q).n)
        BY <4>1, HasHeadTail
      <4>4. HasFrame(enc', n) => HasFrame(enc, n) \/ n = Head(q).n
        BY <1>t, <4>1, HasAppend
      <4> QED
        BY <4>2, <4>3, <4>4
    <3>3. CASE FeedFails(q)
      <4>1. q # <<>> /\ mInputBufferQueue' = Tail(q) /\ enc' = enc
        BY <3>3 DEF FeedFails
      <4> QED
        BY <4>1, HasHeadTail
    <3> QED
      BY <2>1, <3>1, <3>2, <3>3
  <2>2. CASE soft
    <3>1. /\ mFramesReceived' = mFramesReceived
          /\ \/ FeedNothing(mInputBufferQueue) \/ FeedFrame(mInputBufferQueue)
             \/ FeedFails(mInputBufferQueue)
      BY <1>7, <2>2 DEF Feed
    <3> QED
      BY <1>s, <1>t, <1>u, <2>0, <2>1, <3>1 DEF Somewhere, Frames
  <2>3. CASE ~soft /\ mFramesReceived = <<>>
    <3>1. UNCHANGED <<mFramesReceived, mInputBufferQueue, enc>>
      BY <1>7, <2>3 DEF Feed
    <3> QED
      BY <1>s, <1>u, <2>0, <3>1 DEF Somewhere, Frames
  <2>4. CASE ~soft /\ mFramesReceived # <<>>
    <3> DEFINE q == Append(mInputBufferQueue, Head(mFramesReceived))
    <3>1. /\ mFramesReceived' = Tail(mFramesReceived)
          /\ FeedNothing(q) \/ FeedFrame(q) \/ FeedFails(q)
      BY <1>7, <2>4 DEF Feed
    <3>2. q \in Seq(Frame) /\ Head(mFramesReceived) \in Frame
      BY <1>t, <2>4, HeadTail
    <3>3. HasFrame(q, n) => HasFrame(mInputBufferQueue, n) \/ n = Head(mFramesReceived).n
      BY <1>t, <3>2, HasAppend
    <3>4. /\ HasFrame(mFramesReceived, Head(mFramesReceived).n)
          /\ HasFrame(mFramesReceived', n) => HasFrame(mFramesReceived, n)
      BY <1>t, <2>4, <3>1, HasHeadTail
    <3> HIDE DEF q
    <3>5. /\ HasFrame(mInputBufferQueue', n) => HasFrame(q, n)
          /\ HasFrame(enc', n) => HasFrame(q, n) \/ HasFrame(enc, n)
      BY <2>1, <3>1, <3>2
    <3> QED
      BY <1>s, <1>u, <2>0, <3>3, <3>4, <3>5 DEF Somewhere, Frames
  <2> QED
    BY <2>2, <2>3, <2>4
<1>8. CASE DequeueOutput
  <2>1. /\ UNCHANGED <<written, tspOut>> /\ vPc # "got" /\ vPc' # "got"
        /\ UNCHANGED <<enc, mInputBufferQueue, mFramesReceived, mgrQueue>>
        /\ \/ UNCHANGED <<encOut, escOut>>
           \/ encOut # <<>> /\ encOut' = Tail(encOut) /\ escOut' = Append(escOut, Head(encOut))
    BY <1>8 DEF DequeueOutput
  <2>2. CASE UNCHANGED <<encOut, escOut>>
    BY <1>s, <1>u, <2>1, <2>2 DEF Somewhere, Frames
  <2>3. CASE encOut # <<>> /\ encOut' = Tail(encOut) /\ escOut' = Append(escOut, Head(encOut))
    <3>1. Head(encOut) \in EsUnit
      BY <1>t, <2>3, HeadTail
    <3>2. /\ Has(escOut', n) => Has(escOut, n) \/ n = Head(encOut)
          /\ Has(encOut', n) => Has(encOut, n)
          /\ Has(encOut, Head(encOut))
      BY <1>t, <2>3, <3>1, HasAppend, HasHeadTail
    <3> QED
      BY <1>s, <2>1, <3>2 DEF Somewhere, Units, Frames
  <2> QED
    BY <2>1, <2>2, <2>3
<1>9. CASE VideoTest
  BY <1>9, <1>s, <1>u DEF VideoTest, Somewhere, Frames
<1>10. CASE Encode
  <2>1. /\ UNCHANGED <<written, tspOut, escOut, vPc, vFrame>>
        /\ UNCHANGED <<mInputBufferQueue, mFramesReceived, mgrQueue>>
        /\ enc # <<>> /\ enc' = Tail(enc) /\ encOut' = Append(encOut, Head(enc).n)
    BY <1>10 DEF Encode
  <2>2. Head(enc).n \in EsUnit
    BY <1>t, <2>1, HeadTail, FrameFields, RecordAssumption DEF EsUnit, RecordAssumption
  <2>3. Has(encOut', n) => Has(encOut, n) \/ n = Head(enc).n
    BY <1>t, <2>1, <2>2, HasAppend
  <2>4. HasFrame(enc, Head(enc).n) /\ (HasFrame(enc', n) => HasFrame(enc, n))
    BY <1>t, <2>1, HasHeadTail
  <2> QED
    BY <1>s, <2>1, <2>3, <2>4 DEF Somewhere, Units, Frames
<1>11. CASE ReturnBuffer
  BY <1>11, <1>s, <1>u, <1>f DEF ReturnBuffer, Somewhere
<1>12. CASE PackerReadCsd
  <2>1. /\ UNCHANGED <<written, tspOut, encOut>> /\ escOut # <<>> /\ escOut' = Tail(escOut)
        /\ UNCHANGED <<enc, mInputBufferQueue, mFramesReceived, vPc, vFrame, mgrQueue>>
    BY <1>12 DEF PackerReadCsd
  <2>2. Has(escOut', n) => Has(escOut, n)
    BY <1>t, <2>1, HasHeadTail
  <2> QED
    BY <1>s, <1>f, <2>1, <2>2 DEF Somewhere, Units
<1>13. CASE PackerRead
  <2>1. /\ UNCHANGED <<written, encOut>> /\ escOut # <<>> /\ escOut' = Tail(escOut)
        /\ tspOut' = Append(tspOut, Head(escOut))
        /\ UNCHANGED <<enc, mInputBufferQueue, mFramesReceived, vPc, vFrame, mgrQueue>>
    BY <1>13 DEF PackerRead
  <2>2. Head(escOut) \in EsUnit
    BY <1>t, <2>1, HeadTail
  <2>3. Has(escOut, Head(escOut)) /\ (Has(escOut', n) => Has(escOut, n))
    BY <1>t, <2>1, HasHeadTail
  <2>4. Has(tspOut', n) => Has(tspOut, n) \/ n = Head(escOut)
    BY <1>t, <2>1, <2>2, HasAppend
  <2> QED
    BY <1>s, <1>f, <2>1, <2>3, <2>4 DEF Somewhere, Units
<1>14. CASE PackerTest \/ PackerFindsNothing \/ PackerExit
  BY <1>14, <1>s, <1>u, <1>f DEF PackerTest, PackerFindsNothing, PackerExit, Somewhere
<1>15. CASE StartDevice \/ StartFails
  <2>1. /\ UNCHANGED <<written, tspOut, escOut>> /\ encOut' = <<0>>
        /\ UNCHANGED <<enc, mInputBufferQueue, mFramesReceived, vPc, vFrame, mgrQueue>>
    BY <1>15 DEF StartDevice, StartFails, Csd
  <2>2. Has(encOut', n) => n = 0
    BY <2>1 DEF Has
  <2> QED
    BY <1>s, <1>f, <2>1, <2>2 DEF Somewhere, Units
<1>16. CASE StartConvertor
  BY <1>16, <1>s, <1>u DEF StartConvertor, Somewhere, Frames
<1>17. CASE StartManager \/ CreatePacker \/ StartPacker
  BY <1>17, <1>s, <1>u, <1>f DEF StartManager, CreatePacker, StartPacker, Somewhere
<1>18. CASE WritePackets
  <2>1. /\ UNCHANGED <<escOut, encOut>> /\ tspOut # <<>> /\ tspOut' = Tail(tspOut)
        /\ written' = Append(written, Head(tspOut))
        /\ UNCHANGED <<enc, mInputBufferQueue, mFramesReceived, vPc, vFrame, mgrQueue>>
    BY <1>18 DEF WritePackets
  <2>2. Head(tspOut) \in EsUnit
    BY <1>t, <2>1, HeadTail
  <2>3. Has(tspOut, Head(tspOut)) /\ (Has(tspOut', n) => Has(tspOut, n))
    BY <1>t, <2>1, HasHeadTail
  <2>4. Has(written', n) => Has(written, n) \/ n = Head(tspOut)
    BY <1>t, <2>1, <2>2, HasAppend
  <2> QED
    BY <1>s, <1>f, <2>1, <2>3, <2>4 DEF Somewhere, Units
<1>19. CASE \/ StopPacker \/ StopConvertor \/ WaitForThread \/ WaitTimeout \/ DrainFree
            \/ StopManager \/ Uninit
  BY <1>19, <1>s, <1>u, <1>f DEF StopPacker, StopConvertor, WaitForThread, WaitTimeout,
                                 DrainFree, StopManager, Uninit, Somewhere
<1>20. CASE DrainFrame
  <2>1. /\ UNCHANGED <<written, tspOut, escOut, encOut>>
        /\ UNCHANGED <<enc, vPc, vFrame, mgrQueue>>
        /\ \/ mFramesReceived' = mFramesReceived
           \/ mFramesReceived # <<>> /\ mFramesReceived' = Tail(mFramesReceived)
        /\ \/ mInputBufferQueue' = mInputBufferQueue
           \/ mInputBufferQueue # <<>> /\ mInputBufferQueue' = Tail(mInputBufferQueue)
    BY <1>20 DEF DrainFrame
  <2>2. /\ HasFrame(mFramesReceived', n) => HasFrame(mFramesReceived, n)
        /\ HasFrame(mInputBufferQueue', n) => HasFrame(mInputBufferQueue, n)
    BY <1>t, <2>1, HasHeadTail
  <2> QED
    BY <1>s, <1>u, <2>1, <2>2 DEF Somewhere, Frames
<1>21. CASE DrainEnd \/ ResetManager
  <2>1. /\ UNCHANGED <<written, tspOut, escOut, encOut>>
        /\ UNCHANGED <<enc, vPc, vFrame, mFramesReceived>>
        /\ mInputBufferQueue' = mInputBufferQueue \/ mInputBufferQueue' = <<>>
        /\ mgrQueue' = mgrQueue \/ mgrQueue' = <<>>
    BY <1>21 DEF DrainEnd, ResetManager
  <2> QED
    BY <1>s, <1>n, <1>u, <2>1 DEF Somewhere, Frames
<1>22. CASE StopEncoder
  <2>1. /\ UNCHANGED <<written, tspOut, escOut>> /\ encOut' = <<>> /\ enc' = <<>>
        /\ UNCHANGED <<mInputBufferQueue, mFramesReceived, vPc, vFrame, mgrQueue>>
    BY <1>22 DEF StopEncoder
  <2> QED
    BY <1>s, <1>n, <2>1 DEF Somewhere, Units, Frames
<1>23. CASE UNCHANGED vars
  BY <1>23, <1>s, <1>u, <1>f DEF vars, Somewhere
<1> QED
  BY <1>1, <1>2, <1>3, <1>4, <1>5, <1>6, <1>7, <1>8, <1>9, <1>10, <1>11, <1>12, <1>13, <1>14,
     <1>15, <1>16, <1>17, <1>18, <1>19, <1>20, <1>21, <1>22, <1>23
     DEF Next, Callback, VideoThread, Codec, Packer, Caller

(* What the encoder refused was taken, and is nowhere any more.            *)
RefusedInv == \A n \in failed : n <= taken /\ ~On(Line, 10, n)

(* Only one call of feedEncoderInputBuffers refuses a frame.               *)
LEMMA OnlyFeedRefuses == [Next]_vars => Feed \/ failed' = failed
<1> SUFFICES ASSUME [Next]_vars PROVE Feed \/ failed' = failed
  OBVIOUS
<1> QED
  BY DEF Next, Callback, VideoThread, Codec, Packer, Caller, vars, history, Capture,
         CallbackTest, CallbackError, Unwanted, CallbackDeliver, DequeueInput, ReadBuffer,
         KeepFrame, DequeueOutput, VideoTest, Encode, ReturnBuffer, PackerTest,
         PackerFindsNothing, PackerReadCsd, PackerRead, PackerExit, StartDevice, StartFails,
         StartManager, StartConvertor, CreatePacker, StartPacker, WritePackets, StopPacker,
         StopConvertor, WaitForThread, WaitTimeout, DrainFrame, DrainFree, DrainEnd,
         StopManager, ResetManager, StopEncoder, Uninit

(* Only the callback takes a frame, and only the caller writes one.        *)
LEMMA OnlyCallbackTakes ==
  [Next]_vars => \/ CallbackDeliver /\ written' = written /\ failed' = failed
                 \/ WritePackets /\ taken' = taken /\ failed' = failed
                 \/ taken' = taken /\ written' = written
<1> SUFFICES ASSUME [Next]_vars
             PROVE  \/ CallbackDeliver /\ written' = written /\ failed' = failed
                    \/ WritePackets /\ taken' = taken /\ failed' = failed
                    \/ taken' = taken /\ written' = written
  OBVIOUS
<1> USE DEF device, callback, manager, queues, video, encoder, packer, caller, history
<1>1. CASE CallbackDeliver
  BY <1>1 DEF CallbackDeliver
<1>2. CASE WritePackets
  BY <1>2 DEF WritePackets
<1>3. CASE VideoThread \/ Codec \/ Packer
  BY <1>3 DEF VideoThread, Codec, Packer, DequeueInput, ReadBuffer, KeepFrame, Feed,
              DequeueOutput, VideoTest, Encode, ReturnBuffer, PackerTest, PackerFindsNothing,
              PackerReadCsd, PackerRead, PackerExit
<1>4. CASE (\E b \in Buffers : Capture(b)) \/ CallbackTest \/ CallbackError \/ UNCHANGED vars
  BY <1>4 DEF Capture, CallbackTest, CallbackError, Unwanted, vars
<1>5. CASE \/ StartDevice \/ StartFails \/ StartManager \/ StartConvertor \/ CreatePacker
           \/ StartPacker \/ StopPacker \/ StopConvertor \/ WaitForThread \/ WaitTimeout
  BY <1>5 DEF StartDevice, StartFails, StartManager, StartConvertor, CreatePacker, StartPacker,
              StopPacker, StopConvertor, WaitForThread, WaitTimeout
<1>6. CASE \/ DrainFrame \/ DrainFree \/ DrainEnd \/ StopManager \/ ResetManager \/ StopEncoder
           \/ Uninit
  BY <1>6 DEF DrainFrame, DrainFree, DrainEnd, StopManager, ResetManager, StopEncoder, Uninit
<1> QED
  BY <1>1, <1>2, <1>3, <1>4, <1>5, <1>6 DEF Next, Callback, Caller

LEMMA NumbersTyped ==
  TypeOK => /\ written \in Seq(Nat) /\ tspOut \in Seq(Nat) /\ taken \in Nat
            /\ failed \subseteq Nat \ {0}
<1> SUFFICES ASSUME TypeOK
             PROVE  /\ written \in Seq(Nat) /\ tspOut \in Seq(Nat) /\ taken \in Nat
                    /\ failed \subseteq Nat \ {0}
  OBVIOUS
<1>1. MaxFrames \in Nat
  BY RecordAssumption DEF RecordAssumption
<1>2. written \in Seq(Nat) /\ tspOut \in Seq(Nat)
  BY <1>1 DEF TypeOK, UnitsTyped, EsUnit
<1>3. taken \in 0..MaxFrames /\ failed \subseteq 1..MaxFrames
  BY DEF TypeOK, FramesTyped
<1>4. taken \in Nat /\ failed \subseteq Nat \ {0}
  BY <1>1, <1>3
<1> QED
  BY <1>2, <1>4

LEMMA FailedNumbers == TypeOK' => taken' \in Nat /\ failed' \subseteq Nat \ {0}
<1>1. (TypeOK => taken \in Nat /\ failed \subseteq Nat \ {0})'
  BY NumbersTyped, PTL
<1> QED
  BY <1>1

LEMMA AtMost ==
  ASSUME NEW n \in Nat, NEW t \in Nat, NEW u \in Nat, t <= u
  PROVE  /\ n <= t => n # u + 1 /\ n <= u
         /\ n < u + 1 => n <= u
OBVIOUS

LEMMA RefusalIsOnce ==
  ASSUME IInv, IInv', FileInv, FileInv', [Next]_vars
  PROVE  RefusedOnce
<1>1. Known /\ Known' /\ LineInv /\ CsdInv
  BY DEF Known, IInv, FileInv
<1> QED
  BY <1>1, OnlyFeedRefuses, FeedOnLine DEF RefusedOnce

LEMMA RefusedStep ==
  ASSUME IInv, IInv', FileInv, FileInv', RefusedInv, [Next]_vars
  PROVE  RefusedInv'
<1>0. TypeOK /\ HolderInv /\ TypeOK'
  BY DEF IInv
<1>1. taken \in Nat /\ taken' \in Nat /\ taken <= taken' /\ failed \subseteq Nat \ {0}
  <2>1. taken' = taken \/ taken' = taken + 1
    BY OnlyCallbackTakes DEF CallbackDeliver, manager
  <2>2. taken \in Nat /\ failed \subseteq Nat \ {0}
    BY <1>0, NumbersTyped
  <2> QED
    BY <2>1, <2>2
<1>2. ASSUME NEW n \in failed PROVE n <= taken' /\ ~On(Line', 10, n)
  <2>1. n \in Nat /\ n # 0 /\ n <= taken /\ ~On(Line, 10, n)
    BY <1>1, <1>2 DEF RefusedInv
  <2>2. ~Somewhere(n)
    BY <1>0, <2>1, OnIsSomewhere DEF TypeOK
  <2>3. ~Somewhere(n)'
    BY <1>0, <1>1, <2>1, <2>2, OnlyTakenComes
  <2>4. n # taken' + 1 /\ n <= taken'
    BY <1>1, <2>1, AtMost
  <2>5. On(Line', 10, n) <=> Somewhere(n)' \/ n = taken' + 1
    BY <1>0, OnIsSomewhereNext DEF TypeOK
  <2> QED
    BY <2>3, <2>4, <2>5
<1>3. ASSUME NEW h, failed' = failed \union {h}, Left(Line', h)
      PROVE  h <= taken' /\ ~On(Line', 10, h)
  <2>1. h < taken' + 1
    BY <1>3, LineIsNext DEF Left
  <2>2. ~On(Line', 10, h)
    BY <1>3 DEF Left
  <2>3. h \in Nat /\ taken' \in Nat
    <3>1. taken' \in Nat /\ failed' \subseteq Nat
      BY <1>0, FailedNumbers
    <3> QED
      BY <1>3, <3>1
  <2>4. h <= taken'
    <3>1. taken' <= taken'
      BY <2>3
    <3> QED
      BY <2>1, <2>3, <3>1, AtMost
  <2> QED
    BY <2>2, <2>4
<1>4. \A n \in failed' : n <= taken' /\ ~On(Line', 10, n)
  BY <1>2, <1>3, RefusalIsOnce DEF RefusedOnce
<1> QED
  BY <1>4 DEF RefusedInv, On

LEMMA LastIs ==
  ASSUME IInv
  PROVE  /\ Stream!Last \in Nat /\ taken \in Nat
         /\ \A h \in Nat : (\A i \in 1..Len(written) : written[i] < h) => Stream!Last < h \/ h = 0
<1>1. written \in Seq(Nat) /\ taken \in Nat
  BY NumbersTyped DEF IInv
<1>2. CASE written = <<>>
  <2>1. Stream!Last = 0
    BY <1>2 DEF Stream!Last
  <2> QED
    BY <1>1, <2>1
<1>3. CASE written # <<>>
  <2>1. Stream!Last = written[Len(written)] /\ Len(written) \in 1..Len(written)
    BY <1>1, <1>3 DEF Stream!Last
  <2> QED
    BY <1>1, <2>1
<1> QED
  BY <1>2, <1>3

(* A refusal is a refusal of a frame that is on the way.                   *)
LEMMA RefusalIsRefuse ==
  ASSUME IInv, IInv', FileInv, FileInv', [Next]_vars,
         taken' = taken, written' = written, failed' # failed
  PROVE  \E n \in Stream!OnTheWay : Stream!Refuse(n)
<1>1. PICK h : failed' = failed \union {h} /\ Left(Line', h)
  BY RefusalIsOnce DEF RefusedOnce
<1>2. h \in Nat /\ h # 0
  <2>1. failed' \subseteq Nat \ {0}
    BY FailedNumbers DEF IInv
  <2> QED
    BY <1>1, <2>1
<1>3. h < taken + 1 /\ \A i \in 1..Len(written) : written[i] < h
  BY <1>1, LineIsNext DEF Left
<1>4. Stream!Last \in Nat /\ taken \in Nat /\ Stream!Last < h
  BY <1>2, <1>3, LastIs
<1>5. h \notin failed
  BY <1>1
<1>6. h \in Stream!OnTheWay
  BY <1>2, <1>3, <1>4, <1>5 DEF Stream!OnTheWay
<1> QED
  BY <1>1, <1>6 DEF Stream!Refuse

(* What the caller writes is the next frame that was not refused.          *)
LEMMA WriteIsWrite ==
  ASSUME IInv, IInv', FileInv, FileInv', RefusedInv,
         WritePackets, taken' = taken, failed' = failed
  PROVE  \E n \in Stream!OnTheWay : Stream!Write(n)
<1> DEFINE n == Head(tspOut)
           k == Len(written)
<1>1. tspOut # <<>> /\ written' = Append(written, n)
  BY DEF WritePackets
<1>2. /\ written \in Seq(Nat) /\ tspOut \in Seq(Nat) /\ taken \in Nat
      /\ Stream!Last \in Nat
  BY LastIs, NumbersTyped DEF IInv
<1>3. 1 \in 1..Len(tspOut) /\ tspOut[1] = n /\ n \in Nat
  BY <1>1, <1>2
<1>4. n < taken + 1
  <2>1. Line[2][1] < Line[10][1]
    <3>1. 2 \in Place /\ 10 \in Place /\ 2 < 10
      BY DEF Place
    <3>2. 1 \in 1..Len(Line[2]) /\ 1 \in 1..Len(Line[10])
      BY <1>3, LineIs
    <3> QED
      BY <3>1, <3>2, OrderedAt DEF FileInv, LineInv
  <2> QED
    BY <1>3, <2>1, LineIs
<1>5. n \notin failed
  <2>1. Has(tspOut, n)
    BY <1>3 DEF Has
  <2>2. On(Line, 10, n)
    BY <2>1, OnIsSomewhere DEF IInv, TypeOK, Somewhere, Units
  <2> QED
    BY <2>2 DEF RefusedInv
<1>6. Stream!Last < n /\ Stream!Last + 1 .. n - 1 \subseteq failed
  <2>1. /\ k + 1 \in 1..Len(written') /\ written'[k + 1] = n /\ k \in Nat
        /\ k # 0 => written'[k] = written[k]
        /\ k = 0 <=> written = <<>>
    BY <1>1, <1>2, <1>3
  <2>2. Stream!Last = IF k + 1 = 1 THEN 0 ELSE written'[k + 1 - 1]
    BY <2>1 DEF Stream!Last
  <2>3. RecordingHasNoGap'
    BY NoGapInFile, PTL
  <2> HIDE DEF n, k
  <2>4. LET before == IF k + 1 = 1 THEN 0 ELSE written'[k + 1 - 1] IN
        before < written'[k + 1] /\ before + 1 .. written'[k + 1] - 1 \subseteq failed'
    BY <2>1, <2>3 DEF RecordingHasNoGap
  <2> QED
    BY <2>1, <2>2, <2>4
<1>7. n \in Stream!OnTheWay
  BY <1>2, <1>3, <1>4, <1>5, <1>6 DEF Stream!OnTheWay
<1> QED
  BY <1>1, <1>6, <1>7 DEF Stream!Write

LEMMA StreamStep ==
  ASSUME IInv, IInv', FileInv, FileInv', RefusedInv, [Next]_vars
  PROVE  [Stream!Next]_(Stream!vars)
<1>1. CASE CallbackDeliver /\ written' = written /\ failed' = failed
  <2>1. taken' = taken \/ taken' = taken + 1
    BY <1>1 DEF CallbackDeliver
  <2> QED
    BY <1>1, <2>1 DEF Stream!Next, Stream!Take, Stream!vars
<1>2. CASE WritePackets /\ taken' = taken /\ failed' = failed
  BY <1>2, WriteIsWrite DEF Stream!Next
<1>3. CASE taken' = taken /\ written' = written
  <2>1. CASE failed' = failed
    BY <1>3, <2>1 DEF Stream!vars
  <2>2. CASE failed' # failed
    BY <1>3, <2>2, RefusalIsRefuse DEF Stream!Next
  <2> QED
    BY <2>1, <2>2
<1> QED
  BY <1>1, <1>2, <1>3, OnlyCallbackTakes

(* A recording is a FrameStream: the file grows by the next frame that was *)
(* taken and that the encoder did not refuse, and none that it refused     *)
(* comes later, for both paths, any number of frames, buffers and errors,  *)
(* and whatever the interleaving of dataCallBack, threadVideoFunc, the     *)
(* codec, TSPacker's thread, and the start and stop of the recording.      *)
THEOREM RecordingKeepsStream == Spec => KeepsStream
<1>1. IInv /\ IInv' /\ FileInv /\ [Next]_vars => FileInv'
  BY FileStep
<1>2. Init => RefusedInv
  BY DEF Init, RefusedInv
<1>3. IInv /\ IInv' /\ FileInv /\ FileInv' /\ RefusedInv /\ [Next]_vars => RefusedInv'
  BY RefusedStep
<1>4. Init => Stream!Init
  BY DEF Init, Stream!Init
<1>5. IInv /\ IInv' /\ FileInv /\ FileInv' /\ RefusedInv /\ [Next]_vars
        => [Stream!Next]_(Stream!vars)
  BY StreamStep
<1> QED
  BY <1>1, <1>2, <1>3, <1>4, <1>5, FileInit, Invariance, PTL DEF Spec, KeepsStream, Stream!Spec

(***************************************************************************)
(* The end of a recording: what StopEnds needs besides fairness            *)
(***************************************************************************)

(* How many steps threadVideoFunc has before it at most, once it is told   *)
(* to end.                                                                 *)
ThreadLeft ==
  CASE vPc = "read"                               -> 4
    [] vPc = "got"                                -> 3
    [] vPc \in {"dequeueIn", "feed", "dequeueOut"} -> 2
    [] vPc = "test"                               -> 1
    [] OTHER                                      -> 0

(* How far stop has to go, and how many buffers it has to give back.       *)
StopLeft ==
  CASE cPc = "tspStop"                -> 10
    [] cPc = "escStop"                -> 9
    [] cPc = "wait"                   -> 8
    [] cPc = "waiting"                -> 7
    [] cPc \in {"drain", "drained"}   -> 6
    [] cPc = "mgrStop"                -> 5
    [] cPc = "mgrReset"               -> 4
    [] cPc = "encStop"                -> 3
    [] cPc = "uninit"                 -> 2
    [] OTHER                          -> 0

DrainLeft ==
  2 * (Len(mFramesReceived) + Len(mInputBufferQueue)) + One(cPc = "drained")

(* Every step of stop takes it further or gives a buffer back, and no      *)
(* other thread sends it back or adds a buffer while it gives them back;   *)
(* meanwhile the thread that stop waits for comes nearer to its end with   *)
(* every step of its own, and nobody sends it back (ESConvertor::stop and  *)
(* threadVideoFunc).                                                       *)
StopNearsEnd ==
  cPc \in Stopping =>
    /\ Caller => StopLeft' < StopLeft \/ (StopLeft' = StopLeft /\ DrainLeft' < DrainLeft)
    /\ StopLeft' <= StopLeft
    /\ cPc \in {"drain", "drained"} /\ StopLeft' = StopLeft => DrainLeft' <= DrainLeft
    /\ ~escStarted => /\ VideoThread => ThreadLeft' < ThreadLeft
                      /\ ThreadLeft' <= ThreadLeft

LEMMA DrainIsNat == ASSUME FramesTyped PROVE DrainLeft \in Nat
<1>1. Len(mFramesReceived) \in Nat /\ Len(mInputBufferQueue) \in Nat
  BY DEF FramesTyped
<1> QED
  BY <1>1 DEF DrainLeft, One

(* The caller's steps while it stops.                                      *)
LEMMA CallerStops ==
  ASSUME FramesTyped, cPc \in Stopping, Caller
  PROVE  /\ StopLeft' < StopLeft \/ (StopLeft' = StopLeft /\ DrainLeft' < DrainLeft)
         /\ StopLeft' <= StopLeft
         /\ UNCHANGED vPc
<1>1. /\ cPc \notin {"init", "mgrStart", "escStart", "create", "tspStart", "reading"}
      /\ ~StartDevice /\ ~StartFails /\ ~StartManager /\ ~StartConvertor /\ ~CreatePacker
      /\ ~StartPacker /\ ~WritePackets
  BY DEF Stopping, StartDevice, StartFails, StartManager, StartConvertor, CreatePacker,
         StartPacker, WritePackets
<1>2. CASE StopPacker
  BY <1>2 DEF StopPacker, StopLeft, video
<1>3. CASE StopConvertor
  BY <1>3 DEF StopConvertor, StopLeft, video
<1>4. CASE WaitForThread
  BY <1>4 DEF WaitForThread, StopLeft, video
<1>5. CASE WaitTimeout
  BY <1>5 DEF WaitTimeout, StopLeft, video
<1>6. CASE DrainFrame
  <2>1. cPc = "drain" /\ cPc' = "drained" /\ UNCHANGED vPc
    BY <1>6 DEF DrainFrame, video
  <2>2. /\ Len(mFramesReceived) \in Nat /\ Len(mInputBufferQueue) \in Nat
        /\ \/ /\ Len(mFramesReceived') = Len(mFramesReceived) - 1
              /\ Len(mInputBufferQueue') = Len(mInputBufferQueue)
           \/ /\ Len(mFramesReceived') = Len(mFramesReceived)
              /\ Len(mInputBufferQueue') = Len(mInputBufferQueue) - 1
    BY <1>6 DEF DrainFrame, FramesTyped
  <2>3. DrainLeft' < DrainLeft
    BY <2>1, <2>2 DEF DrainLeft, One
  <2>4. StopLeft' = 6 /\ StopLeft = 6
    BY <2>1 DEF StopLeft
  <2> QED
    BY <2>1, <2>3, <2>4
<1>7. CASE DrainFree
  <2>1. cPc = "drained" /\ cPc' = "drain" /\ UNCHANGED <<vPc, mFramesReceived, mInputBufferQueue>>
    BY <1>7 DEF DrainFree, video, queues
  <2>2. Len(mFramesReceived) \in Nat /\ Len(mInputBufferQueue) \in Nat
    BY DEF FramesTyped
  <2>3. DrainLeft' < DrainLeft
    BY <2>1, <2>2 DEF DrainLeft, One
  <2>4. StopLeft' = 6 /\ StopLeft = 6
    BY <2>1 DEF StopLeft
  <2> QED
    BY <2>1, <2>3, <2>4
<1>8. CASE DrainEnd
  BY <1>8 DEF DrainEnd, StopLeft, video
<1>9. CASE StopManager
  BY <1>9 DEF StopManager, StopLeft, video
<1>10. CASE ResetManager
  BY <1>10 DEF ResetManager, StopLeft, video
<1>11. CASE StopEncoder
  BY <1>11 DEF StopEncoder, StopLeft, video
<1>12. CASE Uninit
  BY <1>12 DEF Uninit, StopLeft, video
<1> QED
  BY <1>1, <1>2, <1>3, <1>4, <1>5, <1>6, <1>7, <1>8, <1>9, <1>10, <1>11, <1>12 DEF Caller

(* The convertor's thread once it is told to end.                          *)
LEMMA ThreadEnds ==
  ASSUME ~escStarted, VideoThread
  PROVE  ThreadLeft' < ThreadLeft
<1>1. CASE DequeueInput
  BY <1>1 DEF DequeueInput, ThreadLeft
<1>2. CASE ReadBuffer
  <2>1. vPc = "read" /\ vPc' \in {"got", "feed"}
    BY <1>2 DEF ReadBuffer
  <2> QED
    BY <2>1 DEF ThreadLeft
<1>3. CASE KeepFrame
  BY <1>3 DEF KeepFrame, ThreadLeft
<1>4. CASE Feed
  BY <1>4 DEF Feed, ThreadLeft
<1>5. CASE DequeueOutput
  BY <1>5 DEF DequeueOutput, ThreadLeft
<1>6. CASE VideoTest
  BY <1>6 DEF VideoTest, ThreadLeft
<1> QED
  BY <1>1, <1>2, <1>3, <1>4, <1>5, <1>6 DEF VideoThread

(* One call of feedEncoderInputBuffers leaves no more than was there.      *)
LEMMA FeedAddsNothing ==
  ASSUME NEW q \in Seq(Frame), FeedNothing(q) \/ FeedFrame(q) \/ FeedFails(q)
  PROVE  Len(mInputBufferQueue') \in Nat /\ Len(mInputBufferQueue') <= Len(q)
<1>1. \/ mInputBufferQueue' = q
      \/ q # <<>> /\ mInputBufferQueue' = Tail(q)
  BY DEF FeedNothing, FeedFrame, FeedFails
<1> QED
  BY <1>1

Waiting == Len(mFramesReceived) + Len(mInputBufferQueue)

(* The convertor's thread, if it still runs, adds no frame to the queues.  *)
LEMMA ThreadAddsNothing ==
  ASSUME FramesTyped, ~escStarted, VideoThread
  PROVE  Waiting' <= Waiting
<1>0. /\ mFramesReceived \in Seq(Frame) /\ mInputBufferQueue \in Seq(Frame)
      /\ Len(mFramesReceived) \in Nat /\ Len(mInputBufferQueue) \in Nat
  BY DEF FramesTyped
<1>1. CASE DequeueInput \/ ReadBuffer \/ KeepFrame \/ DequeueOutput \/ VideoTest
  <2>1. UNCHANGED <<mFramesReceived, mInputBufferQueue>>
    BY <1>1 DEF DequeueInput, ReadBuffer, KeepFrame, DequeueOutput, VideoTest, queues
  <2> QED
    BY <1>0, <2>1 DEF Waiting
<1>2. CASE Feed /\ soft
  <2>1. Len(mInputBufferQueue') \in Nat /\ Len(mInputBufferQueue') <= Len(mInputBufferQueue)
    BY <1>0, <1>2, FeedAddsNothing DEF Feed
  <2>2. mFramesReceived' = mFramesReceived
    BY <1>2 DEF Feed
  <2> QED
    BY <1>0, <2>1, <2>2 DEF Waiting
<1>3. CASE Feed /\ ~soft /\ mFramesReceived = <<>>
  <2>1. UNCHANGED <<mFramesReceived, mInputBufferQueue>>
    BY <1>3 DEF Feed, queues
  <2> QED
    BY <1>0, <2>1 DEF Waiting
<1>4. CASE Feed /\ ~soft /\ mFramesReceived # <<>>
  <2> DEFINE q == Append(mInputBufferQueue, Head(mFramesReceived))
  <2>1. /\ mFramesReceived' = Tail(mFramesReceived)
        /\ FeedNothing(q) \/ FeedFrame(q) \/ FeedFails(q)
    BY <1>4 DEF Feed
  <2>2. q \in Seq(Frame) /\ Len(q) = Len(mInputBufferQueue) + 1
    BY <1>0, <1>4, HeadTail
  <2>3. Len(mFramesReceived') = Len(mFramesReceived) - 1
    BY <1>0, <1>4, <2>1
  <2> HIDE DEF q
  <2>4. Len(mInputBufferQueue') \in Nat /\ Len(mInputBufferQueue') <= Len(q)
    BY <2>1, <2>2, FeedAddsNothing
  <2> QED
    BY <1>0, <2>2, <2>3, <2>4 DEF Waiting
<1> QED
  BY <1>1, <1>2, <1>3, <1>4 DEF VideoThread

(* Everybody but the caller leaves stop where it is, or wakes it up, and   *)
(* adds nothing to what it gives back.                                     *)
LEMMA OthersLeaveStop ==
  ASSUME FramesTyped, ThreadInv, cPc \in Stopping, [Next]_vars, ~Caller
  PROVE  /\ cPc' = cPc \/ (cPc = "waiting" /\ cPc' = "drain")
         /\ cPc \in TornDown => Waiting' <= Waiting
         /\ vPc' = vPc \/ VideoThread
<1>0. Waiting \in Nat
  BY DEF Waiting, FramesTyped
<1>u. ASSUME UNCHANGED <<cPc, mFramesReceived, mInputBufferQueue, vPc>>
      PROVE  UNCHANGED <<cPc, vPc>> /\ Waiting' <= Waiting
  BY <1>0, <1>u DEF Waiting
<1>1. ASSUME NEW b \in Buffers, Capture(b)
      PROVE  UNCHANGED <<cPc, mFramesReceived, mInputBufferQueue, vPc>>
  BY <1>1 DEF Capture, caller, queues, video
<1>2. CASE Callback
  BY <1>2, <1>u DEF Callback, CallbackTest, CallbackError, Unwanted, CallbackDeliver, caller,
                    queues, video
<1>3. CASE VideoThread
  <2>1. cPc \in TornDown => ~escStarted
    BY DEF ThreadInv, TornDown
  <2>2. cPc \in TornDown => Waiting' <= Waiting
    BY <1>3, <2>1, ThreadAddsNothing
  <2>3. cPc' = cPc \/ (cPc = "waiting" /\ cPc' = "drain")
    BY <1>3 DEF VideoThread, DequeueInput, ReadBuffer, KeepFrame, Feed, DequeueOutput,
                VideoTest, caller
  <2> QED
    BY <1>3, <2>2, <2>3
<1>4. CASE Codec
  BY <1>4, <1>u DEF Codec, Encode, ReturnBuffer, caller, queues, video
<1>5. CASE Packer
  BY <1>5, <1>u DEF Packer, PackerTest, PackerFindsNothing, PackerReadCsd, PackerRead,
                    PackerExit, caller, queues, video
<1>6. CASE UNCHANGED vars
  BY <1>6, <1>u DEF vars, caller, queues, video
<1> QED
  BY <1>u, <1>1, <1>2, <1>3, <1>4, <1>5, <1>6 DEF Next

(* stop comes nearer to its end with every step, and with it the thread it *)
(* waits for (ESConvertor::stop, TSPacker::stop, ScreenManager::stop).     *)
THEOREM StopAlwaysNearsEnd == Spec => [][StopNearsEnd]_vars
<1>1. IInv /\ [Next]_vars => [StopNearsEnd]_vars
  <2> SUFFICES ASSUME IInv, [Next]_vars, cPc \in Stopping
               PROVE  /\ Caller => \/ StopLeft' < StopLeft
                                   \/ StopLeft' = StopLeft /\ DrainLeft' < DrainLeft
                      /\ StopLeft' <= StopLeft
                      /\ cPc \in {"drain", "drained"} /\ StopLeft' = StopLeft =>
                           DrainLeft' <= DrainLeft
                      /\ ~escStarted => /\ VideoThread => ThreadLeft' < ThreadLeft
                                        /\ ThreadLeft' <= ThreadLeft
    BY DEF StopNearsEnd
  <2>1. FramesTyped /\ ThreadInv
    BY DEF IInv, TypeOK
  <2>2. /\ DrainLeft \in Nat /\ StopLeft \in Int /\ StopLeft' \in Int
        /\ ThreadLeft \in Int /\ ThreadLeft' \in Int
    BY <2>1, DrainIsNat DEF StopLeft, ThreadLeft
  <2>f. FramesTyped'
    BY FramesTypedStep DEF IInv
  <2>3. DrainLeft' \in Int
    <3>1. Len(mFramesReceived') \in Nat /\ Len(mInputBufferQueue') \in Nat
      BY <2>f DEF FramesTyped
    <3> QED
      BY <3>1 DEF DrainLeft, One
  <2>4. CASE Caller
    <3>1. /\ StopLeft' < StopLeft \/ (StopLeft' = StopLeft /\ DrainLeft' < DrainLeft)
          /\ StopLeft' <= StopLeft /\ vPc' = vPc
      BY <2>1, <2>4, CallerStops
    <3>2. ThreadLeft' = ThreadLeft
      BY <3>1 DEF ThreadLeft
    <3> QED
      BY <2>2, <2>3, <3>1, <3>2, ThreadEnds
  <2>5. CASE ~Caller
    <3>1. /\ cPc' = cPc \/ (cPc = "waiting" /\ cPc' = "drain")
          /\ cPc \in TornDown => Waiting' <= Waiting
          /\ vPc' = vPc \/ VideoThread
      BY <2>1, <2>5, OthersLeaveStop
    <3>2. StopLeft' <= StopLeft
      BY <2>2, <3>1 DEF StopLeft
    <3>3. ASSUME cPc \in {"drain", "drained"} PROVE DrainLeft' <= DrainLeft
      <4>1. cPc' = cPc /\ Waiting' <= Waiting
        BY <3>1, <3>3 DEF TornDown
      <4>2. Waiting \in Nat /\ Waiting' \in Nat /\ One(cPc = "drained") \in {0, 1}
        BY <2>1, <2>f DEF Waiting, FramesTyped, One
      <4>3. /\ DrainLeft = 2 * Waiting + One(cPc = "drained")
            /\ DrainLeft' = 2 * Waiting' + One(cPc = "drained")
        BY <4>1 DEF DrainLeft, Waiting
      <4> QED
        BY <4>1, <4>2, <4>3
    <3>4. ASSUME ~escStarted
          PROVE  (VideoThread => ThreadLeft' < ThreadLeft) /\ ThreadLeft' <= ThreadLeft
      <4>1. vPc' = vPc => ThreadLeft' = ThreadLeft
        BY DEF ThreadLeft
      <4> QED
        BY <2>2, <3>1, <3>4, <4>1, ThreadEnds
    <3> QED
      BY <2>5, <3>2, <3>3, <3>4
  <2> QED
    BY <2>4, <2>5
<1> QED
  BY <1>1, Invariance, PTL DEF Spec

=============================================================================
