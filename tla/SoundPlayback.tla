--------------------------- MODULE SoundPlayback ---------------------------
(***************************************************************************)
(* The filter that plays sound (mediastreamer/linuxaudio.c): the ticker    *)
(* calls sound_write_process, a thread of its own (ms_linux_write_cb)      *)
(* takes the sound out of the bufferizer and writes it to the device, and  *)
(* the thread that detaches the graph calls sound_write_postprocess.       *)
(*                                                                         *)
(* What is done under d->mutex is one step.  The flags isRunning and       *)
(* isSleeping and the size of the bufferizer are read and written without  *)
(* it: these reads and writes are steps of their own.  The unit of sound   *)
(* is d->frames bytes.  A return of ms_cond_wait without a signal is left  *)
(* out: nothing promises one.                                              *)
(***************************************************************************)
EXTENDS Integers

CONSTANTS
  MaxSize,     \* max_size, what the thread writes at a time
  LateSize,    \* 16000 bytes
  FrameSizes,  \* sizes of the frames that reach the filter
  Ceiling      \* bound: larger stocks are taken for this one

PlaybackAssumption ==
  /\ {MaxSize, LateSize, Ceiling} \subseteq Nat \ {0}
  /\ FrameSizes \subseteq Nat \ {0}
  /\ MaxSize =< LateSize /\ LateSize < Ceiling

VARIABLES
  isRunning, isSleeping,
  stock,     \* size of the bufferizer
  writer,    \* control of the thread
  stopper,   \* control of sound_write_postprocess
  missed     \* history: the signal of the stop found no thread in its wait,
             \* and the thread had tested isRunning before

playbackVars == <<isRunning, isSleeping, stock, writer, stopper, missed>>

Writers == {"flush", "test", "avail", "late", "read", "write", "test2",
            "doze", "lock", "wait", "wake", "exited"}
-----------------------------------------------------------------------------
\* Mutant of Signal: the thread is not woken.
SignalNobody(asleep) == writer

\* ms_cond_signal, if asleep: it reaches a thread that waits already.
Signal(asleep) == IF asleep /\ writer = "wait" THEN "wake" ELSE writer

\* sound_write_process with a frame, from the ticker.
Process(n) ==
  /\ stopper = "none" /\ isRunning
  /\ stock' = IF stock + n > Ceiling THEN Ceiling ELSE stock + n
  /\ writer' = Signal(isSleeping)
  /\ UNCHANGED <<isRunning, isSleeping, stopper, missed>>

\* sound_write_postprocess: the flag, then the signal, then the join.
StopFlag ==
  /\ stopper = "none"
  /\ isRunning' = FALSE /\ stopper' = "signal"
  /\ UNCHANGED <<isSleeping, stock, writer, missed>>

\* Mutant of StopSignal: the thread is left to find out by itself.
StopSignalNone ==
  /\ stopper = "signal"
  /\ stopper' = "join"
  /\ missed' = (writer \in {"doze", "lock"})
  /\ UNCHANGED <<isRunning, isSleeping, stock, writer>>

StopSignal ==
  /\ stopper = "signal"
  /\ writer' = Signal(TRUE) /\ stopper' = "join"
  /\ missed' = (writer \in {"doze", "lock"})
  /\ UNCHANGED <<isRunning, isSleeping, stock>>

StopJoin ==
  /\ stopper = "join" /\ writer = "exited"
  /\ stopper' = "done" /\ stock' = 0
  /\ UNCHANGED <<isRunning, isSleeping, writer, missed>>
-----------------------------------------------------------------------------
\* A step of the thread that only decides where to go on.
Go(from, to) ==
  /\ writer = from /\ writer' = to
  /\ UNCHANGED <<isRunning, isSleeping, stock, stopper, missed>>

Flush ==
  /\ writer = "flush" /\ writer' = "test" /\ stock' = 0
  /\ UNCHANGED <<isRunning, isSleeping, stopper, missed>>

Test == Go("test", IF isRunning THEN "avail" ELSE "exited")

Avail == Go("avail", IF stock < MaxSize THEN "test2"
                     ELSE IF stock > LateSize THEN "late" ELSE "read")

\* "we are late, flushing 16000 bytes"
Late ==
  /\ writer = "late" /\ writer' = "avail"
  /\ stock' = stock - LateSize
  /\ UNCHANGED <<isRunning, isSleeping, stopper, missed>>

Read ==
  /\ writer = "read" /\ writer' = "write"
  /\ stock' = stock - MaxSize
  /\ UNCHANGED <<isRunning, isSleeping, stopper, missed>>

\* sound_write until it takes the sound (-EPIPE) or fails for another reason.
Write == Go("write", "avail")

Test2 == Go("test2", IF isRunning THEN "doze" ELSE "test")

Doze ==
  /\ writer = "doze" /\ writer' = "lock" /\ isSleeping' = TRUE
  /\ UNCHANGED <<isRunning, stock, stopper, missed>>

Wait == Go("lock", "wait")

Wake ==
  /\ writer = "wake" /\ writer' = "test" /\ isSleeping' = FALSE
  /\ UNCHANGED <<isRunning, stock, stopper, missed>>

Thread == Flush \/ Test \/ Avail \/ Late \/ Read \/ Write
            \/ Test2 \/ Doze \/ Wait \/ Wake
Frames == \E n \in FrameSizes : Process(n)
StopOn == StopSignal \/ StopJoin
Stop == StopFlag \/ StopOn
-----------------------------------------------------------------------------
\* sound_write_preprocess has opened the device and made the thread.
Init ==
  /\ isRunning = TRUE /\ isSleeping = FALSE /\ stock = 0
  /\ writer = "flush" /\ stopper = "none" /\ missed = FALSE

Next == Frames \/ Stop \/ Thread

(***************************************************************************)
(* The thread is scheduled and so are the ticker and a stop that has begun.*)
(***************************************************************************)
Spec == /\ Init /\ [][Next]_playbackVars
        /\ WF_playbackVars(Thread)
        /\ WF_playbackVars(Frames) /\ WF_playbackVars(StopOn)

\* While frames come in, a stock that suffices for a write is written or
\* thrown away, although the signal of a frame may come before the thread
\* waits for it: a later frame wakes it.
StockGoesDown ==
  stock >= MaxSize ~> (stock < MaxSize \/ ~isRunning \/ writer \in {"read", "late"})

\* The stop comes back, unless its signal came between the thread's test of
\* isRunning and its wait.
SeenStopReturns == stopper = "join" /\ ~missed ~> stopper = "done"
=============================================================================
