-------------------------- MODULE Interrupts_proofs --------------------------
(***************************************************************************)
(* Interrupt entry, dispatch and return for any set of processes, lines    *)
(* and exceptions: the frames on the stacks have one of four shapes, no    *)
(* line stays in service while a handler runs, and a handler is            *)
(* interrupted by a fault of its own and by nothing else.  Then the        *)
(* interrupt that drives the rest, the timer's: how long timer::wait waits *)
(* for it, for every width of a word and every number of ticks asked for.  *)
(***************************************************************************)
EXTENDS Interrupts, Timer, SequenceTheorems, WellFoundedInduction, TLAPS

Stage == {"gate", "entered", "handling", "return"}

FrameType == [irq : -1..15, exception : -1..SYSTEM_GATE, stage : Stage, flag : BOOLEAN]

(* A hardware interrupt came before the cli of a routine, or an exception, *)
(* whose handler does not return, came while a system call was served.     *)
Nested(below, above) ==
  \/ below.stage = "gate" /\ above.stage # "gate" /\ above.irq >= 0
  \/ /\ below.irq < 0 /\ below.exception = SYSTEM_GATE
     /\ above.irq < 0 /\ above.exception \in Exceptions /\ above.stage # "return"

(* A stack holds no frame, one, or two of which the upper is nested so.    *)
FrameShapes ==
  \A p \in Process :
    /\ Len(frames[p]) <= 2
    /\ Len(frames[p]) = 2 => Nested(frames[p][1], frames[p][2])

(* A process that has not run yet was not interrupted either.              *)
FreshUntouched ==
  /\ running \notin fresh
  /\ \A p \in fresh : frames[p] = <<>>

IrqInv ==
  /\ IrqTypeOK
  /\ InServiceOnlyAtEntry
  /\ OnlyFaultsNest
  /\ FrameShapes
  /\ FreshUntouched

(* A sequence without its last element.                                    *)
LEMMA FrontFacts ==
  ASSUME NEW S, NEW s \in Seq(S), NEW n \in Nat, Len(s) = n, n # 0
  PROVE  /\ SubSeq(s, 1, n - 1) \in Seq(S)
         /\ Len(SubSeq(s, 1, n - 1)) = n - 1
         /\ \A i \in 1..(n - 1) : SubSeq(s, 1, n - 1)[i] = s[i]
<1>1. \A i \in 1..(n - 1) : s[i] \in S
  <2>1. \A i \in 1..(n - 1) : i \in 1..n
    OBVIOUS
  <2> QED BY <2>1, ElementOfSeq
<1>2. 1 \in Int /\ n - 1 \in Int
  OBVIOUS
<1> DEFINE f == SubSeq(s, 1, n - 1)
<1>3. /\ f \in Seq(S)
      /\ Len(f) = IF 1 <= n - 1 THEN (n - 1) - 1 + 1 ELSE 0
      /\ \A i \in 1 .. (n - 1) - 1 + 1 : f[i] = s[1 + i - 1]
  BY <1>1, <1>2, SubSeqProperties
<1> HIDE DEF f
<1>4. \A i \in 1..(n - 1) : i \in 1 .. (n - 1) - 1 + 1 /\ 1 + i - 1 = i
  OBVIOUS
<1>5. (IF 1 <= n - 1 THEN (n - 1) - 1 + 1 ELSE 0) = n - 1
  OBVIOUS
<1>6. Len(f) = n - 1
  BY <1>3, <1>5, Zenon
<1>7. \A i \in 1..(n - 1) : f[i] = s[i]
  BY <1>3, <1>4
<1> QED BY <1>3, <1>6, <1>7 DEF f

(* The running process' stack: its frames, the one on top, and its length. *)
LEMMA StackFacts ==
  ASSUME IrqInv
  PROVE  /\ frames \in [Process -> Seq(FrameType)]
         /\ frames[running] \in Seq(FrameType)
         /\ Len(frames[running]) \in 0..2
         /\ frames[running] = <<>> <=> Len(frames[running]) = 0
         /\ frames[running] # <<>> => Top \in FrameType
         /\ Serving => Len(frames[running]) = 1
<1>1. frames \in [Process -> Seq(FrameType)] /\ running \in Process
  BY DEF IrqInv, IrqTypeOK, FrameType, Stage
<1>2. frames[running] \in Seq(FrameType)
  BY <1>1
<1>3. Len(frames[running]) \in 0..2
  <2>1. Len(frames[running]) \in Nat
    BY <1>2, LenProperties
  <2>2. Len(frames[running]) <= 2
    BY <1>1 DEF IrqInv, FrameShapes
  <2>3. \A n \in Nat : n <= 2 => n \in 0..2
    OBVIOUS
  <2> QED BY <2>1, <2>2, <2>3, Zenon
<1>4. frames[running] = <<>> <=> Len(frames[running]) = 0
  BY <1>2, EmptySeq
<1>5. frames[running] # <<>> => Top \in FrameType
  BY <1>2, <1>3, <1>4, ElementOfSeq DEF Top
<1>6. Serving => Len(frames[running]) = 1
  <2> SUFFICES ASSUME Serving PROVE Len(frames[running]) = 1
    OBVIOUS
  <2>1. /\ frames[running] # <<>> /\ Top.irq < 0 /\ Top.exception = SYSTEM_GATE
    BY DEF Serving, InFrame
  <2>2. Top.irq \in Int /\ SYSTEM_GATE \notin Exceptions
    BY <1>5, <2>1, InterruptsAssumption DEF FrameType, SYSTEM_GATE
  <2>3. ASSUME Len(frames[running]) = 2 PROVE FALSE
    <3>1. Nested(frames[running][1], frames[running][2])
      BY <1>1, <2>3 DEF IrqInv, FrameShapes
    <3>2. Top = frames[running][2]
      BY <2>3 DEF Top
    <3> QED BY <2>1, <2>2, <3>1, <3>2 DEF Nested
  <2>4. Len(frames[running]) # 0
    BY <1>4, <2>1
  <2> QED BY <1>3, <2>3, <2>4
<1> QED BY <1>1, <1>2, <1>3, <1>4, <1>5, <1>6

(* The stack below the frame on top.                                       *)
LEMMA BelowFacts ==
  ASSUME IrqInv, frames[running] # <<>>
  PROVE  /\ frames[running] \in Seq(FrameType) /\ Len(frames[running]) \in 1..2
         /\ Below \in Seq(FrameType)
         /\ Len(Below) = Len(frames[running]) - 1
         /\ \A i \in 1..(Len(frames[running]) - 1) : Below[i] = frames[running][i]
<1> DEFINE s == frames[running]
           n == Len(frames[running])
<1>1. s \in Seq(FrameType) /\ n \in 1..2
  <2>1. s \in Seq(FrameType) /\ n \in 0..2 /\ n # 0
    BY StackFacts
  <2> QED BY <2>1
<1>2. /\ Below \in Seq(FrameType)
      /\ Len(Below) = n - 1
      /\ \A i \in 1..(n - 1) : Below[i] = s[i]
  BY <1>1, FrontFacts DEF Below
<1> QED BY <1>1, <1>2

(* What Replace leaves: the same stacks, but for the stage on top.         *)
LEMMA ReplaceTop ==
  ASSUME IrqInv, frames[running] # <<>>,
         NEW stage \in Stage, Replace(stage)
  PROVE  /\ frames' \in [Process -> Seq(FrameType)]
         /\ \A p \in Process : p # running => frames'[p] = frames[p]
         /\ Len(frames'[running]) = Len(frames[running])
         /\ \A i \in 1..(Len(frames[running]) - 1) :
              frames'[running][i] = frames[running][i]
         /\ frames'[running][Len(frames[running])] = [Top EXCEPT !.stage = stage]
<1> DEFINE t == [Top EXCEPT !.stage = stage]
<1>1. /\ frames \in [Process -> Seq(FrameType)] /\ running \in Process
      /\ Top \in FrameType
  BY StackFacts DEF IrqInv, IrqTypeOK
<1>2. t \in FrameType
  BY <1>1 DEF FrameType
<1> HIDE DEF t
<1>3. /\ Append(Below, t) \in Seq(FrameType)
      /\ Len(Append(Below, t)) = Len(Below) + 1
      /\ \A i \in 1..Len(Below) : Append(Below, t)[i] = Below[i]
      /\ Append(Below, t)[Len(Below) + 1] = t
  BY <1>2, BelowFacts, AppendProperties
<1>4. frames' = [frames EXCEPT ![running] = Append(Below, t)]
  BY DEF Replace, t
<1>5. /\ frames'[running] = Append(Below, t)
      /\ \A p \in Process : p # running => frames'[p] = frames[p]
      /\ frames' \in [Process -> Seq(FrameType)]
  BY <1>1, <1>3, <1>4
<1>6. Len(Below) + 1 = Len(frames[running]) /\ Len(Below) = Len(frames[running]) - 1
  BY BelowFacts
<1>7. \A i \in 1..(Len(frames[running]) - 1) : frames'[running][i] = frames[running][i]
  BY <1>3, <1>5, <1>6, BelowFacts
<1> QED BY <1>3, <1>5, <1>6, <1>7 DEF t

(* What taking the frame off leaves.                                       *)
LEMMA PopTop ==
  ASSUME IrqInv, frames[running] # <<>>, frames' = [frames EXCEPT ![running] = Below]
  PROVE  /\ frames' \in [Process -> Seq(FrameType)]
         /\ \A p \in Process : p # running => frames'[p] = frames[p]
         /\ Len(frames'[running]) = Len(frames[running]) - 1
         /\ \A i \in 1..(Len(frames[running]) - 1) :
              frames'[running][i] = frames[running][i]
<1>1. frames \in [Process -> Seq(FrameType)] /\ running \in Process
  BY StackFacts DEF IrqInv, IrqTypeOK
<1>2. /\ frames'[running] = Below
      /\ \A p \in Process : p # running => frames'[p] = frames[p]
      /\ frames' \in [Process -> Seq(FrameType)]
  BY <1>1, BelowFacts
<1> QED BY <1>2, BelowFacts

(* What a new frame on top leaves.                                         *)
LEMMA PushTop ==
  ASSUME IrqInv, NEW frame \in FrameType, Push(frame)
  PROVE  /\ frames' \in [Process -> Seq(FrameType)]
         /\ \A p \in Process : p # running => frames'[p] = frames[p]
         /\ Len(frames'[running]) = Len(frames[running]) + 1
         /\ \A i \in 1..Len(frames[running]) : frames'[running][i] = frames[running][i]
         /\ frames'[running][Len(frames[running]) + 1] = frame
<1>1. frames[running] \in Seq(FrameType) /\ frames \in [Process -> Seq(FrameType)]
      /\ running \in Process
  BY StackFacts DEF IrqInv, IrqTypeOK
<1>2. frames' = [frames EXCEPT ![running] = Append(frames[running], frame)]
  BY DEF Push
<1> QED BY <1>1, <1>2, AppendProperties

(* With interrupts on, at most the frame of a routine before its cli.      *)
FlagMeansFree ==
  flag => frames[running] = <<>> \/ (InFrame("gate") /\ Len(frames[running]) = 1)

(* What is to be shown of a step; the first half of OnlyFaultsNest         *)
(* follows from the shapes.                                                *)
LEMMA Assemble ==
  ASSUME IrqTypeOK', InServiceOnlyAtEntry', FrameShapes', FreshUntouched', FlagMeansFree'
  PROVE  IrqInv'
<1>1. \A p \in Process :
        \A i, j \in DOMAIN frames'[p] :
          i < j => \/ frames'[p][i].stage = "gate" /\ frames'[p][j].stage # "gate"
                   \/ /\ frames'[p][i].exception = SYSTEM_GATE
                      /\ frames'[p][j].exception \in Exceptions
  <2> SUFFICES ASSUME NEW p \in Process, NEW i \in DOMAIN frames'[p], NEW j \in DOMAIN frames'[p],
                      i < j
               PROVE  \/ frames'[p][i].stage = "gate" /\ frames'[p][j].stage # "gate"
                      \/ /\ frames'[p][i].exception = SYSTEM_GATE
                         /\ frames'[p][j].exception \in Exceptions
    OBVIOUS
  <2>1. frames'[p] \in Seq(FrameType)
    BY DEF IrqTypeOK, FrameType, Stage
  <2>2. Len(frames'[p]) \in Nat /\ DOMAIN frames'[p] = 1..Len(frames'[p])
    BY <2>1, LenProperties
  <2>3. /\ Len(frames'[p]) <= 2
        /\ Len(frames'[p]) = 2 => Nested(frames'[p][1], frames'[p][2])
    BY DEF FrameShapes, Nested
  <2>4. \A n \in Nat : \A a, b \in 1..n : n <= 2 /\ a < b => n = 2 /\ a = 1 /\ b = 2
    OBVIOUS
  <2> DEFINE n == Len(frames'[p])
  <2>a. n \in Nat /\ i \in 1..n /\ j \in 1..n /\ n <= 2
    BY <2>2, <2>3
  <2> HIDE DEF n
  <2>b. n = 2 /\ i = 1 /\ j = 2
    BY <2>a, <2>4
  <2>5. Len(frames'[p]) = 2 /\ i = 1 /\ j = 2
    BY <2>b DEF n
  <2>6. Nested(frames'[p][1], frames'[p][2])
    BY <2>3, <2>5
  <2> QED BY <2>5, <2>6 DEF Nested
<1> QED BY <1>1 DEF IrqInv, OnlyFaultsNest, FlagMeansFree

LEMMA InitIrq == IrqInit => IrqInv
<1> SUFFICES ASSUME IrqInit PROVE IrqInv
  OBVIOUS
<1>1. frames = [p \in Process |-> <<>>] /\ running = Boot /\ in_service = {}
  BY DEF IrqInit
<1>2. \A p \in Process : frames[p] = <<>> /\ Len(frames[p]) = 0
  BY <1>1, EmptySeq
<1>3. IrqTypeOK
  BY <1>1, InterruptsAssumption, EmptySeq DEF IrqInit, IrqTypeOK
<1>4. OnlyFaultsNest
  <2>1. \A p \in Process : DOMAIN frames[p] = {}
    BY <1>2
  <2> QED BY <1>1, <1>2, <2>1, InterruptsAssumption DEF OnlyFaultsNest
<1>5. FrameShapes /\ FreshUntouched
  BY <1>1, <1>2 DEF FrameShapes, FreshUntouched, IrqInit
<1>6. InServiceOnlyAtEntry
  BY <1>1 DEF InServiceOnlyAtEntry
<1> QED BY <1>3, <1>4, <1>5, <1>6 DEF IrqInv

(* A frame is pushed on an empty stack or on one that it may interrupt.    *)
LEMMA PushKeepsShapes ==
  ASSUME IrqInv, UNCHANGED <<running, fresh>>, NEW frame \in FrameType, Push(frame),
         frames[running] = <<>> \/ (Len(frames[running]) = 1 /\ Nested(Top, frame))
  PROVE  /\ frames' \in [Process -> Seq(FrameType)]
         /\ FrameShapes' /\ FreshUntouched'
         /\ frames'[running] # <<>>
         /\ frames'[running][Len(frames'[running])] = frame
<1> DEFINE n == Len(frames[running])
<1>1. /\ frames' \in [Process -> Seq(FrameType)]
      /\ \A p \in Process : p # running => frames'[p] = frames[p]
      /\ Len(frames'[running]) = n + 1
      /\ \A i \in 1..n : frames'[running][i] = frames[running][i]
      /\ frames'[running][n + 1] = frame
  BY PushTop
<1>2. running \in Process /\ running \notin fresh
  BY DEF IrqInv, IrqTypeOK, FreshUntouched
<1>3. n = 0 \/ (n = 1 /\ Nested(frames[running][1], frame))
  BY StackFacts DEF Top
<1>4. FrameShapes'
  <2> SUFFICES ASSUME NEW p \in Process
               PROVE  /\ Len(frames'[p]) <= 2
                      /\ Len(frames'[p]) = 2 => Nested(frames'[p][1], frames'[p][2])
    BY DEF FrameShapes, Nested
  <2>1. CASE p # running
    BY <2>1, <1>1 DEF IrqInv, FrameShapes
  <2>2. CASE p = running
    <3>1. CASE n = 0
      BY <2>2, <3>1, <1>1
    <3>2. CASE n = 1 /\ Nested(frames[running][1], frame)
      <4>1. Len(frames'[p]) = 2 /\ frames'[p][1] = frames[running][1] /\ frames'[p][2] = frame
        BY <2>2, <3>2, <1>1
      <4> QED BY <4>1, <3>2
    <3> QED BY <3>1, <3>2, <1>3
  <2> QED BY <2>1, <2>2
<1>5. FreshUntouched'
  <2>1. \A p \in fresh : p \in Process /\ p # running
    BY <1>2 DEF IrqInv, IrqTypeOK
  <2> QED BY <1>1, <1>2, <2>1 DEF IrqInv, FreshUntouched
<1>6. Len(frames'[running]) # 0 /\ frames'[running] \in Seq(FrameType)
  BY <1>1, <1>2, <1>3
<1>7. frames'[running] # <<>>
  BY <1>6, EmptySeq
<1> QED BY <1>1, <1>4, <1>5, <1>7

LEMMA AcceptIrq == ASSUME IrqInv, NEW line \in Lines, accept(line) PROVE IrqInv'
<1> DEFINE frame == Frame(line, not_exp, "entered")
<1>1. in_service = {} /\ flag = TRUE
  BY DEF IrqInv, IrqTypeOK, InServiceOnlyAtEntry, accept
<1>2. frame \in FrameType /\ frame.stage = "entered" /\ frame.irq = line
  BY <1>1, InterruptsAssumption DEF FrameType, Stage, Frame, not_exp, SYSTEM_GATE
<1>3. frames[running] = <<>> \/ (Len(frames[running]) = 1 /\ Nested(Top, frame))
  <2>1. frames[running] = <<>> \/ (InFrame("gate") /\ Len(frames[running]) = 1)
    BY <1>1 DEF IrqInv, OnlyFaultsNest
  <2>2. line >= 0
    BY InterruptsAssumption
  <2> QED BY <1>2, <2>1, <2>2 DEF InFrame, Nested
<1>4. UNCHANGED <<running, fresh>> /\ Push(frame)
  BY DEF accept
<1> HIDE DEF frame
<1>5. /\ frames' \in [Process -> Seq(FrameType)]
      /\ FrameShapes' /\ FreshUntouched'
      /\ frames'[running] # <<>>
      /\ frames'[running][Len(frames'[running])] = frame
  BY <1>2, <1>3, <1>4, PushKeepsShapes
<1>6. flag' = FALSE /\ in_service' = {line} /\ running' = running
  BY <1>1 DEF accept
<1>7. InFrame("entered")' /\ Top' = frame
  BY <1>2, <1>5, <1>6 DEF InFrame, Top
<1>8. InServiceOnlyAtEntry'
  BY <1>2, <1>6, <1>7 DEF InServiceOnlyAtEntry
<1>9. IrqTypeOK'
  BY <1>5, <1>6 DEF IrqInv, IrqTypeOK, FrameType, Stage, accept
<1> QED BY <1>5, <1>6, <1>8, <1>9, Assemble DEF FlagMeansFree

LEMMA RaiseIrq == ASSUME IrqInv, NEW line \in Lines, raise(line) PROVE IrqInv'
<1>1. IrqTypeOK'
  BY DEF IrqInv, IrqTypeOK, raise
<1>2. InServiceOnlyAtEntry' /\ FrameShapes' /\ FreshUntouched'
  BY DEF IrqInv, InServiceOnlyAtEntry, FrameShapes, Nested, FreshUntouched, InFrame, Top, raise
<1>3. FlagMeansFree'
  BY DEF IrqInv, OnlyFaultsNest, FlagMeansFree, InFrame, Top, raise
<1> QED BY <1>1, <1>2, <1>3, Assemble

(* The causes of an interrupt in the running process itself: code of its   *)
(* own, or the system call's handler that works for it.                    *)
LEMMA OwnIrq ==
  ASSUME IrqInv, Executes, NEW frame \in FrameType, Push(frame),
         frames[running] = <<>> \/ (Len(frames[running]) = 1 /\ InFrame("handling")
                                      /\ Nested(Top, frame)),
         \/ frame.stage = "gate" /\ flag' = flag
         \/ frame.stage = "entered" /\ flag' = FALSE
  PROVE  IrqInv'
<1>1. UNCHANGED <<pending, in_service, running, fresh, load, dead>>
  BY DEF Executes
<1>2. in_service = {}
  BY DEF IrqInv, InServiceOnlyAtEntry, InFrame
<1>3. /\ frames' \in [Process -> Seq(FrameType)]
      /\ FrameShapes' /\ FreshUntouched'
      /\ frames'[running] # <<>>
      /\ frames'[running][Len(frames'[running])] = frame
  BY <1>1, PushKeepsShapes
<1>4. InServiceOnlyAtEntry'
  BY <1>1, <1>2 DEF InServiceOnlyAtEntry
<1>5. IrqTypeOK'
  BY <1>1, <1>3 DEF IrqInv, IrqTypeOK, FrameType, Stage
<1>6. FlagMeansFree'
  <2>1. CASE frames[running] = <<>>
    <3>1. Len(frames'[running]) = 1
      BY <2>1, PushTop, StackFacts
    <3> QED BY <1>1, <1>3, <3>1 DEF FlagMeansFree, InFrame, Top
  <2>2. CASE InFrame("handling")
    <3>1. ~(frames[running] = <<>> \/ InFrame("gate"))
      BY <2>2 DEF InFrame
    <3>2. flag = FALSE
      BY <3>1 DEF IrqInv, OnlyFaultsNest, IrqTypeOK
    <3>3. flag' = FALSE
      BY <3>2
    <3> QED BY <3>3 DEF FlagMeansFree
  <2> QED BY <2>1, <2>2
<1> QED BY <1>3, <1>4, <1>5, <1>6, Assemble

LEMMA CausesIrq == ASSUME IrqInv, syscall \/ exception \/ uninitilized PROVE IrqInv'
<1>1. flag \in BOOLEAN
  BY DEF IrqInv, IrqTypeOK
<1>2. CASE syscall
  <2>1. Frame(not_irq, SYSTEM_GATE, "entered") \in FrameType
        /\ Frame(not_irq, SYSTEM_GATE, "entered").stage = "entered"
    BY <1>1 DEF FrameType, Stage, Frame, not_irq, SYSTEM_GATE
  <2> QED BY <1>2, <2>1, OwnIrq DEF syscall, Instruction
<1>3. CASE exception
  <2>1. PICK number \in Exceptions : Push(Frame(not_irq, number, "gate"))
    BY <1>3 DEF exception
  <2> DEFINE frame == Frame(not_irq, number, "gate")
  <2>2. /\ frame \in FrameType /\ frame.stage = "gate"
        /\ frame.irq < 0 /\ frame.exception = number
    BY <1>1, InterruptsAssumption DEF FrameType, Stage, Frame, not_irq, SYSTEM_GATE
  <2>3. Executes /\ flag' = flag /\ Push(frame)
    BY <1>3, <2>1 DEF exception
  <2> HIDE DEF frame
  <2>4. frames[running] = <<>> \/ (Len(frames[running]) = 1 /\ InFrame("handling")
                                     /\ Nested(Top, frame))
    <3>1. CASE frames[running] = <<>>
      BY <3>1
    <3>2. CASE Serving
      <4>1. Len(frames[running]) = 1 /\ InFrame("handling")
            /\ Top.irq < 0 /\ Top.exception = SYSTEM_GATE
        BY <3>2, StackFacts DEF Serving
      <4> QED BY <2>2, <4>1 DEF Nested
    <3> QED BY <1>3, <3>1, <3>2 DEF exception
  <2> QED BY <2>2, <2>3, <2>4, OwnIrq
<1>4. CASE uninitilized
  <2>1. Frame(timer_irq, not_exp, "gate") \in FrameType
        /\ Frame(timer_irq, not_exp, "gate").stage = "gate"
    BY <1>1 DEF FrameType, Stage, Frame, timer_irq, not_exp, SYSTEM_GATE
  <2> QED BY <1>4, <2>1, OwnIrq DEF uninitilized, Instruction
<1> QED BY <1>2, <1>3, <1>4

(* A frame goes on to a later stage; that of an exception on top of a      *)
(* system call's does not get to its return.                               *)
LEMMA ReplaceKeepsShapes ==
  ASSUME IrqInv, NEW stage \in Stage \ {"gate"}, Replace(stage), frames[running] # <<>>,
         stage = "return" => Top.irq >= 0 \/ Top.exception = SYSTEM_GATE
  PROVE  /\ frames' \in [Process -> Seq(FrameType)]
         /\ FrameShapes'
         /\ \A p \in fresh : frames'[p] = <<>>
         /\ frames'[running] # <<>>
         /\ frames'[running][Len(frames'[running])] = [Top EXCEPT !.stage = stage]
<1> DEFINE n == Len(frames[running])
           t == [Top EXCEPT !.stage = stage]
<1>1. /\ frames' \in [Process -> Seq(FrameType)]
      /\ \A p \in Process : p # running => frames'[p] = frames[p]
      /\ Len(frames'[running]) = n
      /\ \A i \in 1..(n - 1) : frames'[running][i] = frames[running][i]
      /\ frames'[running][n] = t
  BY ReplaceTop
<1>2. /\ running \in Process /\ running \notin fresh /\ n \in 1..2
      /\ Top \in FrameType
      /\ t.stage = stage /\ t.irq = Top.irq /\ t.exception = Top.exception
  <2>1. running \in Process /\ running \notin fresh
    BY DEF IrqInv, IrqTypeOK, FreshUntouched
  <2>2. n \in 1..2 /\ Top \in FrameType
    BY StackFacts, BelowFacts
  <2> QED BY <2>1, <2>2 DEF FrameType
<1> HIDE DEF t
<1>3. FrameShapes'
  <2> SUFFICES ASSUME NEW p \in Process
               PROVE  /\ Len(frames'[p]) <= 2
                      /\ Len(frames'[p]) = 2 => Nested(frames'[p][1], frames'[p][2])
    BY DEF FrameShapes, Nested
  <2>1. CASE p # running
    BY <2>1, <1>1 DEF IrqInv, FrameShapes
  <2>2. CASE p = running
    <3>1. CASE n = 1
      BY <2>2, <3>1, <1>1
    <3>2. CASE n = 2
      <4>1. Nested(frames[running][1], Top)
        BY <1>2, <3>2 DEF IrqInv, FrameShapes, Top
      <4>2. frames'[running][1] = frames[running][1] /\ frames'[running][2] = t
        BY <1>1, <3>2
      <4>3. Top.irq \in Int /\ SYSTEM_GATE \notin Exceptions
        BY <1>2, InterruptsAssumption DEF FrameType, SYSTEM_GATE
      <4>4. Nested(frames[running][1], t)
        BY <1>2, <4>1, <4>3 DEF Nested
      <4>5. Len(frames'[p]) = 2 /\ Nested(frames'[p][1], frames'[p][2])
        BY <1>1, <2>2, <3>2, <4>2, <4>4, Zenon
      <4> QED BY <4>5
    <3> QED BY <1>2, <3>1, <3>2
  <2> QED BY <2>1, <2>2
<1>4. \A p \in fresh : frames'[p] = <<>>
  BY <1>1, <1>2 DEF IrqInv, IrqTypeOK, FreshUntouched
<1>5. frames'[running] \in Seq(FrameType) /\ Len(frames'[running]) # 0
  BY <1>1, <1>2
<1>6. frames'[running] # <<>>
  BY <1>5, EmptySeq
<1> QED BY <1>1, <1>3, <1>4, <1>6 DEF t

(* Past its cli a routine runs with interrupts off.                        *)
LEMMA FlagIsOff ==
  ASSUME IrqInv, NEW stage \in Stage \ {"gate"}, InFrame(stage)
  PROVE  flag = FALSE
<1>1. ~(frames[running] = <<>> \/ InFrame("gate"))
  BY DEF InFrame
<1> QED BY <1>1 DEF IrqInv, OnlyFaultsNest, IrqTypeOK

(* A line is in service while the frame on top is entered, and only then.  *)
LEMMA NothingInService ==
  ASSUME IrqInv, ~InFrame("entered")
  PROVE  in_service = {}
BY DEF IrqInv, InServiceOnlyAtEntry

LEMMA EntryIrq == ASSUME IrqInv, isr_entry PROVE IrqInv'
<1>1. /\ Replace("entered") /\ InFrame("gate") /\ frames[running] # <<>>
      /\ flag' = FALSE /\ UNCHANGED <<pending, in_service, running, fresh, load, dead>>
  BY DEF isr_entry, Executes, InFrame
<1>2. in_service = {}
  BY <1>1, NothingInService DEF InFrame
<1>3. /\ frames' \in [Process -> Seq(FrameType)]
      /\ FrameShapes' /\ \A p \in fresh : frames'[p] = <<>>
  BY <1>1, ReplaceKeepsShapes DEF Stage
<1>4. FreshUntouched' /\ InServiceOnlyAtEntry' /\ FlagMeansFree'
  BY <1>1, <1>2, <1>3 DEF IrqInv, FreshUntouched, InServiceOnlyAtEntry, FlagMeansFree
<1>5. IrqTypeOK'
  BY <1>1, <1>3 DEF IrqInv, IrqTypeOK, FrameType, Stage
<1> QED BY <1>3, <1>4, <1>5, Assemble

(* The acknowledgement clears the one line in service, whichever           *)
(* controller it belongs to, and nothing when there is none.               *)
LEMMA Acknowledged ==
  ASSUME NEW irq \in 0..15, in_service = {} \/ in_service = {irq}
  PROVE  EndOfInterrupt(irq) = {}
<1>1. CASE in_service = {}
  BY <1>1 DEF EndOfInterrupt
<1>2. CASE in_service = {irq}
  <2>1. Highest({irq}) = irq
    BY DEF Highest
  <2>2. CASE irq < 8
    <3>1. in_service \cap 0..7 = {irq}
      <4>1. irq \in 0..7
        BY <2>2
      <4> QED BY <1>2, <4>1, Zenon
    <3> QED BY <1>2, <2>1, <3>1 DEF EndOfInterrupt
  <2>3. CASE irq >= 8
    <3>1. in_service \cap 8..15 = {irq}
      <4>1. irq \in 8..15
        BY <2>3
      <4> QED BY <1>2, <4>1, Zenon
    <3> QED BY <1>2, <2>1, <2>3, <3>1 DEF EndOfInterrupt
  <2> QED BY <2>2, <2>3
<1> QED BY <1>1, <1>2

LEMMA DispatchIrq == ASSUME IrqInv, dispatch_interrupt PROVE IrqInv'
<1>1. /\ Replace("handling") /\ InFrame("entered") /\ frames[running] # <<>>
      /\ UNCHANGED <<pending, flag, running, fresh, load, dead>>
  BY DEF dispatch_interrupt, InFrame
<1>2. Top \in FrameType
  BY <1>1, StackFacts
<1>3. /\ frames' \in [Process -> Seq(FrameType)]
      /\ FrameShapes' /\ \A p \in fresh : frames'[p] = <<>>
  BY <1>1, ReplaceKeepsShapes DEF Stage
<1>4. in_service = {} \/ in_service = {Top.irq}
  BY DEF IrqInv, InServiceOnlyAtEntry
<1>5. flag' = FALSE
  BY <1>1, FlagIsOff DEF Stage
<1>6. in_service' = {}
  <2>1. CASE Top.irq >= 0
    <3>1. Top.irq \in 0..15
      BY <1>2, <2>1 DEF FrameType
    <3>2. in_service' = EndOfInterrupt(Top.irq)
      BY <2>1, <3>1 DEF dispatch_interrupt
    <3> QED BY <1>4, <3>1, <3>2, Acknowledged
  <2>2. CASE Top.irq < 0
    <3>1. Top.irq \notin Lines
      BY <1>2, <2>2, InterruptsAssumption DEF FrameType
    <3>2. in_service \subseteq Lines
      BY DEF IrqInv, IrqTypeOK
    <3>3. in_service' = in_service
      BY <1>2, <2>2 DEF dispatch_interrupt, FrameType
    <3> QED BY <1>4, <3>1, <3>2, <3>3
  <2>3. Top.irq \in Int
    BY <1>2 DEF FrameType
  <2> QED BY <2>1, <2>2, <2>3
<1>7. FreshUntouched' /\ InServiceOnlyAtEntry' /\ FlagMeansFree'
  BY <1>1, <1>3, <1>5, <1>6 DEF IrqInv, FreshUntouched, InServiceOnlyAtEntry, FlagMeansFree
<1>8. IrqTypeOK'
  BY <1>1, <1>3, <1>6 DEF IrqInv, IrqTypeOK, FrameType, Stage
<1> QED BY <1>3, <1>7, <1>8, Assemble

LEMMA HandlerIrq == ASSUME IrqInv, irq_handler PROVE IrqInv'
<1>1. /\ Replace("return") /\ InFrame("handling") /\ frames[running] # <<>> /\ Top.irq >= 0
      /\ UNCHANGED <<pending, in_service, dead>>
  BY DEF irq_handler, InFrame
<1>2. /\ frames' \in [Process -> Seq(FrameType)]
      /\ FrameShapes' /\ \A p \in fresh : frames'[p] = <<>>
  BY <1>1, ReplaceKeepsShapes DEF Stage
<1>3. flag = FALSE /\ in_service = {}
  BY <1>1, FlagIsOff, NothingInService DEF InFrame, Stage
<1>4. /\ running' \in Process
      /\ fresh' \subseteq Process /\ running' \notin fresh' /\ fresh' \subseteq fresh
      /\ flag' = FALSE \/ (flag' = TRUE /\ running' \in fresh)
      /\ load' \in [Process -> {"none", "loading", "failed"}]
  <2>1. CASE \E p \in Process : SwitchTo(p)
    <3>1. PICK p \in Process : SwitchTo(p)
      BY <2>1
    <3>2. running' = p /\ fresh' = fresh \ {p}
      BY <3>1 DEF SwitchTo
    <3>3. load' \in [Process -> {"none", "loading", "failed"}]
      BY <3>1 DEF SwitchTo, entrance_function, IrqInv, IrqTypeOK
    <3>4. flag' = FALSE \/ (flag' = TRUE /\ p \in fresh)
      BY <3>1 DEF SwitchTo, entrance_function
    <3> QED BY <3>2, <3>3, <3>4 DEF IrqInv, IrqTypeOK
  <2>2. CASE UNCHANGED <<flag, running, fresh, load>>
    BY <2>2, <1>3 DEF IrqInv, IrqTypeOK, FreshUntouched
  <2> QED BY <2>1, <2>2 DEF irq_handler
<1>5. FreshUntouched' /\ InServiceOnlyAtEntry' /\ FlagMeansFree'
  BY <1>1, <1>2, <1>3, <1>4 DEF FreshUntouched, InServiceOnlyAtEntry, FlagMeansFree
<1>6. IrqTypeOK'
  BY <1>1, <1>2, <1>4 DEF IrqInv, IrqTypeOK, FrameType, Stage
<1> QED BY <1>2, <1>5, <1>6, Assemble

(* A stack of one frame, where the caller and the child of a fork return.  *)
LEMMA SyscallIrq == ASSUME IrqInv, syscall_handler PROVE IrqInv'
<1>1. /\ Serving /\ InFrame("handling") /\ frames[running] # <<>>
      /\ UNCHANGED <<pending, in_service, flag, running, load, dead>>
      /\ Top.exception = SYSTEM_GATE
  BY DEF syscall_handler, Serving, InFrame
<1>2. flag' = FALSE /\ in_service' = {}
  BY <1>1, FlagIsOff, NothingInService DEF InFrame, Stage
<1>3. /\ running \in Process /\ running \notin fresh /\ fresh \subseteq Process
      /\ \A p \in fresh : frames[p] = <<>>
  BY DEF IrqInv, IrqTypeOK, FreshUntouched
<1>4. /\ frames' \in [Process -> Seq(FrameType)]
      /\ FrameShapes' /\ fresh' \subseteq fresh /\ \A p \in fresh' : frames'[p] = <<>>
  <2>1. CASE Replace("return") /\ fresh' = fresh
    BY <1>1, <2>1, ReplaceKeepsShapes DEF Stage
  <2>2. ASSUME NEW child \in fresh,
               LET stack == Append(Below, [Top EXCEPT !.stage = "return"])
               IN frames' = [frames EXCEPT ![running] = stack, ![child] = stack],
               fresh' = fresh \ {child}
        PROVE  /\ frames' \in [Process -> Seq(FrameType)]
               /\ FrameShapes' /\ fresh' \subseteq fresh /\ \A p \in fresh' : frames'[p] = <<>>
    <3> DEFINE t == [Top EXCEPT !.stage = "return"]
               stack == Append(Below, t)
    <3>1. t \in FrameType
      BY <1>1, StackFacts DEF FrameType, Stage
    <3> HIDE DEF t
    <3>2. Below \in Seq(FrameType) /\ Len(Below) = 0
      BY <1>1, StackFacts, BelowFacts
    <3>3. stack \in Seq(FrameType) /\ Len(stack) = 1
      BY <3>1, <3>2, AppendProperties
    <3>4. frames' = [frames EXCEPT ![running] = stack, ![child] = stack]
      BY <2>2 DEF t
    <3> HIDE DEF stack
    <3>5. /\ frames' \in [Process -> Seq(FrameType)]
          /\ \A p \in Process : frames'[p] = IF p \in {running, child} THEN stack ELSE frames[p]
      BY <1>1, <1>3, <3>3, <3>4, StackFacts
    <3>6. FrameShapes'
      <4> SUFFICES ASSUME NEW p \in Process
                   PROVE  /\ Len(frames'[p]) <= 2
                          /\ Len(frames'[p]) = 2 => Nested(frames'[p][1], frames'[p][2])
        BY DEF FrameShapes, Nested
      <4>1. CASE p \in {running, child}
        <5>1. frames'[p] = stack
          BY <3>5, <4>1
        <5>2. Len(frames'[p]) = 1
          BY <3>3, <5>1, Zenon
        <5> QED BY <5>2
      <4>2. CASE p \notin {running, child}
        <5>1. frames'[p] = frames[p]
          BY <3>5, <4>2
        <5>2. /\ Len(frames[p]) <= 2
              /\ Len(frames[p]) = 2 => Nested(frames[p][1], frames[p][2])
          BY DEF IrqInv, FrameShapes
        <5> QED BY <5>1, <5>2, Zenon
      <4> QED BY <4>1, <4>2
    <3> QED BY <1>3, <2>2, <3>5, <3>6
  <2> QED BY <2>1, <2>2 DEF syscall_handler
<1>5. FreshUntouched' /\ InServiceOnlyAtEntry' /\ FlagMeansFree'
  BY <1>1, <1>2, <1>3, <1>4 DEF FreshUntouched, InServiceOnlyAtEntry, FlagMeansFree
<1>6. IrqTypeOK'
  BY <1>1, <1>3, <1>4 DEF IrqInv, IrqTypeOK, FrameType, Stage
<1> QED BY <1>4, <1>5, <1>6, Assemble

(* A program is entered with nothing on the stack, or its load failed.     *)
LEMMA LoadIrq == ASSUME IrqInv, jump_in \/ load_fails PROVE IrqInv'
<1>1. frames \in [Process -> Seq(FrameType)] /\ running \in Process /\ running \notin fresh
      /\ fresh \subseteq Process /\ \A p \in fresh : frames[p] = <<>>
  BY StackFacts DEF IrqInv, IrqTypeOK, FreshUntouched
<1>2. in_service = {}
  BY NothingInService DEF jump_in, load_fails, Serving, InFrame
<1>3. CASE jump_in
  <2>1. /\ frames' = [frames EXCEPT ![running] = <<>>] /\ flag' = TRUE
        /\ load' = [load EXCEPT ![running] = "none"]
        /\ UNCHANGED <<pending, in_service, running, fresh, dead>>
    BY <1>3 DEF jump_in
  <2>2. <<>> \in Seq(FrameType) /\ Len(<<>>) = 0
    BY EmptySeq
  <2>3. /\ frames' \in [Process -> Seq(FrameType)] /\ frames'[running] = <<>>
        /\ \A p \in Process : p # running => frames'[p] = frames[p]
    BY <1>1, <2>1, <2>2
  <2>4. FrameShapes'
    <3> SUFFICES ASSUME NEW p \in Process
                 PROVE  /\ Len(frames'[p]) <= 2
                        /\ Len(frames'[p]) = 2 => Nested(frames'[p][1], frames'[p][2])
      BY DEF FrameShapes, Nested
    <3>1. CASE p = running
      BY <2>2, <2>3, <3>1
    <3>2. CASE p # running
      BY <2>3, <3>2 DEF IrqInv, FrameShapes
    <3> QED BY <3>1, <3>2
  <2>5. FreshUntouched' /\ InServiceOnlyAtEntry' /\ FlagMeansFree'
    BY <1>1, <1>2, <2>1, <2>3 DEF FreshUntouched, InServiceOnlyAtEntry, FlagMeansFree
  <2>6. IrqTypeOK'
    BY <2>1, <2>3 DEF IrqInv, IrqTypeOK, FrameType, Stage
  <2> QED BY <2>4, <2>5, <2>6, Assemble
<1>4. CASE load_fails
  <2>1. UNCHANGED <<pending, in_service, flag, running, fresh, frames, dead>>
        /\ load' = [load EXCEPT ![running] = "failed"]
    BY <1>4 DEF load_fails
  <2>2. InServiceOnlyAtEntry' /\ FrameShapes' /\ FreshUntouched' /\ FlagMeansFree'
    BY <1>2, <2>1 DEF IrqInv, InServiceOnlyAtEntry, FrameShapes, Nested, FreshUntouched,
                      OnlyFaultsNest, FlagMeansFree, InFrame, Top
  <2>3. IrqTypeOK'
    BY <2>1 DEF IrqInv, IrqTypeOK
  <2> QED BY <2>2, <2>3, Assemble
<1> QED BY <1>3, <1>4

LEMMA ReturnIrq == ASSUME IrqInv, isr_return PROVE IrqInv'
<1> DEFINE n == Len(frames[running])
<1>1. /\ InFrame("return") /\ frames[running] # <<>>
      /\ flag' = Top.flag /\ frames' = [frames EXCEPT ![running] = Below]
      /\ UNCHANGED <<pending, in_service, running, fresh, load, dead>>
  BY DEF isr_return, InFrame
<1>2. Top \in FrameType /\ Top.stage = "return" /\ n \in 1..2
  BY <1>1, StackFacts, BelowFacts DEF InFrame
<1>3. /\ frames' \in [Process -> Seq(FrameType)]
      /\ \A p \in Process : p # running => frames'[p] = frames[p]
      /\ Len(frames'[running]) = n - 1
      /\ \A i \in 1..(n - 1) : frames'[running][i] = frames[running][i]
  BY <1>1, PopTop
<1>4. running \in Process /\ running \notin fresh /\ fresh \subseteq Process
  BY DEF IrqInv, IrqTypeOK, FreshUntouched
<1>5. in_service = {}
  BY <1>1, NothingInService DEF InFrame
<1>6. FrameShapes'
  <2>1. Len(frames'[running]) <= 1
    <3>1. \A k \in 1..2 : k - 1 <= 1
      OBVIOUS
    <3> QED BY <1>2, <1>3, <3>1, Zenon
  <2> SUFFICES ASSUME NEW p \in Process
               PROVE  /\ Len(frames'[p]) <= 2
                      /\ Len(frames'[p]) = 2 => Nested(frames'[p][1], frames'[p][2])
    BY DEF FrameShapes, Nested
  <2>2. CASE p = running
    <3>1. Len(frames'[p]) \in Nat
      BY <1>3, LenProperties
    <3> QED BY <2>1, <2>2, <3>1
  <2>3. CASE p # running
    BY <1>3, <2>3 DEF IrqInv, FrameShapes
  <2> QED BY <2>2, <2>3
<1>7. FreshUntouched' /\ InServiceOnlyAtEntry'
  BY <1>1, <1>3, <1>4, <1>5 DEF IrqInv, FreshUntouched, InServiceOnlyAtEntry
<1>8. IrqTypeOK'
  BY <1>1, <1>2, <1>3 DEF IrqInv, IrqTypeOK, FrameType, Stage
<1>9. FlagMeansFree'
  <2>1. CASE n = 1
    <3>1. frames'[running] \in Seq(FrameType) /\ Len(frames'[running]) = 0
      BY <1>3, <1>4, <2>1
    <3>2. frames'[running] = <<>>
      BY <3>1, EmptySeq
    <3> QED BY <1>1, <3>2 DEF FlagMeansFree
  <2>2. CASE n = 2
    <3>1. frames[running][1].stage = "gate"
      <4>1. Nested(frames[running][1], Top)
        BY <1>4, <2>2 DEF IrqInv, FrameShapes, Top
      <4> QED BY <1>2, <4>1 DEF Nested
    <3>2. Len(frames'[running]) = 1 /\ frames'[running][1] = frames[running][1]
      BY <1>3, <2>2
    <3>3. frames'[running] \in Seq(FrameType)
      BY <1>3, <1>4
    <3>4. frames'[running] # <<>>
      BY <3>2, <3>3, EmptySeq
    <3> QED BY <1>1, <3>1, <3>2, <3>4 DEF FlagMeansFree, InFrame, Top
  <2> QED BY <1>2, <2>1, <2>2
<1> QED BY <1>6, <1>7, <1>8, <1>9, Assemble

LEMMA NextIrq == IrqInv /\ [IrqNext]_irqVars => IrqInv'
<1> SUFFICES ASSUME IrqInv, [IrqNext]_irqVars PROVE IrqInv'
  OBVIOUS
<1>1. ASSUME NEW line \in Lines, raise(line) \/ accept(line) PROVE IrqInv'
  BY <1>1, RaiseIrq, AcceptIrq
<1>2. CASE syscall \/ exception \/ uninitilized
  BY <1>2, CausesIrq
<1>3. CASE isr_entry
  BY <1>3, EntryIrq
<1>4. CASE dispatch_interrupt
  BY <1>4, DispatchIrq
<1>5. CASE irq_handler
  BY <1>5, HandlerIrq
<1>6. CASE syscall_handler
  BY <1>6, SyscallIrq
<1>7. CASE jump_in \/ load_fails
  BY <1>7, LoadIrq
<1>8. CASE exception_handler
  <2>1. dead' = TRUE /\ UNCHANGED <<pending, in_service, flag, running, fresh, load, frames>>
    BY <1>8 DEF exception_handler
  <2> QED BY <2>1 DEF IrqInv, IrqTypeOK, InServiceOnlyAtEntry, OnlyFaultsNest,
                      FrameShapes, Nested, FreshUntouched, InFrame, Top
<1>9. CASE isr_return
  BY <1>9, ReturnIrq
<1>10. CASE UNCHANGED irqVars
  BY <1>10 DEF irqVars, IrqInv, IrqTypeOK, InServiceOnlyAtEntry, OnlyFaultsNest,
               FrameShapes, Nested, FreshUntouched, InFrame, Top
<1> QED BY <1>1, <1>2, <1>3, <1>4, <1>5, <1>6, <1>7, <1>8, <1>9, <1>10 DEF IrqNext

(* The inductive invariant of interrupt entry, dispatch and return.        *)
THEOREM IrqInvariant == IrqSpec => []IrqInv
<1> QED BY InitIrq, NextIrq, PTL DEF IrqSpec

(* Frames, lines and flags keep their types (isr_registers).               *)
THEOREM IrqTypeCorrect == IrqSpec => []IrqTypeOK
<1>1. IrqInv => IrqTypeOK
  BY DEF IrqInv
<1> QED BY <1>1, IrqInvariant, PTL

(* dispatch_interrupt acknowledges before the handler runs, so that no     *)
(* line is in service while a handler runs or switches away.               *)
THEOREM AcknowledgedBeforeHandlers == IrqSpec => []InServiceOnlyAtEntry
<1>1. IrqInv => InServiceOnlyAtEntry
  BY DEF IrqInv
<1> QED BY <1>1, IrqInvariant, PTL

(* The gates, cli and the frames' flags let nothing but a fault of its own *)
(* interrupt a handler, on every stack and across every switch and fork.   *)
THEOREM OnlyFaultsNestInHandlers == IrqSpec => []OnlyFaultsNest
<1>1. IrqInv => OnlyFaultsNest
  BY DEF IrqInv
<1> QED BY <1>1, IrqInvariant, PTL
-----------------------------------------------------------------------------
(* The timer. *)

Kinds ==
  /\ lo \in 0..(Word - 1) /\ hi \in Nat /\ waited \in Nat /\ asked \in Nat
  /\ half.word \in {"lo", "hi"} /\ half.value \in Nat /\ until \in Nat
  /\ pc \in {"idle", "start", "start_2nd", "loop", "loop_2nd"}

(* While waited <= lo, the high word is what it was at the call.  A word   *)
(* loaded since then is no older than the call, and the deadline is at     *)
(* least as far from the call as was asked.                                *)
SinceCall ==
  pc # "idle" /\ waited <= lo =>
    /\ pc \in {"start_2nd", "loop_2nd"} =>
         IF half.word = "hi" THEN half.value = hi
                             ELSE half.value \in (lo - waited)..lo
    /\ pc \in {"loop", "loop_2nd"} => until >= Ticks - waited + asked

WaitInv == Kinds /\ SinceCall

-----------------------------------------------------------------------------
LEMMA WordIsPositive == Word \in Nat \ {0} /\ WaitTicks \subseteq Nat
  BY TimerAssumption DEF TimerAssumption, Word

(* Below a carry, ++ticks leaves the high word alone.                      *)
LEMMA NoCarry ==
  ASSUME NEW w \in Nat \ {0}, NEW h \in Nat, NEW l \in 0..(w - 1)
  PROVE  /\ (h * w + l) % w = l
         /\ (h * w + l) \div w = h
<1>. DEFINE a == h * w + l
            q == a \div w
            r == a % w
<1>1. a \in Nat /\ l \in Nat /\ h * w \in Nat
  OBVIOUS
<1>2. q \in Int /\ r \in 0..(w - 1) /\ a = w * q + r
  BY <1>1
<1>. HIDE DEF q, r
<1>3. q <= h
  <2>1. SUFFICES ASSUME q >= h + 1 PROVE FALSE
    BY <1>2
  <2>2. w * q >= w * (h + 1)
    BY <1>2, <2>1
  <2>3. w * (h + 1) = h * w + w
    OBVIOUS
  <2>. QED
    BY <1>1, <1>2, <2>2, <2>3
<1>4. q >= h
  <2>1. SUFFICES ASSUME q <= h - 1 PROVE FALSE
    BY <1>2
  <2>2. w * q <= w * (h - 1)
    BY <1>2, <2>1
  <2>3. w * (h - 1) = h * w - w
    OBVIOUS
  <2>. QED
    BY <1>1, <1>2, <2>2, <2>3
<1>5. q = h
  BY <1>2, <1>3, <1>4
<1>6. r = l
  BY <1>1, <1>2, <1>5
<1>. QED
  BY <1>5, <1>6 DEF q, r

(* The handler counts on: without a carry, or into the next high word.     *)
LEMMA OneTickMore ==
  ASSUME Kinds, timer_interrupt_handler
  PROVE  \/ lo' = lo + 1 /\ hi' = hi /\ lo + 1 <= Word - 1
         \/ lo' = 0 /\ hi' = hi + 1 /\ lo = Word - 1
<1>1. lo' = (hi * Word + lo + 1) % Word /\ hi' = (hi * Word + lo + 1) \div Word
  BY DEF timer_interrupt_handler, Ticks
<1>2. Word \in Nat \ {0} /\ hi \in Nat /\ lo \in 0..(Word - 1)
  BY WordIsPositive DEF Kinds
<1>. HIDE DEF Word
<1>3. CASE lo + 1 <= Word - 1
  <2>1. hi * Word + lo + 1 = hi * Word + (lo + 1) /\ lo + 1 \in 0..(Word - 1)
    BY <1>2, <1>3
  <2>. QED
    BY <1>1, <1>2, <1>3, <2>1, NoCarry
<1>4. CASE lo = Word - 1
  <2>1. hi * Word + lo + 1 = (hi + 1) * Word + 0 /\ 0 \in 0..(Word - 1) /\ hi + 1 \in Nat
    BY <1>2, <1>4
  <2>. QED
    BY <1>1, <1>2, <2>1, NoCarry
<1>. QED
  BY <1>2, <1>3, <1>4

LEMMA InitWait == Init => WaitInv
  BY WordIsPositive DEF Init, WaitInv, Kinds, SinceCall

LEMMA HandlerKeeps ==
  ASSUME WaitInv, timer_interrupt_handler
  PROVE  WaitInv'
<1>1. Kinds /\ SinceCall /\ Word \in Nat \ {0}
  BY WordIsPositive DEF WaitInv
<1>2. \/ lo' = lo + 1 /\ hi' = hi /\ lo + 1 <= Word - 1
      \/ lo' = 0 /\ hi' = hi + 1
  BY <1>1, OneTickMore
<1>3. waited' = (IF pc = "idle" THEN 0 ELSE waited + 1)
      /\ UNCHANGED <<pc, half, until, asked>>
  BY DEF timer_interrupt_handler
<1>4. Word' = Word
  BY DEF Word
<1>. HIDE DEF Word
<1>5. Kinds'
  BY <1>1, <1>2, <1>3, <1>4 DEF Kinds
<1>6. SinceCall'
  <2>1. SUFFICES ASSUME pc # "idle", waited' <= lo'
                 PROVE  /\ pc \in {"start_2nd", "loop_2nd"} =>
                             IF half.word = "hi" THEN half.value = hi'
                                                 ELSE half.value \in (lo' - waited')..lo'
                        /\ pc \in {"loop", "loop_2nd"} => until >= Ticks' - waited' + asked
    BY <1>3 DEF SinceCall
  <2>2. lo' = lo + 1 /\ hi' = hi /\ waited' = waited + 1 /\ waited <= lo
    BY <2>1, <1>1, <1>2, <1>3 DEF Kinds
  <2>3. Ticks' - waited' = Ticks - waited
    <3>1. Ticks = hi * Word + lo /\ Ticks' = hi * Word + (lo + 1) /\ hi * Word \in Int
      BY <2>2, <1>1, <1>4 DEF Ticks, Kinds
    <3>. QED
      BY <3>1, <2>2, <1>1 DEF Kinds
  <2>. QED
    BY <2>1, <2>2, <2>3, <1>1 DEF Kinds, SinceCall
<1>. QED
  BY <1>5, <1>6 DEF WaitInv

(* A word loaded now is as new as can be.                                  *)
LEMMA LoadKeeps ==
  ASSUME WaitInv, NEW from \in {"start", "loop"}, NEW to \in {"start_2nd", "loop_2nd"},
         from = "start" <=> to = "start_2nd", LoadFirst(from, to)
  PROVE  WaitInv'
<1>1. Kinds /\ SinceCall /\ Word \in Nat \ {0}
  BY WordIsPositive DEF WaitInv
<1>2. /\ pc = from /\ pc' = to /\ UNCHANGED <<lo, hi, until, asked, waited>>
      /\ \/ half'.word = "lo" /\ half'.value = lo
         \/ half'.word = "hi" /\ half'.value = hi
  BY DEF LoadFirst
<1>3. Kinds'
  BY <1>1, <1>2 DEF Kinds, Word
<1>4. SinceCall'
  BY <1>1, <1>2 DEF SinceCall, Kinds, Ticks, Word
<1>. QED
  BY <1>3, <1>4 DEF WaitInv

(* A whole read, while the high word stays, is of a value since the call.  *)
LEMMA ValueReadSinceCall ==
  ASSUME WaitInv, pc \in {"start_2nd", "loop_2nd"}, waited <= lo
  PROVE  /\ ValueRead \in Nat /\ Ticks \in Nat
         /\ Ticks - waited <= ValueRead /\ ValueRead <= Ticks
<1>1. Word \in Nat \ {0} /\ lo \in Nat /\ hi \in Nat /\ waited \in Nat /\ half.value \in Nat
      /\ half.word \in {"lo", "hi"}
  BY WordIsPositive DEF WaitInv, Kinds
<1>. HIDE DEF Word
<1>2. hi * Word \in Nat
  BY <1>1
<1>3. CASE half.word = "hi"
  <2>1. half.value = hi
    BY <1>3 DEF WaitInv, SinceCall
  <2>2. ValueRead = Ticks
    BY <2>1, <1>3 DEF ValueRead, Ticks
  <2>3. Ticks \in Nat
    BY <1>1, <1>2 DEF Ticks
  <2>. QED
    BY <2>2, <2>3, <1>1
<1>4. CASE half.word = "lo"
  <2>1. half.value \in (lo - waited)..lo
    BY <1>4 DEF WaitInv, SinceCall
  <2>2. ValueRead = hi * Word + half.value /\ Ticks = hi * Word + lo
    BY <1>4 DEF ValueRead, Ticks
  <2>. QED
    BY <2>1, <2>2, <1>1, <1>2
<1>. QED
  BY <1>1, <1>3, <1>4

LEMMA ComputeKeeps ==
  ASSUME WaitInv, compute_until
  PROVE  WaitInv'
<1>1. Kinds /\ pc = "start_2nd" /\ pc' = "loop" /\ until' = ValueRead + asked
      /\ UNCHANGED <<lo, hi, half, asked, waited>>
  BY DEF compute_until, WaitInv
<1>2. Word \in Nat \ {0} /\ hi \in Nat /\ lo \in Nat /\ half.value \in Nat /\ half.word \in {"lo", "hi"}
  BY <1>1, WordIsPositive DEF Kinds
<1>3. ValueRead \in Nat
  BY <1>2 DEF ValueRead
<1>4. Kinds'
  BY <1>1, <1>3 DEF Kinds, Word
<1>5. waited <= lo => Ticks - waited <= ValueRead /\ Ticks \in Nat
  BY <1>1, ValueReadSinceCall
<1>6. Ticks' = Ticks
  BY <1>1 DEF Ticks, Word
<1>7. SinceCall'
  <2>1. waited <= lo => until' >= Ticks' - waited' + asked'
    BY <1>1, <1>3, <1>5, <1>6 DEF Kinds
  <2>. QED
    BY <2>1, <1>1 DEF SinceCall
<1>. QED
  BY <1>4, <1>7 DEF WaitInv

LEMMA StepWait == WaitInv /\ [Next]_vars => WaitInv'
<1>. SUFFICES ASSUME WaitInv, [Next]_vars PROVE WaitInv'
  OBVIOUS
<1>1. CASE timer_interrupt_handler
  BY <1>1, HandlerKeeps
<1>2. CASE \E n \in WaitTicks : wait(n)
  <2>. PICK n \in WaitTicks : wait(n)
    BY <1>2
  <2>1. n \in Nat /\ pc' = "start" /\ asked' = n /\ waited' = 0
        /\ UNCHANGED <<lo, hi, half, until>>
    BY WordIsPositive DEF wait
  <2>. QED
    BY <2>1 DEF WaitInv, Kinds, SinceCall, Word
<1>3. CASE load_start
  BY <1>3, LoadKeeps DEF load_start
<1>4. CASE compute_until
  BY <1>4, ComputeKeeps
<1>5. CASE load_loop
  BY <1>5, LoadKeeps DEF load_loop
<1>6. CASE test_until
  <2>1. /\ pc = "loop_2nd" /\ pc' \in {"loop", "idle"}
        /\ UNCHANGED <<lo, hi, half, until, asked, waited>>
    BY <1>6 DEF test_until
  <2>. QED
    BY <2>1 DEF WaitInv, Kinds, SinceCall, Ticks, Word
<1>7. CASE UNCHANGED vars
  BY <1>7 DEF vars, waitVars, WaitInv, Kinds, SinceCall, Ticks, Word
<1>. QED
  BY <1>1, <1>2, <1>3, <1>4, <1>5, <1>6, <1>7 DEF Next

-----------------------------------------------------------------------------
(* The mask.  Numbers first.                                               *)

LEMMA LeastNatural ==
  ASSUME NEW S, S \subseteq Nat, S # {}
  PROVE  \E x \in S : \A y \in S : x <= y
<1>1. PICK x \in S : \A y \in S : ~(<<y, x>> \in OpToRel(<, Nat))
  BY NatLessThanWellFounded, WFMin
<1>2. \A y \in S : ~(y < x)
  BY <1>1 DEF OpToRel
<1>. QED
  BY <1>2

(* What holds of 0, and of each number when it does of the one before.     *)
LEMMA OneAfterTheOther ==
  ASSUME NEW n \in Nat, NEW S, 0 \in S, \A k \in 1..n : k - 1 \in S => k \in S
  PROVE  \A k \in 0..n : k \in S
<1>. DEFINE Bad == {k \in 0..n : k \notin S}
<1>. SUFFICES ASSUME Bad # {} PROVE FALSE
  OBVIOUS
<1>1. PICK k \in Bad : \A j \in Bad : k <= j
  <2>1. Bad \subseteq Nat
    OBVIOUS
  <2>. QED
    BY <2>1, LeastNatural
<1>2. k \in 1..n /\ k - 1 \in 0..n
  BY <1>1
<1>3. k - 1 \in S
  BY <1>1, <1>2
<1>. QED
  BY <1>1, <1>2, <1>3

LEMMA PowersAreDefined ==
  \E f : f = [b \in 0..TickBits |-> IF b = 0 THEN 1 ELSE 2 * f[b - 1]]
<1>. DEFINE At(f, b) == IF b = 0 THEN 1 ELSE 2 * f[b - 1]
            Defined == {n \in Nat : \E f : f = [b \in 0..n |-> At(f, b)]}
<1>0. TickBits \in Nat
  BY TickAssumption
<1>1. 0 \in Defined
  <2>. DEFINE g == [b \in 0..0 |-> 1]
  <2>1. g = [b \in 0..0 |-> At(g, b)]
    OBVIOUS
  <2>. QED
    BY <2>1
<1>2. ASSUME NEW n \in 1..TickBits, n - 1 \in Defined PROVE n \in Defined
  <2>1. PICK f : f = [b \in 0..(n - 1) |-> At(f, b)]
    BY <1>2
  <2>. DEFINE g == [b \in 0..n |-> At(f, b)]
  <2>2. ASSUME NEW b \in 0..(n - 1) PROVE g[b] = f[b]
    <3>1. b \in 0..n /\ f[b] = At(f, b)
      BY <2>1
    <3>. QED
      BY <3>1
  <2>3. ASSUME NEW b \in 0..n PROVE At(g, b) = At(f, b)
    <3>1. b = 0 \/ b - 1 \in 0..(n - 1)
      OBVIOUS
    <3>2. b # 0 => g[b - 1] = f[b - 1]
      BY <2>2, <3>1
    <3>. HIDE DEF g
    <3>. QED
      BY <3>2
  <2>4. g = [b \in 0..n |-> At(g, b)]
    BY <2>3
  <2>. HIDE DEF g
  <2>5. \E h : h = [b \in 0..n |-> At(h, b)]
    BY <2>4, Zenon
  <2>. QED
    BY <2>5
<1>3. TickBits \in Defined
  <2>1. TickBits \in 0..TickBits
    BY <1>0
  <2>. HIDE DEF Defined
  <2>2. \A n \in 0..TickBits : n \in Defined
    BY <1>0, <1>1, <1>2, OneAfterTheOther
  <2>. QED
    BY <2>1, <2>2
<1>. QED
  BY <1>3

LEMMA Powers ==
  /\ PowerOfTwo[0] = 1
  /\ \A b \in 1..TickBits : PowerOfTwo[b] = 2 * PowerOfTwo[b - 1]
  /\ \A b \in 0..TickBits : PowerOfTwo[b] \in Nat \ {0}
<1>0. TickBits \in Nat
  BY TickAssumption
<1>1. PowerOfTwo = [b \in 0..TickBits |-> IF b = 0 THEN 1 ELSE 2 * PowerOfTwo[b - 1]]
  BY PowersAreDefined, Zenon DEF PowerOfTwo
<1>2. PowerOfTwo[0] = 1
  BY <1>0, <1>1
<1>3. \A b \in 1..TickBits : PowerOfTwo[b] = 2 * PowerOfTwo[b - 1]
  BY <1>0, <1>1
<1>. DEFINE S == {b \in Nat : PowerOfTwo[b] \in Nat \ {0}}
<1>4. 0 \in S
  BY <1>2
<1>5. ASSUME NEW b \in 1..TickBits, b - 1 \in S PROVE b \in S
  BY <1>3, <1>5
<1>6. \A b \in 0..TickBits : b \in S
  <2>. HIDE DEF S
  <2>. QED
    BY <1>0, <1>4, <1>5, OneAfterTheOther
<1>. QED
  BY <1>2, <1>3, <1>6

(* A power of two is an even multiple of every smaller one.                *)
LEMMA EvenMultiple ==
  ASSUME NEW B \in 0..TickBits, NEW b \in 0..(B - 1)
  PROVE  \E m \in Nat : PowerOfTwo[B] = PowerOfTwo[b] * (2 * m)
<1>. DEFINE p == PowerOfTwo[b]
            S == {j \in Nat : \E m \in Nat : PowerOfTwo[b + 1 + j] = p * (2 * m)}
            n == B - b - 1
<1>1. TickBits \in Nat /\ b \in 0..TickBits /\ n \in Nat /\ p \in Nat \ {0}
  BY TickAssumption, Powers
<1>2. 0 \in S
  <2>1. b + 1 \in 1..TickBits /\ (b + 1) - 1 = b /\ b + 1 + 0 = b + 1
    BY <1>1
  <2>2. PowerOfTwo[b + 1 + 0] = 2 * p
    BY <2>1, Powers
  <2>3. 2 * p = p * (2 * 1) /\ 1 \in Nat
    BY <1>1
  <2>. QED
    BY <2>2, <2>3
<1>3. ASSUME NEW j \in 1..n, j - 1 \in S PROVE j \in S
  <2>1. PICK m \in Nat : PowerOfTwo[b + 1 + (j - 1)] = p * (2 * m)
    BY <1>3
  <2>2. b + 1 + j \in 1..TickBits /\ (b + 1 + j) - 1 = b + 1 + (j - 1)
    BY <1>1
  <2>3. PowerOfTwo[b + 1 + j] = 2 * (p * (2 * m))
    BY <2>1, <2>2, Powers
  <2>4. 2 * (p * (2 * m)) = p * (2 * (2 * m)) /\ 2 * m \in Nat /\ j \in Nat
    <3>. HIDE DEF p, n
    <3>. QED
      BY <1>1
  <2>. QED
    BY <2>3, <2>4
<1>4. n \in S
  <2>. HIDE DEF S
  <2>1. \A j \in 0..n : j \in S
    BY <1>1, <1>2, <1>3, OneAfterTheOther
  <2>. QED
    BY <1>1, <2>1
<1>5. b + 1 + n = B
  BY <1>1
<1>. QED
  BY <1>4, <1>5

LEMMA DivisionIs ==
  ASSUME NEW w \in Nat \ {0}, NEW x \in Nat
  PROVE  x \div w \in Nat /\ x % w \in 0..(w - 1) /\ x = (x \div w) * w + (x % w)
OBVIOUS

LEMMA BitIsBit ==
  ASSUME NEW b \in 0..TickBits, NEW x \in Nat
  PROVE  Bit(x, b) \in {0, 1}
<1>. DEFINE w == PowerOfTwo[b]
            y == x \div w
<1>1. w \in Nat \ {0}
  BY Powers
<1>2. y \in Nat
  BY <1>1, DivisionIs
<1>. HIDE DEF y
<1>3. y % 2 \in {0, 1}
  BY <1>2
<1>. QED
  BY <1>3 DEF Bit, y

(* Bits below B do not see multiples of its power.                         *)
LEMMA LowBits ==
  ASSUME NEW B \in 0..TickBits, NEW b \in 0..(B - 1), NEW x \in Nat, NEW k \in Nat
  PROVE  Bit(x + k * PowerOfTwo[B], b) = Bit(x, b)
<1>. DEFINE p == PowerOfTwo[b]
            q == x \div p
            r == x % p
<1>1. b \in 0..TickBits /\ p \in Nat \ {0}
  BY TickAssumption, Powers
<1>2. PICK m \in Nat : PowerOfTwo[B] = p * (2 * m)
  BY EvenMultiple
<1>3. q \in Nat /\ r \in 0..(p - 1) /\ x = q * p + r
  BY <1>1, DivisionIs
<1>. HIDE DEF p, q, r
<1>4. x + k * PowerOfTwo[B] = (q + 2 * (k * m)) * p + r /\ k * m \in Nat
  BY <1>1, <1>2, <1>3
<1>5. (x + k * PowerOfTwo[B]) \div p = q + 2 * (k * m)
  <2>. DEFINE h == q + 2 * (k * m)
  <2>1. h \in Nat
    BY <1>3, <1>4
  <2>. HIDE DEF h
  <2>2. (h * p + r) \div p = h
    BY <1>1, <1>3, <2>1, NoCarry
  <2>. QED
    BY <1>4, <2>2 DEF h
<1>6. (q + 2 * (k * m)) % 2 = q % 2
  <2>. DEFINE y == k * m
  <2>1. y \in Nat
    BY <1>4
  <2>. HIDE DEF y
  <2>2. (q + 2 * y) % 2 = q % 2
    BY <1>3, <2>1
  <2>. QED
    BY <2>2 DEF y
<1>7. x \div p = q
  BY DEF q
<1>. QED
  BY <1>5, <1>6, <1>7 DEF Bit, p

(* Among as many numbers in a row as the mask is large, and one more, one   *)
(* shares no bit with it: by the mask's highest bit, which the numbers      *)
(* have in every second block of its power.                                 *)
Clear(B, M, t) == \A b \in 0..(B - 1) : Bit(t, b) * Bit(M, b) = 0

LEMMA SomeTickIsClear ==
  ASSUME NEW B \in 0..TickBits
  PROVE  \A M \in 0..(PowerOfTwo[B] - 1), a \in Nat : \E t \in a..(a + M) : Clear(B, M, t)
<1>. DEFINE S == {n \in Nat : \A M \in 0..(PowerOfTwo[n] - 1), a \in Nat :
                                \E t \in a..(a + M) : Clear(n, M, t)}
<1>1. 0 \in S
  <2>1. ASSUME NEW M \in 0..(PowerOfTwo[0] - 1), NEW a \in Nat
        PROVE  \E t \in a..(a + M) : Clear(0, M, t)
    <3>1. M = 0 /\ a \in a..(a + M)
      BY Powers
    <3>2. Clear(0, M, a)
      BY DEF Clear
    <3>. QED
      BY <3>1, <3>2
  <2>. QED
    BY <2>1
<1>2. ASSUME NEW n \in 1..TickBits, n - 1 \in S PROVE n \in S
  <2>. DEFINE c == n - 1
              P == PowerOfTwo[c]
  <2>1. /\ TickBits \in Nat /\ c \in 0..TickBits /\ c \in Nat /\ n = c + 1 /\ n \in Nat
        /\ P \in Nat \ {0} /\ PowerOfTwo[n] = 2 * P
    BY TickAssumption, Powers
  <2>2. ASSUME NEW M \in 0..(P - 1), NEW a \in Nat
        PROVE  \E t \in a..(a + M) : Clear(c, M, t)
    BY <1>2, <2>2
  <2>. HIDE DEF c
  <2>3. \A M, t : Clear(n, M, t) <=> Clear(c, M, t) /\ Bit(t, c) * Bit(M, c) = 0
    BY <2>1 DEF Clear
  <2>4. \A x \in Nat : Bit(x, c) \in {0, 1}
    BY <2>1, BitIsBit
  <2>5. ASSUME NEW M \in 0..(P - 1), NEW a \in Nat
        PROVE  \E t \in a..(a + M) : Clear(n, M, t)
    <3>1. PICK t \in a..(a + M) : Clear(c, M, t)
      BY <2>2
    <3>2. Bit(M, c) = 0
      <4>1. M = 0 * P + M /\ M \div P = 0
        BY <2>1, NoCarry
      <4>. QED
        BY <4>1 DEF Bit
    <3>3. t \in Nat
      BY <2>1
    <3>4. Bit(t, c) * Bit(M, c) = 0
      BY <2>4, <3>2, <3>3
    <3>. QED
      BY <2>3, <3>1, <3>4
  <2>6. ASSUME NEW M \in P..(2 * P - 1), NEW a \in Nat
        PROVE  \E t \in a..(a + M) : Clear(n, M, t)
    <3>. DEFINE low == M - P
                q == a \div P
                r == a % P
    <3>1. low \in 0..(P - 1) /\ M = low + 1 * P /\ low \in Nat
      BY <2>1
    <3>2. q \in Nat /\ r \in 0..(P - 1) /\ a = q * P + r
      BY <2>1, DivisionIs
    <3>3. \A b \in 0..(c - 1) : Bit(M, b) = Bit(low, b)
      BY <2>1, <3>1, LowBits
    <3>. HIDE DEF low, q, r
    <3>4. ASSUME NEW k \in Nat, k % 2 = 0, k * P \in a..(a + M)
          PROVE  \E t \in a..(a + M) : Clear(n, M, t)
      <4>1. Bit(k * P, c) = 0
        <5>1. k * P + 0 = k * P /\ 0 \in 0..(P - 1)
          BY <2>1
        <5>2. (k * P) \div P = k
          BY <2>1, <5>1, NoCarry
        <5>. QED
          BY <3>4, <5>2 DEF Bit
      <4>2. ASSUME NEW b \in 0..(c - 1) PROVE Bit(k * P, b) = 0
        <5>1. Bit(0 + k * P, b) = Bit(0, b)
          BY <2>1, LowBits
        <5>2. 0 + k * P = k * P
          BY <2>1
        <5>3. b \in 0..TickBits
          BY <2>1
        <5>4. PowerOfTwo[b] \in Nat \ {0}
          BY <5>3, Powers
        <5>5. Bit(0, b) = 0
          <6>. DEFINE w == PowerOfTwo[b]
          <6>1. 0 = 0 * w + 0 /\ 0 \in 0..(w - 1)
            BY <5>4
          <6>2. 0 \div w = 0
            BY <5>4, <6>1, NoCarry
          <6>. QED
            BY <6>2 DEF Bit
        <5>. QED
          BY <5>1, <5>2, <5>5
      <4>3. M \in Nat /\ k * P \in Nat
        BY <2>1
      <4>4. \A b \in 0..c : Bit(M, b) \in Int
        <5>. SUFFICES ASSUME NEW b \in 0..c PROVE Bit(M, b) \in Int
          OBVIOUS
        <5>1. b \in 0..TickBits
          BY <2>1
        <5>. QED
          BY <4>3, <5>1, BitIsBit
      <4>5. Clear(c, M, k * P) /\ Bit(k * P, c) * Bit(M, c) = 0
        <5>1. \A b \in 0..(c - 1) : b \in 0..c
          BY <2>1
        <5>2. c \in 0..c
          BY <2>1
        <5>. QED
          BY <4>1, <4>2, <4>4, <5>1, <5>2 DEF Clear
      <4>. QED
        BY <2>3, <3>4, <4>5
    <3>5. CASE q % 2 # 0
      <4>1. (q + 1) % 2 = 0 /\ q + 1 \in Nat
        BY <3>2, <3>5
      <4>2. (q + 1) * P = q * P + P /\ q * P \in Nat
        BY <2>1, <3>2
      <4>3. (q + 1) * P \in a..(a + M)
        BY <2>1, <3>1, <3>2, <4>2
      <4>. QED
        BY <3>4, <4>1, <4>3
    <3>6. CASE q % 2 = 0 /\ r + low >= P
      <4>1. (q + 2) % 2 = 0 /\ q + 2 \in Nat
        BY <3>2, <3>6
      <4>2. (q + 2) * P = q * P + 2 * P /\ q * P \in Nat
        BY <2>1, <3>2
      <4>3. (q + 2) * P \in a..(a + M)
        BY <2>1, <3>1, <3>2, <3>6, <4>2
      <4>. QED
        BY <3>4, <4>1, <4>3
    <3>7. CASE q % 2 = 0 /\ r + low < P
      <4>1. PICK t \in a..(a + low) : Clear(c, low, t)
        BY <2>2, <3>1
      <4>2. t \in a..(a + M) /\ t \in Nat
        BY <2>1, <3>1
      <4>3. Bit(t, c) = 0
        <5>. DEFINE s == t - q * P
        <5>1. q * P \in Nat
          BY <2>1, <3>2
        <5>2. s \in 0..(P - 1) /\ t = q * P + s
          BY <2>1, <3>1, <3>2, <3>7, <5>1
        <5>. HIDE DEF s
        <5>3. t \div P = q
          BY <2>1, <3>2, <5>2, NoCarry
        <5>. QED
          BY <3>7, <5>3 DEF Bit
      <4>4. Clear(c, M, t)
        BY <3>3, <4>1 DEF Clear
      <4>5. Bit(t, c) * Bit(M, c) = 0
        <5>1. M \in Nat
          BY <2>1
        <5>. QED
          BY <2>4, <4>3, <5>1
      <4>. QED
        BY <2>3, <4>2, <4>4, <4>5
    <3>. QED
      BY <2>1, <3>1, <3>2, <3>5, <3>6, <3>7
  <2>7. ASSUME NEW M \in 0..(PowerOfTwo[n] - 1), NEW a \in Nat
        PROVE  \E t \in a..(a + M) : Clear(n, M, t)
    <3>1. M \in 0..(P - 1) \/ M \in P..(2 * P - 1)
      BY <2>1
    <3>. QED
      BY <2>5, <2>6, <3>1
  <2>. QED
    BY <2>1, <2>7
<1>3. \A n \in 0..TickBits : n \in S
  <2>1. TickBits \in Nat
    BY TickAssumption
  <2>. HIDE DEF S
  <2>. QED
    BY <1>1, <1>2, <2>1, OneAfterTheOther
<1>. QED
  BY <1>3

(* Since the last rescheduling no tick was clear of the mask.              *)
SliceInv ==
  /\ slice \in Nat /\ Ticks \in Nat /\ slice <= Ticks
  /\ \A t \in (Ticks - slice + 1)..Ticks : ~Reschedules(t)

LEMMA InitSlice == Init => SliceInv
<1>. SUFFICES ASSUME Init PROVE SliceInv
  OBVIOUS
<1>1. slice = 0 /\ Ticks = 0
  BY WordIsPositive DEF Init, Ticks
<1>. QED
  BY <1>1 DEF SliceInv

LEMMA StepSlice == WaitInv /\ SliceInv /\ [Next]_vars => SliceInv'
<1>. SUFFICES ASSUME WaitInv, SliceInv, [Next]_vars PROVE SliceInv'
  OBVIOUS
<1>1. CASE timer_interrupt_handler
  <2>1. Word \in Nat \ {0} /\ hi \in Nat /\ lo \in 0..(Word - 1) /\ hi * Word \in Nat
    <3>1. Word \in Nat \ {0} /\ hi \in Nat /\ lo \in 0..(Word - 1)
      BY WordIsPositive DEF WaitInv, Kinds
    <3>. HIDE DEF Word
    <3>. QED
      BY <3>1
  <2>2. Ticks \in Nat /\ Ticks' = Ticks + 1
    <3>1. Word' = Word
      BY DEF Word
    <3>2. CASE lo' = lo + 1 /\ hi' = hi
      <4>. HIDE DEF Word
      <4>. QED
        BY <2>1, <3>1, <3>2 DEF Ticks
    <3>3. CASE lo' = 0 /\ hi' = hi + 1 /\ lo = Word - 1
      <4>. HIDE DEF Word
      <4>1. (hi + 1) * Word = hi * Word + Word
        BY <2>1
      <4>. QED
        BY <2>1, <3>1, <3>3, <4>1 DEF Ticks
    <3>. QED
      BY <1>1, <3>2, <3>3, OneTickMore DEF WaitInv
  <2>3. slice' = IF Reschedules(Ticks + 1) THEN 0 ELSE slice + 1
    BY <1>1 DEF timer_interrupt_handler
  <2>4. /\ slice \in Nat /\ slice <= Ticks
        /\ \A t \in (Ticks - slice + 1)..Ticks : ~Reschedules(t)
    BY DEF SliceInv
  <2>5. CASE Reschedules(Ticks + 1)
    BY <2>2, <2>3, <2>5 DEF SliceInv
  <2>6. CASE ~Reschedules(Ticks + 1)
    <3>1. slice' = slice + 1
      BY <2>3, <2>6
    <3>2. ASSUME NEW t \in (Ticks' - slice' + 1)..Ticks' PROVE ~Reschedules(t)
      <4>1. t \in (Ticks - slice + 1)..Ticks \/ t = Ticks + 1
        BY <2>2, <2>4, <3>1
      <4>. QED
        BY <2>4, <2>6, <4>1
    <3>. QED
      BY <2>2, <2>4, <3>1, <3>2 DEF SliceInv, Reschedules, Bit
  <2>. QED
    BY <2>5, <2>6
<1>2. CASE UNCHANGED <<lo, hi, slice>>
  BY <1>2 DEF SliceInv, Ticks, Word, Reschedules, Bit
<1>. QED
  BY <1>1, <1>2 DEF Next, wait, load_start, load_loop, LoadFirst, compute_until, test_until,
                    vars, waitVars

-----------------------------------------------------------------------------
(* Theorems *)

(* The invariant of a wait in progress.                                    *)
THEOREM WaitInvariant == Spec => []WaitInv
  BY InitWait, StepWait, PTL DEF Spec

(* A wait that no carry falls into ends after the ticks it was asked for,  *)
(* whatever loads the handler separates, for every width of the words      *)
(* (timer::wait).                                                          *)
THEOREM WaitIsLongEnough == Spec => WaitsLongEnoughWithoutCarry
<1>1. ASSUME WaitInv, [Next]_vars, pc = "loop_2nd", pc' = "idle", waited <= lo
      PROVE  waited >= asked
  <2>1. ~(ValueRead < until)
    BY <1>1 DEF Next, timer_interrupt_handler, wait, load_start, compute_until, load_loop,
                LoadFirst, test_until, vars, waitVars
  <2>2. /\ until >= Ticks - waited + asked
        /\ until \in Nat /\ waited \in Nat /\ asked \in Nat
    BY <1>1 DEF WaitInv, SinceCall, Kinds
  <2>3. ValueRead \in Nat /\ Ticks \in Nat /\ ValueRead <= Ticks
    BY <1>1, ValueReadSinceCall
  <2>. QED
    BY <2>1, <2>2, <2>3
<1>2. WaitInv /\ [Next]_vars =>
        [pc = "loop_2nd" /\ pc' = "idle" /\ waited <= lo => waited >= asked]_vars
  BY <1>1
<1>. QED
  BY <1>2, WaitInvariant, PTL DEF Spec, WaitsLongEnoughWithoutCarry

(* However odd the mask test is, no process runs for more ticks in a row   *)
(* than ticks_between_reschedulings() says, for every value of it          *)
(* (timer::timer_interrupt_handler).                                       *)
THEOREM QuantumIsBounded == Spec => []QuantumBounded
<1>1. SliceInv => QuantumBounded
  <2>. SUFFICES ASSUME SliceInv, ~(slice <= TicksBetweenReschedulings) PROVE FALSE
    BY DEF QuantumBounded
  <2>. DEFINE M == TicksBetweenReschedulings
              a == Ticks - slice + 1
  <2>1. /\ TickBits \in 0..TickBits /\ M \in 0..(PowerOfTwo[TickBits] - 1) /\ M \in Nat
    BY TickAssumption
  <2>2. slice \in Nat /\ slice <= Ticks /\ Ticks \in Nat
    BY DEF SliceInv
  <2>3. a \in Nat
    BY <2>2
  <2>4. PICK t \in a..(a + M) : Clear(TickBits, M, t)
    BY <2>1, <2>3, SomeTickIsClear
  <2>5. t \in a..Ticks
    BY <2>1, <2>2
  <2>6. Reschedules(t)
    BY <2>4 DEF Clear, Reschedules
  <2>. QED
    BY <2>5, <2>6 DEF SliceInv
<1>2. Init => SliceInv /\ WaitInv
  BY InitSlice, InitWait
<1>3. WaitInv /\ SliceInv /\ [Next]_vars => WaitInv' /\ SliceInv'
  BY StepSlice, StepWait
<1>. QED
  BY <1>1, <1>2, <1>3, PTL DEF Spec
=============================================================================
