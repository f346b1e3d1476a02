---------------------------- MODULE CallStackProofs ----------------------------
(***************************************************************************)
(* CallStack, proved for any set of frames: the stack is the chain of      *)
(* awaits, a caller goes on after its callee, each frame is destroyed      *)
(* once, whatever ends the task, and none is used after that.              *)
(***************************************************************************)
EXTENDS CallStack, TLAPS, SequenceTheorems, WellFoundedInduction

\* The coroutine object that the innermost frame owns: a callee that has just been
\* popped, or NoFrame.
Extra == IF stack = <<>> THEN NoFrame ELSE awaiting[Last(stack)]

\* The stack has no repetition, begins with the entry and follows the awaits.
ChainInv ==
  /\ \A i, j \in 1..Len(stack) : stack[i] = stack[j] => i = j
  /\ stack # <<>> => stack[1] = Entry
  /\ \A i \in 1..(Len(stack) - 1) : awaiting[stack[i]] = stack[i + 1]

\* The frames that exist are those of the stack and the object the innermost owns;
\* the entry outlives the stack until its task is freed.
LiveInv ==
  /\ \A f \in Frame :
       freed[f] <= 1 /\ (status[f] = "none" => freed[f] = 0 /\ awaiting[f] = NoFrame /\ f \notin error)
  /\ \A i \in 1..Len(stack) : status[stack[i]] # "none" /\ freed[stack[i]] = 0
  /\ \A f \in Frame :
       status[f] # "none" /\ freed[f] = 0 =>
         \/ \E i \in 1..Len(stack) : stack[i] = f
         \/ f = Extra
         \/ stack = <<>> /\ f = Entry /\ pc \in {"idle", "thrown"}
  /\ Extra # NoFrame =>
       /\ \A i \in 1..Len(stack) : stack[i] # Extra
       /\ status[Extra] # "none"
       /\ freed[Extra] = 0 => awaiting[Extra] = NoFrame
       /\ pc # "destroy" => freed[Extra] = 0
  /\ stack = <<>> /\ pc \in {"idle", "thrown"} =>
       awaiting[Entry] = NoFrame /\ freed[Entry] = 0 /\ status[Entry] # "none"

\* The handles that some coroutine object holds are those of the frames that exist.
HandlerInv == \A f \in Frame : f \in handler <=> Alive(f)

\* What the locals of _call_stack_execute say about the stack.
PcInv ==
  /\ pc = "idle" => (stack = <<>> <=> status[Entry] = "done")
  /\ pc \in {"loop", "destroy"} => stack # <<>> /\ next = Last(stack)
  /\ pc \in {"body", "raise", "after"} => stack # <<>> /\ Extra = NoFrame
  /\ pc \in {"body", "raise"} => cur = Last(stack)
  /\ pc = "after" => \/ cur = Last(stack)
                     \/ Len(stack) >= 2 /\ cur = stack[Len(stack) - 1] /\ status[cur] = "await"
  /\ pc \in {"end", "thrown", "destroyed"} => stack = <<>>
  /\ \A i \in 1..Len(stack) :
       status[stack[i]] = "done" => pc = "after" /\ cur = stack[i] /\ i = Len(stack)

\* Without a catch, only the innermost frame has an error, and it ends by it.
CatchInv ==
  ~caught =>
    /\ \A i \in 1..Len(stack) : stack[i] \in error =>
         /\ i = Len(stack)
         /\ \/ pc \in {"loop", "raise"}
            \/ pc = "after" /\ status[stack[i]] = "done"
    /\ pc = "loop" /\ Extra # NoFrame =>
         status[Extra] = "done" /\ (Last(stack) \in error => Extra \in error)
    /\ pc = "loop" /\ Extra = NoFrame => Last(stack) \notin error
    /\ pc = "idle" => Extra = NoFrame

IInv == TypeOK /\ ChainInv /\ LiveInv /\ HandlerInv /\ PcInv /\ CatchInv
-----------------------------------------------------------------------------
(* The stack as a sequence.                                                *)

LEMMA SeqFacts ==
  ASSUME NEW s \in Seq(Frame)
  PROVE  /\ Len(s) \in Nat
         /\ s = <<>> <=> Len(s) = 0
         /\ \A i \in 1..Len(s) : s[i] \in Frame
         /\ s # <<>> => Len(s) \in 1..Len(s) /\ Last(s) = s[Len(s)] /\ Last(s) \in Frame
         /\ s = <<>> => Top(s) = NoFrame
         /\ s # <<>> => Top(s) = Last(s)
  <1>1. Len(s) \in Nat /\ (s = <<>> <=> Len(s) = 0)
    BY EmptySeq, LenProperties
  <1>2. \A i \in 1..Len(s) : s[i] \in Frame
    BY ElementOfSeq
  <1>3. s # <<>> => Len(s) \in 1..Len(s) /\ Last(s) = s[Len(s)]
    BY <1>1 DEF Last
  <1> QED
    BY <1>1, <1>2, <1>3 DEF Top

\* _call_stack_pop.
LEMMA FrontFacts ==
  ASSUME NEW s \in Seq(Frame), s # <<>>
  PROVE  /\ Front(s) \in Seq(Frame)
         /\ Len(Front(s)) = Len(s) - 1
         /\ \A i \in 1..(Len(s) - 1) : Front(s)[i] = s[i]
  <1> DEFINE n == Len(s) - 1
  <1>1. Len(s) \in Nat /\ Len(s) >= 1 /\ n \in Nat
    BY SeqFacts
  <1>2. \A i \in 1..n : s[i] \in Frame
    BY <1>1, SeqFacts
  <1>3. /\ SubSeq(s, 1, n) \in Seq(Frame)
        /\ Len(SubSeq(s, 1, n)) = IF 1 <= n THEN n - 1 + 1 ELSE 0
        /\ \A i \in 1..(n - 1 + 1) : SubSeq(s, 1, n)[i] = s[1 + i - 1]
    BY <1>1, <1>2, SubSeqProperties
  <1>4. Front(s) = SubSeq(s, 1, n)
    BY DEF Front
  <1> HIDE DEF n
  <1>5. Len(Front(s)) = n
    BY <1>1, <1>3, <1>4
  <1>6. \A i \in 1..n : Front(s)[i] = s[i]
    BY <1>1, <1>3, <1>4
  <1> QED
    BY <1>3, <1>4, <1>5, <1>6 DEF n

\* _call_stack_push.
LEMMA PushFacts ==
  ASSUME NEW s \in Seq(Frame), NEW f \in Frame
  PROVE  /\ Append(s, f) \in Seq(Frame)
         /\ Len(Append(s, f)) = Len(s) + 1
         /\ \A i \in 1..Len(s) : Append(s, f)[i] = s[i]
         /\ Append(s, f)[Len(s) + 1] = f
  BY AppendProperties

-----------------------------------------------------------------------------
(* Ownership.                                                              *)

\* A frame that owns nothing goes alone.
LEMMA OwnedAlone ==
  ASSUME NEW f \in Frame, \A y \in Frame : ~Owns(f, y)
  PROVE  Owned(f) = {f}
  <1>1. f \in Owned(f)
    BY DEF Owned
  <1>2. ASSUME NEW g \in Owned(f) PROVE g = f
    <2>1. {f} \in SUBSET Frame /\ \A x \in {f}, y \in Frame : Owns(x, y) => y \in {f}
      OBVIOUS
    <2> QED
      BY <1>2, <2>1 DEF Owned
  <1> QED
    BY <1>1, <1>2

\* A frame whose object owns nothing goes with that object.
LEMMA OwnedPair ==
  ASSUME NEW f \in Frame, NEW g \in Frame, Owns(f, g), \A y \in Frame : ~Owns(g, y)
  PROVE  Owned(f) = {f, g}
  <1>0. \A y \in Frame : Owns(f, y) => y = g
    BY DEF Owns
  <1>1. f \in Owned(f) /\ g \in Owned(f)
    BY DEF Owned
  <1>2. ASSUME NEW h \in Owned(f) PROVE h \in {f, g}
    <2>1. {f, g} \in SUBSET Frame /\ \A x \in {f, g}, y \in Frame : Owns(x, y) => y \in {f, g}
      BY <1>0
    <2> QED
      BY <1>2, <2>1 DEF Owned
  <1> QED
    BY <1>1, <1>2

-----------------------------------------------------------------------------
(* Init and the steps.                                                     *)

LEMMA InitHolds == Init => IInv
  <1> SUFFICES ASSUME Init PROVE IInv
    OBVIOUS
  <1> USE CallStackAssumption
  <1>1. stack \in Seq(Frame) /\ Len(stack) = 1 /\ stack[1] = Entry /\ stack # <<>>
    BY DEF Init
  <1>2. TypeOK
    BY <1>1 DEF Init, TypeOK
  <1>3. Extra = NoFrame /\ Last(stack) = Entry
    BY <1>1 DEF Init, Extra, Last
  <1>4. ChainInv /\ PcInv /\ CatchInv
    BY <1>1, <1>3 DEF Init, ChainInv, PcInv, CatchInv
  <1>5. LiveInv /\ HandlerInv
    BY <1>1, <1>3 DEF Init, LiveInv, HandlerInv, Alive
  <1> QED
    BY <1>2, <1>4, <1>5 DEF IInv

\* Steps that destroy no frame and create none.
LEMMA HandlerKept ==
  ASSUME HandlerInv, UNCHANGED <<handler, freed>>, \A f \in Frame : status'[f] = "none" <=> status[f] = "none"
  PROVE  HandlerInv'
  BY DEF HandlerInv, Alive

LEMMA ResumeKeeps == IInv /\ Resume => IInv'
  <1> SUFFICES ASSUME IInv, Resume PROVE IInv'
    OBVIOUS
  <1> USE CallStackAssumption
  <1>1. stack # <<>> /\ next' = Last(stack) /\ Last(stack) \in Frame
    BY SeqFacts DEF IInv, TypeOK, PcInv, Resume
  <1>2. TypeOK'
    BY <1>1 DEF IInv, TypeOK, Resume
  <1>3. Extra' = Extra
    BY DEF Extra, Resume
  <1>4. ChainInv' /\ LiveInv' /\ HandlerInv'
    BY <1>1, <1>3, HandlerKept DEF IInv, ChainInv, LiveInv, Resume
  <1>5. PcInv' /\ CatchInv'
    BY <1>1, <1>3, SeqFacts DEF IInv, TypeOK, PcInv, CatchInv, Resume
  <1> QED
    BY <1>2, <1>4, <1>5 DEF IInv

LEMMA ResumeFrameKeeps == IInv /\ ResumeFrame => IInv'
  <1> SUFFICES ASSUME IInv, ResumeFrame PROVE IInv'
    OBVIOUS
  <1> USE CallStackAssumption
  <1>1. stack # <<>> /\ next = Last(stack) /\ next \in Frame /\ next = stack[Len(stack)]
        /\ Len(stack) \in 1..Len(stack) /\ stack' = stack /\ Len(stack) \in Nat
        /\ \A i \in 1..Len(stack) : stack[i] \in Frame
    BY SeqFacts DEF IInv, TypeOK, PcInv, ResumeFrame
  <1>2. awaiting[next] = Extra
    BY <1>1 DEF Extra
  <1>3. awaiting' = [awaiting EXCEPT ![next] = NoFrame]
    BY <1>1 DEF IInv, TypeOK, ResumeFrame
  <1>4. Extra' = NoFrame
    <2>1. awaiting'[next] = NoFrame
      BY <1>1, <1>3 DEF IInv, TypeOK
    <2>2. Last(stack') = next
      BY <1>1
    <2> QED
      BY <2>1, <2>2 DEF Extra
  <1>5. /\ freed' = [f \in Frame |-> IF f = Extra THEN freed[f] + 1 ELSE freed[f]]
        /\ handler' = handler \ {Extra}
    <2>1. CASE Extra = NoFrame
      BY <1>2, <2>1 DEF IInv, TypeOK, ResumeFrame
    <2>2. CASE Extra # NoFrame
      <3>1. Extra \in Frame
        BY <1>1, <1>2, <2>2 DEF IInv, TypeOK
      <3>2. awaiting[Extra] = NoFrame
        BY <2>2 DEF IInv, LiveInv, ResumeFrame
      <3>3. Owned(Extra) = {Extra}
        BY <3>1, <3>2, OwnedAlone DEF Owns
      <3>4. Extra \in handler
        BY <2>2, <3>1 DEF IInv, LiveInv, HandlerInv, Alive, ResumeFrame
      <3> QED
        BY <1>2, <2>2, <3>3, <3>4 DEF ResumeFrame, DestroyObject, Free
    <2> QED
      BY <2>1, <2>2
  <1>6. status' = [status EXCEPT ![next] = "run"] /\ pc' \in {"body", "raise"} /\ cur' = next
        /\ error' = error /\ caught' = caught /\ next' = next /\ pc = "loop"
    BY DEF ResumeFrame
  <1>7. TypeOK'
    BY <1>1, <1>3, <1>5, <1>6 DEF IInv, TypeOK
  <1>8. ChainInv'
    BY <1>1, <1>3 DEF IInv, ChainInv, TypeOK
  <1>9. LiveInv'
    BY <1>1, <1>2, <1>3, <1>4, <1>5, <1>6 DEF IInv, ChainInv, LiveInv, TypeOK
  <1>12. HandlerInv'
    <2>1. status[next] # "none" /\ next # Extra
      BY <1>1, <1>2 DEF IInv, LiveInv
    <2> QED
      BY <1>1, <1>5, <1>6, <2>1 DEF IInv, HandlerInv, LiveInv, Alive, TypeOK
  <1>10. PcInv'
    BY <1>1, <1>4, <1>6 DEF IInv, ChainInv, PcInv, TypeOK
  <1>11. CatchInv'
    <2>1. Extra \in error => pc' = "raise"
      BY <1>1, <1>2 DEF ResumeFrame, IInv, TypeOK
    <2> QED
      BY <1>1, <1>2, <1>4, <1>6, <2>1 DEF IInv, PcInv, CatchInv, TypeOK
  <1> QED
    BY <1>7, <1>8, <1>9, <1>10, <1>11, <1>12 DEF IInv

\* What every step may use of the stack before it.
LEMMA Here ==
  ASSUME IInv
  PROVE  /\ stack \in Seq(Frame) /\ Len(stack) \in Nat
         /\ stack = <<>> <=> Len(stack) = 0
         /\ \A i \in 1..Len(stack) : stack[i] \in Frame
         /\ stack # <<>> => /\ Len(stack) \in 1..Len(stack)
                            /\ Last(stack) = stack[Len(stack)]
                            /\ Last(stack) \in Frame
                            /\ Extra = awaiting[Last(stack)]
                            /\ Top(stack) = Last(stack)
  BY SeqFacts DEF IInv, TypeOK, Extra

\* Popping the innermost frame leaves its caller as the owner of it.
LEMMA PopFacts ==
  ASSUME IInv, stack # <<>>, stack' = Front(stack), awaiting' = awaiting
  PROVE  /\ stack' \in Seq(Frame)
         /\ Len(stack') = Len(stack) - 1
         /\ \A i \in 1..(Len(stack) - 1) : stack'[i] = stack[i]
         /\ stack' = <<>> <=> Len(stack) = 1
         /\ stack' = <<>> => Top(stack') = NoFrame /\ Extra' = NoFrame /\ Last(stack) = Entry
         /\ stack' # <<>> => /\ Len(stack) - 1 \in 1..(Len(stack) - 1)
                             /\ Top(stack') = stack[Len(stack) - 1]
                             /\ Last(stack') = stack[Len(stack) - 1]
                             /\ Extra' = Last(stack)
         /\ ChainInv'
  <1> USE CallStackAssumption
  <1>1. /\ stack' \in Seq(Frame)
        /\ Len(stack') = Len(stack) - 1
        /\ \A i \in 1..(Len(stack) - 1) : stack'[i] = stack[i]
    BY Here, FrontFacts
  <1>2. Len(stack) \in Nat /\ Len(stack) >= 1
    BY Here
  <1>3. stack' = <<>> <=> Len(stack) = 1
    BY <1>1, <1>2, SeqFacts
  <1>4. stack' = <<>> => Top(stack') = NoFrame /\ Extra' = NoFrame /\ Last(stack) = Entry
    <2>1. stack' = <<>> => Last(stack) = Entry
      BY <1>3, Here DEF IInv, ChainInv
    <2> QED
      BY <2>1 DEF Top, Extra
  <1>5. ASSUME stack' # <<>>
        PROVE  /\ Len(stack) - 1 \in 1..(Len(stack) - 1)
               /\ Top(stack') = stack[Len(stack) - 1]
               /\ Last(stack') = stack[Len(stack) - 1]
    BY <1>1, <1>2, <1>3, <1>5, SeqFacts
  <1>6. ASSUME stack' # <<>> PROVE Extra' = Last(stack)
    <2>1. awaiting[stack[Len(stack) - 1]] = stack[Len(stack)]
      <3>1. Len(stack) - 1 \in 1..(Len(stack) - 1) /\ (Len(stack) - 1) + 1 = Len(stack)
        BY <1>2, <1>5, <1>6
      <3> QED
        BY <3>1 DEF IInv, ChainInv
    <2> QED
      BY <1>5, <1>6, <2>1, Here DEF Extra
  <1>7. ChainInv'
    <2>1. ASSUME NEW a \in 1..Len(stack'), NEW b \in 1..Len(stack'), stack'[a] = stack'[b] PROVE a = b
      BY <1>1, <1>2, <2>1 DEF IInv, ChainInv
    <2>2. stack' # <<>> => stack'[1] = Entry
      BY <1>1, <1>2, <1>5 DEF IInv, ChainInv
    <2>3. ASSUME NEW a \in 1..(Len(stack') - 1) PROVE awaiting'[stack'[a]] = stack'[a + 1]
      <3>1. a \in 1..(Len(stack) - 1) /\ a + 1 \in 1..(Len(stack) - 1)
        BY <1>1, <1>2
      <3> QED
        BY <1>1, <3>1 DEF IInv, ChainInv
    <2> QED
      BY <2>1, <2>2, <2>3 DEF ChainInv
  <1> QED
    BY <1>1, <1>3, <1>4, <1>5, <1>6, <1>7

LEMMA PopLive ==
  ASSUME IInv, stack # <<>>, Extra = NoFrame, stack' = Front(stack),
         UNCHANGED <<status, awaiting, handler, freed>>,
         stack' = <<>> => pc' \in {"idle", "thrown"},
         \A f \in error' : f \in error \/ status[f] # "none"
  PROVE  LiveInv' /\ HandlerInv'
  <1> USE CallStackAssumption
  <1>0. HandlerInv'
    BY HandlerKept DEF IInv
  <1>1. /\ stack' \in Seq(Frame)
        /\ Len(stack') = Len(stack) - 1
        /\ \A i \in 1..(Len(stack) - 1) : stack'[i] = stack[i]
        /\ stack' = <<>> <=> Len(stack) = 1
        /\ stack' = <<>> => Top(stack') = NoFrame /\ Extra' = NoFrame /\ Last(stack) = Entry
        /\ stack' # <<>> => /\ Len(stack) - 1 \in 1..(Len(stack) - 1)
                            /\ Top(stack') = stack[Len(stack) - 1]
                            /\ Last(stack') = stack[Len(stack) - 1]
                            /\ Extra' = Last(stack)
        /\ ChainInv'
    BY PopFacts
  <1>2. \A f \in Frame :
          freed'[f] <= 1 /\ (status'[f] = "none" => freed'[f] = 0 /\ awaiting'[f] = NoFrame /\ f \notin error')
    BY DEF IInv, LiveInv
  <1>3. \A i \in 1..Len(stack') : status'[stack'[i]] # "none" /\ freed'[stack'[i]] = 0
    BY <1>1, Here DEF IInv, LiveInv
  <1>4. ASSUME NEW f \in Frame, status'[f] # "none", freed'[f] = 0
        PROVE  \/ \E i \in 1..Len(stack') : stack'[i] = f
               \/ f = Extra'
               \/ stack' = <<>> /\ f = Entry /\ pc' \in {"idle", "thrown"}
    <2>1. PICK i \in 1..Len(stack) : stack[i] = f
      BY <1>4 DEF IInv, LiveInv
    <2>2. CASE i = Len(stack)
      BY <1>1, <2>1, <2>2, Here
    <2>3. CASE i # Len(stack)
      BY <1>1, <2>1, <2>3, Here
    <2> QED
      BY <2>2, <2>3
  <1>5. awaiting[Last(stack)] = NoFrame
    BY Here
  <1> QED
    BY <1>0, <1>1, <1>2, <1>3, <1>4, <1>5, Here DEF IInv, LiveInv, ChainInv

\* The frame that returned is popped, and a stack that is not empty goes on.
LEMMA AfterDoneKeeps == IInv /\ AfterDone => IInv'
  <1> SUFFICES ASSUME IInv, AfterDone PROVE IInv'
    OBVIOUS
  <1> USE CallStackAssumption
  <1>1. stack # <<>> /\ Extra = NoFrame /\ cur = Last(stack) /\ pc = "after" /\ cur \notin error
    BY DEF AfterDone, IInv, PcInv
  <1>2. UNCHANGED <<cur, status, error, awaiting, handler, freed, caught>> /\ next' = Top(stack')
        /\ stack' = Front(stack) /\ status[cur] = "done"
    BY DEF AfterDone
  <1>3. /\ stack' \in Seq(Frame)
        /\ Len(stack') = Len(stack) - 1
        /\ \A i \in 1..(Len(stack) - 1) : stack'[i] = stack[i]
        /\ stack' = <<>> <=> Len(stack) = 1
        /\ stack' = <<>> => Top(stack') = NoFrame /\ Extra' = NoFrame /\ Last(stack) = Entry
        /\ stack' # <<>> => /\ Len(stack) - 1 \in 1..(Len(stack) - 1)
                            /\ Top(stack') = stack[Len(stack) - 1]
                            /\ Last(stack') = stack[Len(stack) - 1]
                            /\ Extra' = Last(stack)
        /\ ChainInv'
    BY <1>1, <1>2, PopFacts
  <1>4. stack' = <<>> => pc' = "idle"
    BY <1>2, <1>3 DEF AfterDone
  <1>5. stack' # <<>> => pc' = "loop" /\ next' = Last(stack') /\ next' \in Frame
    <2>1. stack' # <<>> => stack[Len(stack) - 1] # cur /\ stack[Len(stack) - 1] \in Frame
      BY <1>1, <1>3, Here DEF IInv, ChainInv
    <2> QED
      BY <1>1, <1>2, <1>3, <2>1, Here DEF AfterDone
  <1>6. TypeOK'
    BY <1>2, <1>3, <1>4, <1>5 DEF IInv, TypeOK
  <1>7. LiveInv' /\ HandlerInv'
    BY <1>1, <1>2, <1>4, <1>5, PopLive
  <1>8. PcInv'
    BY <1>1, <1>2, <1>3, <1>4, <1>5, Here DEF IInv, PcInv, ChainInv
  <1>9. CatchInv'
    BY <1>1, <1>2, <1>3, <1>4, <1>5, Here DEF IInv, CatchInv, ChainInv
  <1> QED
    BY <1>3, <1>6, <1>7, <1>8, <1>9 DEF IInv

\* The frame that failed is popped and its caller marked; or, if it caught before, the
\* callee it has just pushed.
LEMMA AfterErrorKeeps == IInv /\ AfterError => IInv'
  <1> SUFFICES ASSUME IInv, AfterError PROVE IInv'
    OBVIOUS
  <1> USE CallStackAssumption
  <1>1. stack # <<>> /\ Extra = NoFrame /\ pc = "after" /\ cur \in error /\ cur \in Frame
    BY DEF AfterError, IInv, PcInv, TypeOK
  <1>2. UNCHANGED <<cur, status, awaiting, handler, freed, caught>> /\ next' = Top(stack')
        /\ stack' = Front(stack)
        /\ error' = IF next' = NoFrame THEN error ELSE error \cup {next'}
    BY DEF AfterError
  <1>3. /\ stack' \in Seq(Frame)
        /\ Len(stack') = Len(stack) - 1
        /\ \A i \in 1..(Len(stack) - 1) : stack'[i] = stack[i]
        /\ stack' = <<>> <=> Len(stack) = 1
        /\ stack' = <<>> => Top(stack') = NoFrame /\ Extra' = NoFrame /\ Last(stack) = Entry
        /\ stack' # <<>> => /\ Len(stack) - 1 \in 1..(Len(stack) - 1)
                            /\ Top(stack') = stack[Len(stack) - 1]
                            /\ Last(stack') = stack[Len(stack) - 1]
                            /\ Extra' = Last(stack)
        /\ ChainInv'
    BY <1>1, <1>2, PopFacts
  <1>4. stack' = <<>> => pc' = "thrown" /\ next' = NoFrame /\ error' = error
    BY <1>2, <1>3 DEF AfterError
  <1>5. stack' # <<>> => /\ next' = Last(stack') /\ next' \in Frame /\ error' = error \cup {next'}
                         /\ pc' = IF next' = cur THEN "idle" ELSE "loop"
    <2>1. stack' # <<>> => stack[Len(stack) - 1] \in Frame
      BY <1>3, Here
    <2> QED
      BY <1>2, <1>3, <2>1 DEF AfterError
  <1>6. \/ cur = Last(stack)
        \/ Len(stack) >= 2 /\ cur = stack[Len(stack) - 1] /\ status[cur] = "await"
    BY <1>1 DEF IInv, PcInv
  <1>7. TypeOK'
    BY <1>2, <1>3, <1>4, <1>5 DEF IInv, TypeOK
  <1>8. LiveInv' /\ HandlerInv'
    <2>1. \A f \in error' : f \in error \/ status[f] # "none"
      BY <1>3, <1>4, <1>5, Here DEF IInv, LiveInv
    <2> QED
      BY <1>1, <1>2, <1>4, <2>1, PopLive
  <1>9. CASE cur = Last(stack)
    <2>1. stack' # <<>> => next' # cur
      BY <1>3, <1>5, <1>9, Here DEF IInv, ChainInv
    <2>2. PcInv'
      BY <1>1, <1>2, <1>3, <1>4, <1>5, <1>9, <2>1, Here DEF IInv, PcInv, ChainInv
    <2>3. CatchInv'
      <3>1. ~caught => status[cur] = "done"
        BY <1>1, <1>9, Here DEF IInv, CatchInv
      <3>2. ~caught => \A i \in 1..(Len(stack) - 1) : stack[i] \notin error
        BY <1>1, Here DEF IInv, CatchInv
      <3>3. ~caught => \A i \in 1..Len(stack') : stack'[i] \in error' => i = Len(stack') /\ pc' = "loop"
        BY <1>3, <1>4, <1>5, <2>1, <3>2, Here DEF IInv, ChainInv
      <3> QED
        BY <1>1, <1>2, <1>3, <1>4, <1>5, <1>9, <2>1, <3>1, <3>3, Here DEF CatchInv
    <2> QED
      BY <1>3, <1>7, <1>8, <2>2, <2>3 DEF IInv
  <1>10. CASE Len(stack) >= 2 /\ cur = stack[Len(stack) - 1] /\ status[cur] = "await"
    <2>1. stack' # <<>> /\ next' = cur /\ pc' = "idle"
      BY <1>3, <1>5, <1>10, Here
    <2>2. PcInv'
      <3>1. \A i \in 1..Len(stack') : status'[stack'[i]] # "done"
        BY <1>2, <1>3, <1>10, Here DEF IInv, PcInv, ChainInv
      <3>2. stack'[1] = Entry /\ 1 \in 1..Len(stack')
        BY <1>3, <2>1, Here DEF ChainInv
      <3> QED
        BY <2>1, <3>1, <3>2 DEF PcInv
    <2>3. caught
      <3>1. Len(stack) - 1 \in 1..Len(stack) /\ Len(stack) - 1 # Len(stack)
        BY <1>10, Here
      <3> QED
        BY <1>1, <1>10, <3>1 DEF IInv, CatchInv
    <2>4. CatchInv'
      BY <1>2, <2>3 DEF CatchInv
    <2> QED
      BY <1>3, <1>7, <1>8, <2>2, <2>4 DEF IInv
  <1> QED
    BY <1>6, <1>9, <1>10

LEMMA AfterSuspendKeeps == IInv /\ AfterSuspend => IInv'
  <1> SUFFICES ASSUME IInv, AfterSuspend PROVE IInv'
    OBVIOUS
  <1> USE CallStackAssumption
  <1>1. /\ stack # <<>> /\ Extra = NoFrame /\ pc = "after" /\ cur \notin error /\ status[cur] # "done"
        /\ UNCHANGED <<stack, cur, status, error, awaiting, handler, freed, caught>>
        /\ next' = Last(stack) /\ next' \in Frame
        /\ pc' = IF next' = cur THEN "idle" ELSE "loop"
    BY Here DEF AfterSuspend, IInv, PcInv
  <1>2. Extra' = NoFrame
    BY <1>1 DEF Extra
  <1>3. TypeOK' /\ ChainInv'
    BY <1>1 DEF IInv, TypeOK, ChainInv
  <1>4. LiveInv' /\ HandlerInv'
    BY <1>1, <1>2, HandlerKept DEF IInv, LiveInv
  <1>5. \A i \in 1..Len(stack) : status[stack[i]] # "done"
    BY <1>1 DEF IInv, PcInv
  <1>6. stack[1] = Entry /\ 1 \in 1..Len(stack)
    BY <1>1, Here DEF IInv, ChainInv
  <1>7. PcInv'
    BY <1>1, <1>2, <1>5, <1>6 DEF PcInv
  <1>8. ~caught => \A i \in 1..Len(stack) : stack[i] \notin error
    BY <1>1, <1>5 DEF IInv, CatchInv
  <1>9. CatchInv'
    BY <1>1, <1>2, <1>8, Here DEF CatchInv
  <1> QED
    BY <1>3, <1>4, <1>7, <1>9 DEF IInv

\* The frame g is new: it is in no list and owned by nobody.
LEMMA AwaitKeeps == ASSUME IInv, NEW g \in Frame, Await(g) PROVE IInv'
  <1> USE CallStackAssumption
  <1>1. /\ stack # <<>> /\ Extra = NoFrame /\ pc = "body" /\ cur = Last(stack) /\ cur \in Frame
        /\ status[g] = "none" /\ freed[g] = 0 /\ awaiting[g] = NoFrame
        /\ status' = [status EXCEPT ![cur] = "await", ![g] = "start"]
        /\ awaiting' = [awaiting EXCEPT ![cur] = g]
        /\ stack' = Append(stack, g) /\ pc' = "after" /\ handler' = handler \cup {g}
        /\ UNCHANGED <<cur, next, error, freed, caught>>
    BY DEF Await, IInv, PcInv, LiveInv, TypeOK
  <1>2. \A i \in 1..Len(stack) : stack[i] # g
    BY <1>1 DEF IInv, LiveInv
  <1>3. /\ stack' \in Seq(Frame)
        /\ Len(stack') = Len(stack) + 1
        /\ \A i \in 1..Len(stack) : stack'[i] = stack[i]
        /\ stack'[Len(stack) + 1] = g
        /\ stack' # <<>> /\ Last(stack') = g /\ Len(stack) \in Nat /\ Len(stack) >= 1
    <2>1. /\ stack' \in Seq(Frame)
          /\ Len(stack') = Len(stack) + 1
          /\ \A i \in 1..Len(stack) : stack'[i] = stack[i]
          /\ stack'[Len(stack) + 1] = g
      BY <1>1, Here, PushFacts
    <2>2. Len(stack) \in Nat /\ Len(stack) >= 1
      BY <1>1, Here
    <2>3. stack' # <<>>
      BY <2>1, <2>2, SeqFacts
    <2>4. Last(stack') = g
      BY <2>1 DEF Last
    <2> QED
      BY <2>1, <2>2, <2>3, <2>4
  <1>4. g # cur /\ cur = stack[Len(stack)]
    BY <1>1, <1>2, Here
  <1>5. Extra' = NoFrame
    BY <1>1, <1>3, <1>4 DEF Extra, IInv, TypeOK
  <1>6. TypeOK'
    BY <1>1, <1>3 DEF IInv, TypeOK
  <1>7. ChainInv'
    <2>1. \A i, j \in 1..Len(stack') : stack'[i] = stack'[j] => i = j
      BY <1>2, <1>3 DEF IInv, ChainInv
    <2>2. stack'[1] = Entry
      BY <1>1, <1>3 DEF IInv, ChainInv
    <2>3. ASSUME NEW i \in 1..(Len(stack') - 1) PROVE awaiting'[stack'[i]] = stack'[i + 1]
      <3>1. CASE i = Len(stack)
        BY <1>1, <1>3, <1>4, <3>1 DEF IInv, TypeOK
      <3>2. CASE i # Len(stack)
        <4>1. i \in 1..(Len(stack) - 1) /\ i + 1 \in 1..Len(stack) /\ i \in 1..Len(stack)
          BY <1>3, <3>2
        <4>2. stack[i] # cur /\ stack[i] \in Frame
          BY <1>3, <1>4, <3>2, <4>1, Here DEF IInv, ChainInv
        <4> QED
          BY <1>1, <1>3, <4>1, <4>2 DEF IInv, TypeOK, ChainInv
      <3> QED
        BY <3>1, <3>2
    <2> QED
      BY <2>1, <2>2, <2>3 DEF ChainInv
  <1>8. LiveInv'
    <2>1. \A f \in Frame :
          freed'[f] <= 1 /\ (status'[f] = "none" => freed'[f] = 0 /\ awaiting'[f] = NoFrame /\ f \notin error')
      BY <1>1 DEF IInv, LiveInv, TypeOK
    <2>2. \A i \in 1..Len(stack') : status'[stack'[i]] # "none" /\ freed'[stack'[i]] = 0
      BY <1>1, <1>3, Here DEF IInv, LiveInv, TypeOK
    <2>3. ASSUME NEW f \in Frame, status'[f] # "none", freed'[f] = 0
          PROVE  \E i \in 1..Len(stack') : stack'[i] = f
      <3>1. CASE f = g
        BY <1>3, <3>1
      <3>2. CASE f # g
        <4>1. status[f] # "none"
          BY <1>1, <1>4, <2>3, <3>2, Here DEF IInv, LiveInv, TypeOK
        <4>2. PICK i \in 1..Len(stack) : stack[i] = f
          BY <1>1, <2>3, <4>1 DEF IInv, LiveInv
        <4> QED
          BY <1>3, <4>2
      <3> QED
        BY <3>1, <3>2
    <2> QED
      BY <1>3, <1>5, <2>1, <2>2, <2>3 DEF LiveInv
  <1>9. PcInv'
    <2>1. \A i \in 1..Len(stack') : status'[stack'[i]] # "done"
      BY <1>1, <1>3, Here DEF IInv, PcInv, TypeOK
    <2>2. Len(stack') >= 2 /\ cur' = stack'[Len(stack') - 1] /\ status'[cur'] = "await"
      BY <1>1, <1>3, <1>4 DEF IInv, TypeOK
    <2> QED
      BY <1>1, <1>3, <1>5, <2>1, <2>2 DEF PcInv
  <1>10. CatchInv'
    <2>1. ~caught => \A i \in 1..Len(stack) : stack[i] \notin error
      BY <1>1 DEF IInv, CatchInv
    <2>2. g \notin error
      BY <1>1 DEF IInv, LiveInv
    <2> QED
      BY <1>1, <1>3, <1>5, <2>1, <2>2 DEF CatchInv
  <1>11. HandlerInv'
    <2>1. status[cur] # "none"
      BY <1>1, Here DEF IInv, LiveInv
    <2> QED
      BY <1>1, <1>4, <2>1 DEF IInv, HandlerInv, Alive, TypeOK
  <1> QED
    BY <1>6, <1>7, <1>8, <1>9, <1>10, <1>11 DEF IInv

\* The steps of a body that keep the stack and what is owned.
LEMMA BodyKeeps ==
  ASSUME IInv, pc \in {"body", "raise"}, UNCHANGED <<stack, cur, next, awaiting, handler, freed>>,
         NEW v \in {"suspend", "done"}, status' = [status EXCEPT ![cur] = v], pc' = "after",
         error' \in {error, error \cup {cur}}, caught' = caught,
         pc = "raise" \/ cur \in error' => v = "done" \/ caught
  PROVE  IInv'
  <1> USE CallStackAssumption
  <1>1. /\ stack # <<>> /\ Extra = NoFrame /\ cur = Last(stack) /\ cur \in Frame
        /\ cur = stack[Len(stack)] /\ Len(stack) \in 1..Len(stack)
    BY Here DEF IInv, PcInv
  <1>2. Extra' = NoFrame
    BY <1>1 DEF Extra
  <1>3. TypeOK' /\ ChainInv'
    BY <1>1 DEF IInv, TypeOK, ChainInv
  <1>4. status[cur] # "none"
    BY <1>1 DEF IInv, LiveInv
  <1>5. LiveInv'
    BY <1>1, <1>2, <1>4, Here DEF IInv, LiveInv, TypeOK
  <1>6. PcInv'
    <2>1. ASSUME NEW i \in 1..Len(stack), status'[stack[i]] = "done"
          PROVE  cur = stack[i] /\ i = Len(stack)
      <3>1. stack[i] \in Frame
        BY Here
      <3>2. status[stack[i]] # "done"
        BY DEF IInv, PcInv
      <3>3. stack[i] = cur
        BY <1>1, <2>1, <3>1, <3>2 DEF IInv, TypeOK
      <3> QED
        BY <1>1, <3>3 DEF IInv, ChainInv
    <2> QED
      BY <1>1, <1>2, <2>1 DEF PcInv
  <1>7. CatchInv'
    BY <1>1, <1>2, Here DEF IInv, CatchInv, TypeOK, ChainInv
  <1>8. HandlerInv'
    BY <1>1, <1>4, HandlerKept DEF IInv, TypeOK
  <1> QED
    BY <1>3, <1>5, <1>6, <1>7, <1>8 DEF IInv

LEMMA BodyStepsKeep == IInv /\ (Suspend \/ Return \/ Throw) => IInv'
  <1> SUFFICES ASSUME IInv, Suspend \/ Return \/ Throw PROVE IInv'
    OBVIOUS
  <1>0. ASSUME pc = "body", ~caught PROVE cur \notin error
    BY <1>0, Here DEF IInv, PcInv, CatchInv
  <1>1. CASE Suspend
    BY <1>0, <1>1, BodyKeeps DEF Suspend
  <1>2. CASE Return
    BY <1>2, BodyKeeps DEF Return
  <1>3. CASE Throw
    BY <1>3, BodyKeeps DEF Throw
  <1> QED
    BY <1>1, <1>2, <1>3

LEMMA CatchKeeps == IInv /\ Catch => IInv'
  <1> SUFFICES ASSUME IInv, Catch PROVE IInv'
    OBVIOUS
  <1>1. Extra' = Extra
    BY DEF Extra, Catch
  <1>2. TypeOK' /\ ChainInv'
    BY DEF IInv, TypeOK, ChainInv, Catch
  <1>3. LiveInv' /\ HandlerInv'
    BY <1>1, HandlerKept DEF IInv, LiveInv, PcInv, Catch
  <1>4. PcInv' /\ CatchInv'
    BY <1>1 DEF IInv, PcInv, CatchInv, Catch
  <1> QED
    BY <1>2, <1>3, <1>4 DEF IInv

LEMMA DestroyKeeps == IInv /\ Destroy => IInv'
  <1> SUFFICES ASSUME IInv, Destroy PROVE IInv'
    OBVIOUS
  <1>1. stack # <<>> /\ next' = Last(stack) /\ Last(stack) \in Frame
    BY Here DEF IInv, PcInv, Destroy
  <1>2. Extra' = Extra
    BY DEF Extra, Destroy
  <1>3. TypeOK' /\ ChainInv'
    BY <1>1 DEF IInv, TypeOK, ChainInv, Destroy
  <1>4. LiveInv' /\ HandlerInv'
    BY <1>1, <1>2, HandlerKept DEF IInv, LiveInv, Destroy
  <1>5. PcInv' /\ CatchInv'
    BY <1>1, <1>2, Here DEF IInv, PcInv, CatchInv, Destroy
  <1> QED
    BY <1>3, <1>4, <1>5 DEF IInv

\* What a round of _call_stack_destroy frees: the innermost frame and, at the first
\* round, the object it owns.
LEMMA DestroyFrees ==
  ASSUME IInv, DestroyFrame
  PROVE  /\ freed' = [f \in Frame |-> IF f = Last(stack) \/ (f = Extra /\ freed[f] = 0)
                                      THEN freed[f] + 1 ELSE freed[f]]
         /\ handler' = handler \ {Last(stack), Extra}
  <1> USE CallStackAssumption
  <1>1. /\ stack # <<>> /\ next = Last(stack) /\ next \in Frame /\ Extra = awaiting[next]
        /\ Free(Owned(next))
    BY Here DEF IInv, PcInv, DestroyFrame
  <1>2. CASE Extra # NoFrame /\ freed[Extra] = 0
    <2>1. Extra \in Frame /\ Owns(next, Extra)
      BY <1>1, <1>2 DEF IInv, TypeOK, LiveInv, HandlerInv, Alive, Owns
    <2>2. awaiting[Extra] = NoFrame
      BY <1>2 DEF IInv, LiveInv
    <2>3. Owned(next) = {next, Extra}
      BY <1>1, <2>1, <2>2, OwnedPair DEF Owns
    <2> QED
      BY <1>1, <1>2, <2>1, <2>3 DEF Free
  <1>3. CASE Extra = NoFrame \/ freed[Extra] # 0
    <2>0. Extra \notin handler
      BY <1>3 DEF IInv, TypeOK, HandlerInv, Alive
    <2>1. Owned(next) = {next}
      BY <1>1, <2>0, OwnedAlone DEF Owns
    <2> QED
      BY <1>1, <1>3, <2>0, <2>1 DEF Free
  <1> QED
    BY <1>2, <1>3

LEMMA DestroyFrameKeeps == IInv /\ DestroyFrame => IInv'
  <1> SUFFICES ASSUME IInv, DestroyFrame PROVE IInv'
    OBVIOUS
  <1> USE CallStackAssumption
  <1>1. /\ stack # <<>> /\ next = Last(stack) /\ pc = "destroy"
        /\ stack' = Front(stack) /\ next' = Top(stack')
        /\ pc' = IF next' = NoFrame THEN "destroyed" ELSE "destroy"
        /\ UNCHANGED <<cur, status, error, awaiting, caught>>
    BY DEF IInv, PcInv, DestroyFrame
  <1>2. freed' = [f \in Frame |-> IF f = Last(stack) \/ (f = Extra /\ freed[f] = 0)
                                  THEN freed[f] + 1 ELSE freed[f]]
        /\ handler' = handler \ {Last(stack), Extra}
    BY DestroyFrees
  <1>3. /\ stack' \in Seq(Frame)
        /\ Len(stack') = Len(stack) - 1
        /\ \A i \in 1..(Len(stack) - 1) : stack'[i] = stack[i]
        /\ stack' = <<>> <=> Len(stack) = 1
        /\ stack' = <<>> => Top(stack') = NoFrame /\ Extra' = NoFrame /\ Last(stack) = Entry
        /\ stack' # <<>> => /\ Len(stack) - 1 \in 1..(Len(stack) - 1)
                            /\ Top(stack') = stack[Len(stack) - 1]
                            /\ Last(stack') = stack[Len(stack) - 1]
                            /\ Extra' = Last(stack)
        /\ ChainInv'
    BY <1>1, PopFacts
  <1>4. stack' = <<>> => pc' = "destroyed" /\ next' = NoFrame
    BY <1>1, <1>3
  <1>5. stack' # <<>> => pc' = "destroy" /\ next' = Last(stack') /\ next' \in Frame
    BY <1>1, <1>3, Here
  <1>6. TypeOK'
    BY <1>1, <1>2, <1>3, <1>4, <1>5 DEF IInv, TypeOK
  <1>7. LiveInv'
    <2>1. \A f \in Frame :
            freed'[f] <= 1 /\ (status'[f] = "none" => freed'[f] = 0 /\ awaiting'[f] = NoFrame /\ f \notin error')
      BY <1>1, <1>2, Here DEF IInv, LiveInv, TypeOK
    <2>2. ASSUME NEW i \in 1..Len(stack')
          PROVE  status'[stack'[i]] # "none" /\ freed'[stack'[i]] = 0
      <3>1. i \in 1..Len(stack) /\ i # Len(stack) /\ stack'[i] = stack[i] /\ stack[i] \in Frame
        BY <1>1, <1>3, Here
      <3>2. stack[i] # Last(stack)
        BY <1>1, <3>1, Here DEF IInv, ChainInv
      <3>3. stack[i] # Extra
        BY <3>1 DEF IInv, LiveInv
      <3>4. status[stack[i]] # "none" /\ freed[stack[i]] = 0
        BY <3>1 DEF IInv, LiveInv
      <3> QED
        BY <1>1, <1>2, <3>1, <3>2, <3>3, <3>4
    <2>3. ASSUME NEW f \in Frame, status'[f] # "none", freed'[f] = 0
          PROVE  \E i \in 1..Len(stack') : stack'[i] = f
      <3>1. f # Last(stack) /\ f # Extra /\ freed[f] = 0
        BY <1>2, <2>3 DEF IInv, TypeOK
      <3>2. PICK i \in 1..Len(stack) : stack[i] = f
        BY <1>1, <2>3, <3>1 DEF IInv, LiveInv
      <3> QED
        BY <1>3, <3>1, <3>2, Here
    <2>4. stack' # <<>> => freed'[Last(stack)] # 0
      BY <1>1, <1>2, Here DEF IInv, TypeOK
    <2> QED
      BY <1>1, <1>3, <1>4, <1>5, <2>1, <2>2, <2>3, <2>4, Here DEF IInv, LiveInv, ChainInv
  <1>8. PcInv'
    BY <1>1, <1>3, <1>4, <1>5, Here DEF IInv, PcInv
  <1>9. CatchInv'
    BY <1>1, <1>3, <1>4, <1>5, Here DEF IInv, CatchInv
  <1>10. HandlerInv'
    BY <1>1, <1>2 DEF IInv, HandlerInv, LiveInv, Alive, TypeOK
  <1> QED
    BY <1>3, <1>6, <1>7, <1>8, <1>9, <1>10 DEF IInv

\* A set that holds the entry and with a frame the one it owns holds the whole stack:
\* the first frame of the stack outside of it would have a caller inside.
LEMMA StackIsOwned ==
  ASSUME IInv, NEW S \in SUBSET Frame, Entry \in S, \A x \in S, y \in Frame : Owns(x, y) => y \in S
  PROVE  \A i \in 1..Len(stack) : stack[i] \in S
  <1> DEFINE out == {i \in 1..Len(stack) : stack[i] \notin S}
  <1> SUFFICES ASSUME out # {} PROVE FALSE
    OBVIOUS
  <1>1. out \subseteq Nat
    BY Here
  <1>2. PICK m \in out : \A y \in out : ~ (<<y, m>> \in OpToRel(<, Nat))
    BY <1>1, NatLessThanWellFounded, WFMin
  <1>3. m \in 1..Len(stack) /\ stack[m] \notin S /\ Len(stack) \in Nat
    BY <1>2, Here
  <1>4. m # 1
    BY <1>3, Here DEF IInv, ChainInv
  <1>5. m - 1 \in 1..(Len(stack) - 1) /\ (m - 1) + 1 = m /\ m - 1 \in 1..Len(stack)
    BY <1>3, <1>4
  <1>6. m - 1 \notin out
    <2>1. <<m - 1, m>> \in OpToRel(<, Nat)
      BY <1>3, <1>5 DEF OpToRel
    <2> QED
      BY <1>2, <2>1
  <1>7. stack[m - 1] \in S
    BY <1>5, <1>6
  <1>8. awaiting[stack[m - 1]] = stack[m]
    BY <1>5 DEF IInv, ChainInv
  <1>9. stack[m] \in handler /\ stack[m] \in Frame
    BY <1>3, Here DEF IInv, LiveInv, HandlerInv, Alive
  <1> QED
    BY <1>3, <1>7, <1>8, <1>9 DEF Owns

\* With the object of the entry go all frames that exist: those of the stack, each in
\* the one before, and what the innermost owns.
LEMMA EntryOwnsAll ==
  ASSUME IInv, pc = "idle", stack # <<>>
  PROVE  Owned(Entry) = {f \in Frame : Alive(f)}
  <1> USE CallStackAssumption
  <1> DEFINE all == {f \in Frame : Alive(f)}
  <1>1. Entry \in all
    BY Here DEF IInv, ChainInv, LiveInv, Alive
  <1>2. ASSUME NEW x \in all, NEW y \in Frame, Owns(x, y) PROVE y \in all
    BY <1>2 DEF IInv, HandlerInv, Owns
  <1>3. Owned(Entry) \subseteq all
    <2>1. all \in SUBSET Frame
      OBVIOUS
    <2> HIDE DEF all
    <2> QED
      BY <1>1, <1>2, <2>1 DEF Owned
  <1>4. ASSUME NEW f \in all, NEW S \in SUBSET Frame, Entry \in S,
               \A x \in S, y \in Frame : Owns(x, y) => y \in S
        PROVE  f \in S
    <2>1. \A i \in 1..Len(stack) : stack[i] \in S
      BY <1>4, StackIsOwned
    <2>2. CASE f = Extra
      <3>1. Last(stack) \in S /\ awaiting[Last(stack)] = f
        BY <2>1, <2>2, Here
      <3>2. f \in handler
        BY <1>4 DEF IInv, HandlerInv
      <3> QED
        BY <1>4, <3>1, <3>2 DEF Owns
    <2>3. CASE f # Extra
      BY <1>4, <2>1, <2>3 DEF IInv, LiveInv, Alive
    <2> QED
      BY <2>2, <2>3
  <1>5. all \subseteq Owned(Entry)
    BY <1>4 DEF Owned
  <1> QED
    BY <1>3, <1>5

\* The frames that exist, and no others, go with the task.
LEMMA EraseFrees ==
  ASSUME IInv, EraseTask
  PROVE  /\ freed' = [f \in Frame |-> IF Alive(f) THEN freed[f] + 1 ELSE freed[f]]
         /\ handler' = {}
  <1> USE CallStackAssumption
  <1>1. DestroyObject(Entry) /\ pc \in {"idle", "thrown", "destroyed"}
    BY DEF EraseTask
  <1>2. \A f \in Frame : f \in handler <=> Alive(f)
    BY DEF IInv, HandlerInv
  <1>3. handler \subseteq Frame
    BY DEF IInv, TypeOK
  <1>4. CASE stack # <<>>
    <2>1. pc = "idle"
      BY <1>1, <1>4 DEF IInv, PcInv
    <2>2. Entry \in handler
      BY <1>2, <1>4, Here DEF IInv, ChainInv, LiveInv, Alive
    <2>3. Owned(Entry) = {f \in Frame : Alive(f)}
      BY <1>4, <2>1, EntryOwnsAll
    <2> QED
      BY <1>1, <1>2, <1>3, <2>2, <2>3 DEF DestroyObject, Free
  <1>5. CASE stack = <<>> /\ pc \in {"idle", "thrown"}
    <2>1. Alive(Entry) /\ awaiting[Entry] = NoFrame
      BY <1>5 DEF IInv, LiveInv, Alive
    <2>2. \A f \in Frame : Alive(f) => f = Entry
      BY <1>5, Here DEF IInv, LiveInv, Alive, Extra
    <2>3. Owned(Entry) = {Entry} /\ Entry \in handler
      BY <1>2, <2>1, OwnedAlone DEF Owns
    <2> QED
      BY <1>1, <1>2, <1>3, <2>1, <2>2, <2>3 DEF DestroyObject, Free
  <1>6. CASE stack = <<>> /\ pc = "destroyed"
    <2>1. \A f \in Frame : ~Alive(f)
      BY <1>6, Here DEF IInv, LiveInv, Alive, Extra
    <2>2. Entry \notin handler /\ handler = {}
      BY <1>2, <1>3, <2>1
    <2> QED
      BY <1>1, <2>1, <2>2 DEF DestroyObject, Free
  <1> QED
    BY <1>1, <1>4, <1>5, <1>6

LEMMA EraseTaskKeeps == IInv /\ EraseTask => IInv'
  <1> SUFFICES ASSUME IInv, EraseTask PROVE IInv'
    OBVIOUS
  <1> USE CallStackAssumption
  <1>1. /\ stack' = <<>> /\ Len(stack') = 0 /\ pc' = "end"
        /\ UNCHANGED <<cur, next, status, error, awaiting, caught>>
        /\ freed' = [f \in Frame |-> IF Alive(f) THEN freed[f] + 1 ELSE freed[f]]
        /\ handler' = {}
    BY EraseFrees DEF EraseTask
  <1>2. Extra' = NoFrame
    BY <1>1 DEF Extra
  <1>3. TypeOK'
    BY <1>1 DEF IInv, TypeOK
  <1>4. ChainInv' /\ PcInv' /\ CatchInv'
    BY <1>1, <1>2 DEF ChainInv, PcInv, CatchInv
  <1>5. \A f \in Frame : freed'[f] <= 1 /\ (status[f] # "none" => freed'[f] # 0)
                         /\ (status[f] = "none" => freed'[f] = 0)
    BY <1>1 DEF IInv, LiveInv, TypeOK, Alive
  <1>6. LiveInv'
    BY <1>1, <1>2, <1>5 DEF IInv, LiveInv
  <1>7. HandlerInv'
    BY <1>1, <1>5 DEF HandlerInv, Alive
  <1> QED
    BY <1>3, <1>4, <1>6, <1>7 DEF IInv

LEMMA StepKeeps == IInv /\ [Next]_vars => IInv'
  <1> SUFFICES ASSUME IInv, [Next]_vars PROVE IInv'
    OBVIOUS
  <1>1. CASE Next
    BY <1>1, ResumeKeeps, ResumeFrameKeeps, AfterErrorKeeps, AfterDoneKeeps, AfterSuspendKeeps,
       AwaitKeeps, BodyStepsKeep, CatchKeeps, DestroyKeeps, DestroyFrameKeeps, EraseTaskKeeps DEF Next
  <1>2. CASE UNCHANGED vars
    <2>1. Extra' = Extra
      BY <1>2 DEF vars, Extra
    <2> QED
      BY <1>2, <2>1 DEF vars, IInv, TypeOK, ChainInv, LiveInv, HandlerInv, Alive, PcInv, CatchInv
  <1> QED
    BY <1>1, <1>2

-----------------------------------------------------------------------------
(* The theorems.                                                           *)

LEMMA Invariance == Spec => []IInv
  BY InitHolds, StepKeeps, PTL DEF Spec

\* The locals of _call_stack_execute and _call_stack_destroy are never nullptr where
\* they are dereferenced, however deep the calls and wherever exceptions leave them.
THEOREM NeverNull == Spec => []TypeOK
  <1>1. IInv => TypeOK
    BY DEF IInv
  <1> QED
    BY <1>1, Invariance, PTL

\* The promises linked from the entry are at every resume the chain of coroutines that
\* await each other, for any number of frames.
THEOREM StackFollowsAwaits == Spec => []StackIsAwaitChain
  <1>1. IInv => StackIsAwaitChain
    BY Here DEF IInv, ChainInv, PcInv, StackIsAwaitChain
  <1> QED
    BY <1>1, Invariance, PTL

\* co_await goes on only when the awaited coroutine has finished, in every task
\* in which nothing was caught.
THEOREM CallerWaitsForCallee == Spec => []AwaitsFinish
  <1>1. IInv => AwaitsFinish
    BY Here DEF IInv, PcInv, CatchInv, AwaitsFinish, ResumedAfterCallee
  <1> QED
    BY <1>1, Invariance, PTL

\* However a task ends, each of its frames is destroyed exactly once: by the end of the
\* await, by _call_stack_destroy, or with the frame that owns it.
THEOREM FramesFreedOnce == Spec => []FreedOnce
  <1>1. IInv => FreedOnce
    <2> SUFFICES ASSUME IInv, NEW f \in Frame
                 PROVE  /\ freed[f] <= 1
                        /\ pc = "end" => freed[f] = IF status[f] = "none" THEN 0 ELSE 1
      BY DEF FreedOnce
    <2>1. pc = "end" => stack = <<>> /\ Extra = NoFrame /\ Len(stack) = 0
      BY Here DEF IInv, PcInv, Extra
    <2>2. freed[f] \in Nat
      BY DEF IInv, TypeOK
    <2> QED
      BY <2>1, <2>2, CallStackAssumption DEF IInv, LiveInv
  <1> QED
    BY <1>1, Invariance, PTL

\* The owner of a frame of the stack is the task or the caller, which exists.
LEMMA OwnerOf ==
  ASSUME IInv, NEW i \in 1..Len(stack)
  PROVE  Alive(stack[i]) /\ stack[i] \in handler /\ OwnerAlive(stack[i])
  <1>1. Alive(stack[i]) /\ stack[i] \in handler
    BY Here DEF IInv, LiveInv, HandlerInv, Alive
  <1>2. CASE i = 1
    BY <1>1, <1>2, Here DEF IInv, ChainInv, OwnerAlive
  <1>3. CASE i # 1
    <2>1. i - 1 \in 1..(Len(stack) - 1) /\ (i - 1) + 1 = i /\ i - 1 \in 1..Len(stack)
      BY <1>3, Here
    <2>2. awaiting[stack[i - 1]] = stack[i]
      BY <2>1 DEF IInv, ChainInv
    <2>3. stack[i - 1] \in Frame /\ Alive(stack[i - 1])
      BY <2>1, Here DEF IInv, LiveInv, Alive
    <2> QED
      BY <1>1, <2>2, <2>3 DEF OwnerAlive
  <1> QED
    BY <1>2, <1>3

\* Neither _call_stack_execute nor _call_stack_destroy touches a promise, a coroutine
\* object or a handle that is gone, for any nesting of calls, exceptions and catches.
THEOREM NothingUsedAfterFree == Spec => []NoUseAfterFree
  <1>1. IInv => NoUseAfterFree
    <2> SUFFICES ASSUME IInv PROVE NoUseAfterFree
      OBVIOUS
    <2>1. \A f \in ToSet(stack) : Alive(f)
      BY OwnerOf, Here, LenProperties DEF ToSet
    <2>2. pc \in {"idle", "loop", "body", "raise", "after"} => Alive(Entry) /\ Entry \in handler
      <3>1. CASE stack = <<>>
        BY <3>1, CallStackAssumption DEF IInv, PcInv, LiveInv, HandlerInv, Alive
      <3>2. CASE stack # <<>>
        <4>1. 1 \in 1..Len(stack) /\ stack[1] = Entry
          BY <3>2, Here DEF IInv, ChainInv
        <4> QED
          BY <4>1, OwnerOf
      <3> QED
        BY <3>1, <3>2
    <2>3. pc \in {"loop", "destroy"} => Alive(next) /\ next \in handler /\ OwnerAlive(next)
      <3> SUFFICES ASSUME pc \in {"loop", "destroy"} PROVE Alive(next) /\ next \in handler /\ OwnerAlive(next)
        OBVIOUS
      <3>1. PICK i \in 1..Len(stack) : next = stack[i]
        BY Here DEF IInv, PcInv
      <3> QED
        BY <3>1, OwnerOf
    <2>4. pc = "after" => Alive(cur) /\ cur \in handler /\ OwnerAlive(cur)
      <3> SUFFICES ASSUME pc = "after" PROVE Alive(cur) /\ cur \in handler /\ OwnerAlive(cur)
        OBVIOUS
      <3>1. PICK i \in 1..Len(stack) : cur = stack[i]
        BY Here DEF IInv, PcInv
      <3> QED
        BY <3>1, OwnerOf
    <2> QED
      BY <2>1, <2>2, <2>3, <2>4 DEF NoUseAfterFree
  <1> QED
    BY <1>1, Invariance, PTL
================================================================================
