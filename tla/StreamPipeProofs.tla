--------------------------- MODULE StreamPipeProofs ---------------------------
(***************************************************************************)
(* What the pipe promises follows from its steps; Relay implements them.   *)
(***************************************************************************)
EXTENDS StreamPipe, TLAPS

\* The two sides are each other's other side.
LEMMA OtherSide == \A s \in Side : Other(s) \in Side /\ Other(Other(s)) = s /\ Other(s) # s
  BY DEF Side, Other

LEMMA InitPipe == Init => PipeInv
  BY OtherSide DEF Init, PipeInv, TypeOK, NoGaps, TrueEnds

\* Put: a side whose other side has read the end has ended, and sends no more.
LEMMA PutStep ==
  ASSUME PipeInv, NEW s \in Side, Put(s)
  PROVE  PipeInv'
  <1>1. TypeOK' BY DEF PipeInv, Put, TypeOK
  <1>2. NoGaps'
    <2> SUFFICES ASSUME NEW t \in Side
                 PROVE  /\ Len(got[t]) <= sent'[Other(t)]
                        /\ \A i \in 1..Len(got[t]) : got[t][i] = i
      BY DEF NoGaps, Put
    <2>1. sent'[Other(t)] >= sent[Other(t)] BY OtherSide DEF PipeInv, Put, TypeOK
    <2>2. Len(got[t]) \in Nat /\ sent[Other(t)] \in Nat /\ sent'[Other(t)] \in Nat
      BY OtherSide DEF PipeInv, Put, TypeOK
    <2>3. Len(got[t]) <= sent[Other(t)] /\ \A i \in 1..Len(got[t]) : got[t][i] = i
      BY DEF PipeInv, NoGaps
    <2> QED BY <2>1, <2>2, <2>3
  <1>3. TrueEnds' BY OtherSide DEF PipeInv, Put, TypeOK, TrueEnds
  <1> QED BY <1>1, <1>2, <1>3 DEF PipeInv

\* End: an end that was true stays true.
LEMMA EndStep ==
  ASSUME PipeInv, NEW s \in Side, End(s)
  PROVE  PipeInv'
  <1>1. TypeOK' BY DEF PipeInv, End, TypeOK
  <1>2. NoGaps' BY DEF PipeInv, End, NoGaps
  <1>3. TrueEnds' BY OtherSide DEF PipeInv, End, TypeOK, TrueEnds
  <1> QED BY <1>1, <1>2, <1>3 DEF PipeInv

\* Take: the byte that is read is the one after the last; nobody reads past an
\* end, so an end that was read before stays true.
LEMMA TakeStep ==
  ASSUME PipeInv, NEW s \in Side, Take(s), UNCHANGED told \/ Learn({s})
  PROVE  PipeInv'
  <1> USE DEF PipeInv, Take
  <1>1. TypeOK'
    <2>1. got' \in [Side -> Seq(Nat)] BY DEF TypeOK
    <2>2. told' \in [Side -> BOOLEAN]
      <3>1. CASE UNCHANGED told BY <3>1 DEF TypeOK
      <3>2. CASE Learn({s}) BY <3>2 DEF TypeOK, Learn
      <3> QED BY <3>1, <3>2
    <2> QED BY <2>1, <2>2 DEF TypeOK
  <1>2. NoGaps'
    <2> SUFFICES ASSUME NEW t \in Side
                 PROVE  /\ Len(got'[t]) <= sent[Other(t)]
                        /\ \A i \in 1..Len(got'[t]) : got'[t][i] = i
      BY DEF NoGaps
    <2>1. CASE t # s BY <2>1 DEF TypeOK, NoGaps
    <2>2. CASE t = s
      <3>1. got'[s] = Append(got[s], Len(got[s]) + 1) /\ got[s] \in Seq(Nat)
        BY DEF TypeOK
      <3>2. Len(got'[s]) = Len(got[s]) + 1 BY <3>1
      <3>3. sent[Other(s)] \in Nat /\ Len(got[s]) \in Nat BY <3>1, OtherSide DEF TypeOK
      <3>4. \A i \in 1..Len(got[s]) : got'[s][i] = got[s][i] BY <3>1
      <3>5. got'[s][Len(got[s]) + 1] = Len(got[s]) + 1 BY <3>1
      <3> QED BY <2>2, <3>2, <3>3, <3>4, <3>5 DEF NoGaps
    <2> QED BY <2>1, <2>2
  <1>3. TrueEnds'
    <2> SUFFICES ASSUME NEW t \in Side, told'[t], ~failed
                 PROVE  over[Other(t)] /\ Len(got'[t]) = sent[Other(t)]
      BY DEF TrueEnds
    <2>1. CASE told[t]
      <3>1. t # s BY <2>1
      <3> QED BY <2>1, <3>1 DEF TypeOK, TrueEnds
    <2>2. CASE ~told[t]
      <3>1. Learn({s}) /\ t = s BY <2>2 DEF Learn, TypeOK
      <3> QED BY <3>1 DEF Learn
    <2> QED BY <2>1, <2>2
  <1> QED BY <1>1, <1>2, <1>3

\* Close: only true ends are shown, or the pipe fails.
LEMMA CloseStep ==
  ASSUME PipeInv, NEW learners \in SUBSET Side, Close(learners)
  PROVE  PipeInv'
  <1> USE DEF PipeInv, Close, Learn
  <1>1. TypeOK' BY DEF TypeOK
  <1>2. NoGaps' BY DEF NoGaps
  <1>3. TrueEnds'
    <2> SUFFICES ASSUME NEW t \in Side, told'[t], ~failed'
                 PROVE  over[Other(t)] /\ Len(got[t]) = sent[Other(t)]
      BY DEF TrueEnds
    <2>1. CASE t \in learners BY <2>1
    <2>2. CASE t \notin learners
      <3>1. told'[t] = (told[t] \/ t \in learners) OBVIOUS
      <3>2. told[t] BY <2>2, <3>1
      <3>3. ~failed OBVIOUS
      <3> QED BY <3>2, <3>3 DEF TrueEnds
    <2> QED BY <2>1, <2>2
  <1> QED BY <1>1, <1>2, <1>3

\* Every byte a side reads is the next one the other has sent, and an end that is
\* shown is true unless the pipe has failed.
THEOREM PipeKeepsItsPromise == Spec => []PipeInv
  <1>1. PipeInv /\ [Next]_vars => PipeInv'
    <2> SUFFICES ASSUME PipeInv, [Next]_vars PROVE PipeInv' OBVIOUS
    <2>1. CASE \E s \in Side : Put(s) BY <2>1, PutStep
    <2>2. CASE \E s \in Side : End(s) BY <2>2, EndStep
    <2>3. CASE \E s \in Side : Take(s) /\ (UNCHANGED told \/ Learn({s})) BY <2>3, TakeStep
    <2>4. CASE \E learners \in SUBSET Side : Close(learners) BY <2>4, CloseStep
    <2>5. CASE UNCHANGED vars BY <2>5 DEF vars, PipeInv, TypeOK, NoGaps, TrueEnds
    <2> QED BY <2>1, <2>2, <2>3, <2>4, <2>5 DEF Next
  <1> QED BY <1>1, InitPipe, PTL DEF Spec
=============================================================================
