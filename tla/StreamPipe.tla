------------------------------ MODULE StreamPipe ------------------------------
(***************************************************************************)
(* What a relay promises to the two peers it stands between: each of them  *)
(* reads what the other sends, in order and without gaps, and the end of a *)
(* stream only when the other has ended its own and all of it was read.    *)
(* A pipe that has failed still keeps the order; the ends it shows then    *)
(* say nothing.                                                            *)
(***************************************************************************)
EXTENDS Naturals, Sequences

Side == {"client", "upstream"}
Other(s) == IF s = "client" THEN "upstream" ELSE "client"

VARIABLES
    sent,       \* how many bytes each side has sent: 1, 2, ...
    got,        \* the bytes each side has read
    over,       \* the sides that have ended their stream
    told,       \* the sides that have read the end of the other's
    failed      \* the pipe no longer promises that ends are true

vars == <<sent, got, over, told, failed>>

Init ==
    /\ sent = [s \in Side |-> 0] /\ got = [s \in Side |-> <<>>]
    /\ over = [s \in Side |-> FALSE] /\ told = [s \in Side |-> FALSE]
    /\ failed \in BOOLEAN

Put(s) == ~over[s] /\ sent' = [sent EXCEPT ![s] = @ + 1] /\ UNCHANGED <<got, over, told, failed>>

Take(s) ==
    /\ ~told[s] /\ Len(got[s]) < sent[Other(s)]
    /\ got' = [got EXCEPT ![s] = Append(@, Len(@) + 1)]
    /\ UNCHANGED <<sent, over, failed>>

End(s) == ~over[s] /\ over' = [over EXCEPT ![s] = TRUE] /\ UNCHANGED <<sent, got, told, failed>>

\* The sides in learners read the end of what the other side sent.
Learn(learners) ==
    /\ \A s \in learners : failed' \/ (over[Other(s)] /\ Len(got'[s]) = sent[Other(s)])
    /\ told' = [s \in Side |-> told[s] \/ s \in learners]

\* The pipe is closed on any of the two sides, and may fail at that.
Close(learners) ==
    /\ Learn(learners) /\ failed' \in {failed, TRUE}
    /\ UNCHANGED <<sent, got, over>>

Next ==
    \/ \E s \in Side : Put(s) \/ End(s) \/ (Take(s) /\ (UNCHANGED told \/ Learn({s})))
    \/ \E learners \in SUBSET Side : Close(learners)

Spec == Init /\ [][Next]_vars

-----------------------------------------------------------------------------
TypeOK ==
    /\ sent \in [Side -> Nat] /\ got \in [Side -> Seq(Nat)]
    /\ over \in [Side -> BOOLEAN] /\ told \in [Side -> BOOLEAN] /\ failed \in BOOLEAN

\* What a side has read is the beginning of what the other sent, even after a
\* failure, and an end that was read is true: nothing is missing, nothing follows.
NoGaps == \A s \in Side :
    Len(got[s]) <= sent[Other(s)] /\ \A i \in 1..Len(got[s]) : got[s][i] = i
TrueEnds == \A s \in Side :
    told[s] /\ ~failed => over[Other(s)] /\ Len(got[s]) = sent[Other(s)]
PipeInv == TypeOK /\ NoGaps /\ TrueEnds
=============================================================================
