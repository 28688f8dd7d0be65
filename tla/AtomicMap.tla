----------------------------- MODULE AtomicMap ------------------------------
(***************************************************************************)
(* What storage.* and credentials.* promise to the scripts of an extension,*)
(* however many runtimes run them: one map, whose operations take effect at*)
(* once and one after the other, and which survives the process.  `answer` *)
(* is what the last operation of each runtime has been told.               *)
(***************************************************************************)
CONSTANTS Runtimes, Keys, Values, NoValue, NoAnswer, Failed

VARIABLES map, answer

vars == <<map, answer>>

Empty == [k \in Keys |-> NoValue]

Init == map \in [Keys -> Values \cup {NoValue}] /\ answer = [r \in Runtimes |-> NoAnswer]

Answer(r, a) == answer' = [answer EXCEPT ![r] = a]

Put(r, k, v) ==
    /\ map' = [map EXCEPT ![k] = v]
    /\ Answer(r, v)

Get(r, k) == Answer(r, map[k]) /\ UNCHANGED map

\* An operation may fail, but then it has changed nothing.
Fail(r) == Answer(r, Failed) /\ UNCHANGED map

\* The script takes the answer.
Take(r) == Answer(r, NoAnswer) /\ UNCHANGED map

\* RemoveExtension deletes the files.
Clear == map' = Empty /\ UNCHANGED answer

Crash == answer' = [r \in Runtimes |-> NoAnswer] /\ UNCHANGED map

Next ==
    \/ \E r \in Runtimes : \/ \E k \in Keys : Get(r, k) \/ \E v \in Values \cup {NoValue} :
                                                             Put(r, k, v)
                           \/ Fail(r) \/ Take(r)
    \/ Clear \/ Crash

Spec == Init /\ [][Next]_vars

=============================================================================
