--------------------------- MODULE Command_proofs ---------------------------
(***************************************************************************)
(* What a command's steps are while it runs: the rest of its program.      *)
(* Programs are sequences over any set of step names, joined from parts.   *)
(***************************************************************************)
EXTENDS Command, TLAPS, SequenceTheorems

-----------------------------------------------------------------------------
(* Sequences of steps *)

\* p is s followed by t.
Joins(p, s, t) ==
    /\ Len(p) = Len(s) + Len(t)
    /\ \A i \in 1..Len(s) : p[i] = s[i]
    /\ \A i \in 1..Len(t) : p[Len(s) + i] = t[i]

\* A concatenation, by its elements.
LEMMA Joining ==
    ASSUME NEW S, NEW s \in Seq(S), NEW t \in Seq(S)
    PROVE  s \o t \in Seq(S) /\ Joins(s \o t, s, t)
  BY ConcatProperties DEF Joins

\* r is what is left of p after some of its steps.
Rest(r, p) ==
    /\ Len(r) <= Len(p)
    /\ \A i \in 1..Len(r) : r[i] = p[Len(p) - Len(r) + i]

-----------------------------------------------------------------------------
(* Leaving steps behind *)

\* A command that leaves n steps of p behind returns or has the rest of p.
LEMMA Advancing ==
    ASSUME NEW S, NEW p \in Seq(S), todo \in Seq(S), Rest(todo, p),
           NEW n \in 1..Len(todo), NEW j, AdvanceWith(n, j)
    PROVE  \/ Len(todo) = n /\ Return(TRUE)
           \/ /\ todo' \in Seq(S) /\ todo' # <<>>
              /\ Rest(todo', p) /\ Len(todo') = Len(todo) - n
              /\ job' = j /\ ticks' = Ticks
              /\ UNCHANGED <<cmd, arg, ok, done>>
<1>1. CASE Len(todo) = n
  BY <1>1 DEF AdvanceWith
<1>2. CASE Len(todo) # n
  <2>1. /\ todo' = SubSeq(todo, n + 1, Len(todo)) /\ job' = j
        /\ ticks' = Ticks /\ UNCHANGED <<cmd, arg, ok, done>>
    BY <1>2 DEF AdvanceWith
  <2>2. /\ Len(todo) \in Nat /\ Len(p) \in Nat /\ n \in Nat
        /\ n + 1 \in 1..Len(todo)
    BY <1>2
  <2>3. /\ todo' \in Seq(S) /\ Len(todo') = Len(todo) - n
        /\ \A i \in 1..Len(todo') : todo'[i] = todo[n + i]
    BY <2>1, <2>2, SubSeqProperties
  <2>4. \A i \in 1..Len(todo') :
          /\ n + i \in 1..Len(todo)
          /\ Len(p) - Len(todo) + (n + i) = Len(p) - Len(todo') + i
    BY <2>2, <2>3
  <2>5. \A i \in 1..Len(todo') : todo'[i] = p[Len(p) - Len(todo') + i]
    BY <2>3, <2>4 DEF Rest
  <2>6. Len(todo') <= Len(p) /\ todo' # <<>>
    BY <2>2, <2>3 DEF Rest
  <2> QED BY <2>1, <2>3, <2>5, <2>6 DEF Rest
<1> QED BY <1>1, <1>2

\* The number of steps left tells the current step.
LEMMA HeadOfRest ==
    ASSUME NEW S, NEW p \in Seq(S), NEW r \in Seq(S), r # <<>>, Rest(r, p)
    PROVE  /\ Len(r) \in 1..Len(p)
           /\ Head(r) = p[Len(p) - Len(r) + 1]
  BY DEF Rest

\* The steps left without the current one.
LEMMA TailRest ==
    ASSUME NEW S, NEW p \in Seq(S), todo \in Seq(S), Rest(todo, p),
           Len(todo) >= 2
    PROVE  /\ Tail(todo) \in Seq(S) /\ Tail(todo) # <<>>
           /\ Rest(Tail(todo), p) /\ Len(Tail(todo)) = Len(todo) - 1
           /\ Head(Tail(todo)) = todo[2]
<1>1. /\ Tail(todo) \in Seq(S) /\ Len(Tail(todo)) = Len(todo) - 1
      /\ \A i \in 1..Len(Tail(todo)) : Tail(todo)[i] = todo[i + 1]
  OBVIOUS
<1>2. /\ Len(todo) \in Nat /\ Len(p) \in Nat /\ Len(todo) - 1 >= 1
      /\ Len(todo) <= Len(p)
  BY DEF Rest
<1>3. Tail(todo) # <<>> /\ Len(Tail(todo)) <= Len(p)
  <2>1. PICK r : r = Tail(todo)
    OBVIOUS
  <2>2. r \in Seq(S) /\ Len(r) >= 1 /\ Len(r) <= Len(p)
    BY <1>1, <1>2, <2>1
  <2>3. r # <<>>
    BY <2>2
  <2> QED BY <2>1, <2>2, <2>3, Zenon
<1>4. Head(Tail(todo)) = todo[2]
  BY <1>1, <1>2, <1>3
<1>5. \A i \in 1..Len(Tail(todo)) :
        /\ i + 1 \in 1..Len(todo)
        /\ Len(p) - Len(todo) + (i + 1) = Len(p) - Len(Tail(todo)) + i
  BY <1>1, <1>2
<1>6. \A i \in 1..Len(Tail(todo)) :
        Tail(todo)[i] = p[Len(p) - Len(Tail(todo)) + i]
  BY <1>1, <1>5 DEF Rest
<1> QED BY <1>1, <1>3, <1>4, <1>6 DEF Rest
=============================================================================
