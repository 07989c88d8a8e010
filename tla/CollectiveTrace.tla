---------------------------- MODULE CollectiveTrace ----------------------------
(***************************************************************************)
(* How it is proved that ranks which decide on their own stay in step: a   *)
(* theory of the calls of module Collectives, without any variable.        *)
(*                                                                         *)
(* The program of a rank is seen as a path of places.  In every place one  *)
(* collective is entered next, and its result alone decides about the      *)
(* place that follows.  A trace is the path from the oldest call that is   *)
(* remembered to the foremost rank: all the ranks are on one trace, some   *)
(* of them at an earlier place, before the call of that place or in it.    *)
(***************************************************************************)
EXTENDS Integers, Sequences, WellFoundedInduction, TLAPS

CONSTANTS
    Rank, Root,
    Place,         \* the places of the program
    Op(_),         \* the collective that is entered in a place
    How(_),        \* "root": the root's value is handed to the ranks, which wait
                   \* for the root alone; "all": the same, they wait for all;
                   \* "largest": the largest value, they wait for all;
                   \* "none": there is no result, a rank need not wait
    After(_, _)    \* the place that follows, given the result

\* c: the calls of each rank; waits: the ranks that are in a call.
At(c, waits, r) == IF waits[r] THEN Len(c[r]) ELSE Len(c[r]) + 1

Met(p, c, k) ==
    CASE How(p) = "none" -> TRUE
      [] How(p) = "root" -> Len(c[Root]) >= k
      [] OTHER           -> \A q \in Rank : Len(c[q]) >= k

\* Nobody leaves the call of place p before rank r has entered it.
Needs(p, r) == How(p) # "none" /\ (How(p) = "root" => r = Root)

Values(c, k) == {c[q][k].value : q \in Rank}
Greatest(V) == CHOOSE v \in V : \A w \in V : w <= v
Result(p, c, k) ==
    CASE How(p) = "none"    -> 0
      [] How(p) = "largest" -> Greatest(Values(c, k))
      [] OTHER              -> c[Root][k].value

Trace(S, c, waits) ==
    /\ S \in Seq(Place)
    /\ \A r \in Rank : At(c, waits, r) \in 1 .. Len(S)
    /\ \A r \in Rank : \A k \in 1 .. Len(c[r]) : c[r][k].op = Op(S[k])
    /\ \A k \in 1 .. Len(S) - 1 :
          /\ Met(S[k], c, k)
          /\ S[k + 1] = After(S[k], Result(S[k], c, k))

\* Rank r enters a call, e, or leaves the one that it is in.
Lists(V)        == [Rank -> Seq(V)]
Longer(c, r, e) == [c EXCEPT ![r] = Append(@, e)]
In(waits, r)    == [waits EXCEPT ![r] = TRUE]
Out(waits, r)   == [waits EXCEPT ![r] = FALSE]

\* Calls that all the ranks have left are forgotten, see Enter() of Collectives.
Past(c)    == \A q \in Rank : Len(c[q]) > 1
Tails(c)   == [q \in Rank |-> Tail(c[q])]
Shorter(c) == IF Past(c) THEN Tails(c) ELSE c

\* Where rank r is on the trace.
Here(S, c, waits, r) == S[At(c, waits, r)]

\* G: what may be contributed: <<place, rank, value>>.
Told(S, c, G) ==
    \A q \in Rank : \A k \in 1 .. Len(c[q]) : <<S[k], q, c[q][k].value>> \in G

\* The ranks are on one trace, in the places h, and contributed nothing but G.
Together(c, waits, h, G) ==
    \E S : /\ Trace(S, c, waits)
           /\ \A q \in Rank : Here(S, c, waits, q) = h[q]
           /\ Told(S, c, G)

Paths == [Rank -> Place]
Moved(h, r, p) == [h EXCEPT ![r] = p]
Last(c, r)   == c[r][Len(c[r])]
Former(c, r) == c[r][Len(c[r]) - 1]

-------------------------------------------------------------------------------
\* On a trace the k-th calls of any two ranks are the same.
LEMMA TraceMatches ==
    ASSUME NEW S, NEW c, NEW waits, Trace(S, c, waits),
           NEW q \in Rank, NEW r \in Rank, NEW k \in 1 .. Len(c[q]), k <= Len(c[r]),
           Len(c[q]) \in Nat, Len(c[r]) \in Nat
    PROVE  c[q][k].op = c[r][k].op
BY DEF Trace

\* All the ranks begin in the same place.
LEMMA TraceStarts ==
    ASSUME NEW p \in Place, NEW c, NEW waits,
           \A r \in Rank : c[r] = <<>> /\ ~waits[r]
    PROVE  Trace(<<p>>, c, waits) /\ \A r \in Rank : Here(<<p>>, c, waits, r) = p
<1>1. Len(<<>>) = 0 /\ Len(<<p>>) = 1 /\ <<p>>[1] = p /\ <<p>> \in Seq(Place)
  OBVIOUS
<1>2. \A r \in Rank : At(c, waits, r) = 1 /\ Len(c[r]) = 0
  BY <1>1 DEF At
<1> QED  BY <1>1, <1>2 DEF Trace, Here

\* A rank leaves the call that it is in.
LEMMA TraceLeave ==
    ASSUME NEW S, NEW V, NEW c \in Lists(V), NEW waits \in [Rank -> BOOLEAN],
           Trace(S, c, waits), NEW r \in Rank, waits[r],
           Met(Here(S, c, waits, r), c, Len(c[r])),
           NEW p \in Place,
           p = After(Here(S, c, waits, r), Result(Here(S, c, waits, r), c, Len(c[r])))
    PROVE  \E S2 : /\ Trace(S2, c, Out(waits, r))
                   /\ Here(S2, c, Out(waits, r), r) = p
                   /\ \A q \in Rank : q # r =>
                         Here(S2, c, Out(waits, r), q) = Here(S, c, waits, q)
                   /\ \A q \in Rank : \A k \in 1 .. Len(c[q]) : S2[k] = S[k]
<1>00. PICK waits2 : waits2 = Out(waits, r)
  OBVIOUS
<1>0. waits2 = Out(waits, r) /\ ~waits2[r] /\ \A q \in Rank : q # r => waits2[q] = waits[q]
  BY <1>00 DEF Out
<1>1. PICK n \in Nat : n = Len(c[r])
  <2>1. c[r] \in Seq(V)
    BY DEF Lists
  <2> QED  BY <2>1
<1>2. /\ S \in Seq(Place) /\ n \in 1 .. Len(S) /\ Len(S) \in Nat
      /\ At(c, waits, r) = n /\ Here(S, c, waits, r) = S[n]
      /\ At(c, waits2, r) = n + 1
  BY <1>0, <1>1 DEF Trace, At, Here
<1>3. \A q \in Rank : q # r => At(c, waits2, q) = At(c, waits, q)
  BY <1>0 DEF At
<1>9. \A q \in Rank : At(c, waits, q) \in 1 .. Len(S)
  BY DEF Trace
<1> DEFINE Goal ==
      \E S2 : /\ Trace(S2, c, waits2)
              /\ Here(S2, c, waits2, r) = p
              /\ \A q \in Rank : q # r => Here(S2, c, waits2, q) = Here(S, c, waits, q)
              /\ \A q \in Rank : \A k \in 1 .. Len(c[q]) : S2[k] = S[k]
<1>4. ASSUME n < Len(S) PROVE Goal
  <2>1. S[n + 1] = p
    BY <1>1, <1>2, <1>4 DEF Trace
  <2>2. \A q \in Rank : At(c, waits2, q) \in 1 .. Len(S)
    <3> SUFFICES ASSUME NEW q \in Rank PROVE At(c, waits2, q) \in 1 .. Len(S)
      OBVIOUS
    <3>1. CASE q = r
      BY <3>1, <1>2, <1>4
    <3>2. CASE q # r
      BY <3>2, <1>3, <1>9
    <3> QED  BY <3>1, <3>2
  <2>3. Trace(S, c, waits2)
    BY <2>2 DEF Trace
  <2> QED  BY <1>2, <1>3, <2>1, <2>3 DEF Here
<1>5. ASSUME n = Len(S) PROVE Goal
  <2>1. PICK S2 : S2 = Append(S, p)
    OBVIOUS
  <2>2. /\ S2 \in Seq(Place) /\ Len(S2) = n + 1 /\ S2[n + 1] = p
        /\ \A k \in 1 .. n : S2[k] = S[k]
    BY <1>2, <1>5, <2>1
  <2>4. \A q \in Rank : q # r => At(c, waits2, q) \in 1 .. n
    BY <1>3, <1>5, <1>9
  <2>3. \A q \in Rank : At(c, waits2, q) \in 1 .. n + 1
    <3> SUFFICES ASSUME NEW q \in Rank PROVE At(c, waits2, q) \in 1 .. n + 1
      OBVIOUS
    <3>1. CASE q = r
      BY <3>1, <1>2
    <3>2. CASE q # r
      <4>1. At(c, waits2, q) \in 1 .. n
        BY <3>2, <2>4
      <4>2. 1 .. n \subseteq 1 .. n + 1
        BY <1>1
      <4> QED  BY <4>1, <4>2
    <3> QED  BY <3>1, <3>2
  <2>5. \A q \in Rank : \A k \in 1 .. Len(c[q]) : k \in 1 .. n
    <3>1. \A q \in Rank : Len(c[q]) \in Nat
      <4>1. \A q \in Rank : c[q] \in Seq(V)
        BY DEF Lists
      <4> QED  BY <4>1
    <3>2. \A q \in Rank : Len(c[q]) <= n
      BY <3>1, <1>5, <1>2 DEF Trace, At
    <3> QED  BY <3>1, <3>2
  <2>6. \A q \in Rank : \A k \in 1 .. Len(c[q]) : c[q][k].op = Op(S2[k])
    BY <2>2, <2>5 DEF Trace
  <2>7. \A k \in 1 .. Len(S2) - 1 :
           Met(S2[k], c, k) /\ S2[k + 1] = After(S2[k], Result(S2[k], c, k))
    <3> SUFFICES ASSUME NEW k \in 1 .. n
                 PROVE  Met(S2[k], c, k) /\ S2[k + 1] = After(S2[k], Result(S2[k], c, k))
      <4>1. Len(S2) - 1 = n
        BY <2>2, <1>1
      <4> QED  BY <4>1
    <3>1. CASE k = n
      BY <3>1, <1>1, <1>2, <2>2
    <3>2. CASE k < n
      <4>1. k \in 1 .. Len(S) - 1 /\ k + 1 \in 1 .. n
        BY <3>2, <1>5
      <4> QED  BY <4>1, <2>2 DEF Trace
    <3>3. k = n \/ k < n
      BY <1>1
    <3> QED  BY <3>1, <3>2, <3>3
  <2>8. Trace(S2, c, waits2)
    BY <2>2, <2>3, <2>6, <2>7 DEF Trace
  <2>9. Here(S2, c, waits2, r) = p
    BY <1>2, <2>2 DEF Here
  <2>10. \A q \in Rank : q # r => Here(S2, c, waits2, q) = Here(S, c, waits, q)
    BY <1>3, <2>2, <2>4 DEF Here
  <2>11. \A q \in Rank : \A k \in 1 .. Len(c[q]) : S2[k] = S[k]
    BY <2>2, <2>5
  <2> QED  BY <2>8, <2>9, <2>10, <2>11
<1>6. n < Len(S) \/ n = Len(S)
  BY <1>1, <1>2
<1>7. Goal
  BY <1>4, <1>5, <1>6
<1> QED  BY <1>7, <1>00

\* A rank enters the call of the place that it is in.
LEMMA TraceGrow ==
    ASSUME NEW S, NEW V, NEW c \in Lists(V), NEW waits \in [Rank -> BOOLEAN],
           Trace(S, c, waits), NEW r \in Rank, ~waits[r], Root \in Rank,
           NEW e \in V, e.op = Op(Here(S, c, waits, r))
    PROVE  /\ Longer(c, r, e) \in Lists(V)
           /\ Trace(S, Longer(c, r, e), In(waits, r))
           /\ \A q \in Rank :
                 Here(S, Longer(c, r, e), In(waits, r), q) = Here(S, c, waits, q)
<1>00. PICK waits2, c2 : waits2 = In(waits, r) /\ c2 = Longer(c, r, e)
  OBVIOUS
<1>0. /\ waits2 = In(waits, r) /\ waits2[r]
      /\ \A q \in Rank : q # r => waits2[q] = waits[q]
      /\ c2 = Longer(c, r, e) /\ c2 = [c EXCEPT ![r] = Append(@, e)]
  BY <1>00 DEF In, Longer
<1>1. \A q \in Rank : c[q] \in Seq(V) /\ Len(c[q]) \in Nat
  <2>1. \A q \in Rank : c[q] \in Seq(V)
    BY DEF Lists
  <2> QED  BY <2>1
<1>2. c2[r] = Append(c[r], e) /\ \A q \in Rank : q # r => c2[q] = c[q]
  BY <1>0 DEF Lists
<1>3. /\ Len(c2[r]) = Len(c[r]) + 1 /\ c2[r][Len(c[r]) + 1] = e
      /\ \A k \in 1 .. Len(c[r]) : c2[r][k] = c[r][k]
  BY <1>1, <1>2
<1>4. \A q \in Rank : /\ Len(c2[q]) \in Nat /\ Len(c2[q]) >= Len(c[q])
                      /\ \A k \in 1 .. Len(c[q]) : c2[q][k] = c[q][k]
  BY <1>1, <1>2, <1>3
<1>5. \A q \in Rank : At(c2, waits2, q) = At(c, waits, q)
  BY <1>0, <1>2, <1>3 DEF At
<1>6. ASSUME NEW q \in Rank, NEW k \in 1 .. Len(c2[q])
      PROVE  c2[q][k].op = Op(S[k])
  <2>1. CASE q # r
    BY <2>1, <1>2, <1>6 DEF Trace
  <2>2. CASE q = r /\ k = Len(c[r]) + 1
    BY <2>2, <1>3 DEF Here, At
  <2>3. CASE q = r /\ k # Len(c[r]) + 1
    <3>1. k \in 1 .. Len(c[r])
      BY <2>3, <1>1, <1>3
    <3> QED  BY <3>1, <2>3, <1>3 DEF Trace
  <2> QED  BY <2>1, <2>2, <2>3
<1>7. ASSUME NEW k \in Nat \ {0}, NEW p, Met(p, c, k)
      PROVE  Met(p, c2, k) /\ Result(p, c2, k) = Result(p, c, k)
  <2>1. CASE How(p) = "root"
    <3>1. k \in 1 .. Len(c[Root])
      BY <2>1, <1>7, <1>1 DEF Met
    <3> QED  BY <3>1, <2>1, <1>1, <1>4 DEF Met, Result
  <2>2. CASE How(p) \notin {"root", "none"}
    <3>1. \A q \in Rank : k \in 1 .. Len(c[q])
      BY <2>2, <1>7, <1>1 DEF Met
    <3>2. \A q \in Rank : c2[q][k] = c[q][k] /\ Len(c2[q]) >= k
      BY <3>1, <1>1, <1>4
    <3>3. Values(c2, k) = Values(c, k)
      BY <3>2 DEF Values
    <3> QED  BY <3>2, <3>3, <2>2 DEF Met, Result
  <2> QED  BY <2>1, <2>2 DEF Met, Result
<1>8. S \in Seq(Place) /\ Len(S) \in Nat
  BY DEF Trace
<1>9. ASSUME NEW k \in 1 .. Len(S) - 1
      PROVE  Met(S[k], c2, k) /\ S[k + 1] = After(S[k], Result(S[k], c2, k))
  <2>1. k \in Nat \ {0} /\ Met(S[k], c, k)
    BY <1>8 DEF Trace
  <2>2. S[k + 1] = After(S[k], Result(S[k], c, k))
    BY DEF Trace
  <2> QED  BY <2>1, <2>2, <1>7
<1>10. Trace(S, c2, waits2)
  BY <1>5, <1>6, <1>9 DEF Trace
<1>11. c2 \in Lists(V)
  <2>1. Append(c[r], e) \in Seq(V)
    BY <1>1
  <2> QED  BY <2>1, <1>0 DEF Lists
<1> QED  BY <1>0, <1>5, <1>10, <1>11 DEF Here

\* Calls that all the ranks have left are forgotten.
LEMMA TraceForget ==
    ASSUME NEW S, NEW V, NEW c \in Lists(V), NEW waits, Trace(S, c, waits),
           Root \in Rank, Past(c)
    PROVE  /\ Tails(c) \in Lists(V)
           /\ Trace(Tail(S), Tails(c), waits)
           /\ \A q \in Rank : Here(Tail(S), Tails(c), waits, q) = Here(S, c, waits, q)
<1>01. \A q \in Rank : Len(c[q]) > 1
  BY DEF Past
<1>00. PICK c2 : c2 = Tails(c)
  OBVIOUS
<1>0. c2 = Tails(c) /\ c2 = [q \in Rank |-> Tail(c[q])]
  BY <1>00 DEF Tails
<1>1. \A q \in Rank : c[q] \in Seq(V) /\ Len(c[q]) \in Nat
  <2>1. \A q \in Rank : c[q] \in Seq(V)
    BY DEF Lists
  <2> QED  BY <2>1
<1>2. \A q \in Rank :
        /\ c2[q] \in Seq(V) /\ Len(c2[q]) = Len(c[q]) - 1 /\ Len(c2[q]) \in Nat
        /\ \A k \in 1 .. Len(c2[q]) : c2[q][k] = c[q][k + 1]
  <2> SUFFICES ASSUME NEW q \in Rank
               PROVE /\ c2[q] \in Seq(V) /\ Len(c2[q]) = Len(c[q]) - 1 /\ Len(c2[q]) \in Nat
                     /\ \A k \in 1 .. Len(c2[q]) : c2[q][k] = c[q][k + 1]
    OBVIOUS
  <2>1. c[q] \in Seq(V) /\ Len(c[q]) \in Nat /\ Len(c[q]) > 1
    BY <1>1, <1>01
  <2>2. c[q] # <<>> /\ c2[q] = Tail(c[q])
    BY <2>1, <1>0
  <2>3. /\ Tail(c[q]) \in Seq(V) /\ Len(Tail(c[q])) = Len(c[q]) - 1
        /\ \A k \in 1 .. Len(c[q]) - 1 : Tail(c[q])[k] = c[q][k + 1]
    BY <2>1, <2>2
  <2> QED  BY <2>1, <2>2, <2>3
<1>3. PICK T : T = Tail(S)
  OBVIOUS
<1>4. S \in Seq(Place) /\ Len(S) \in Nat /\ Len(S) >= 2
  <2>1. At(c, waits, Root) \in 1 .. Len(S) /\ S \in Seq(Place)
    BY DEF Trace
  <2> QED  BY <2>1, <1>1, <1>01 DEF At
<1>5. /\ T \in Seq(Place) /\ Len(T) = Len(S) - 1
      /\ \A k \in 1 .. Len(S) - 1 : T[k] = S[k + 1]
  BY <1>3, <1>4
<1>6. \A q \in Rank : At(c2, waits, q) = At(c, waits, q) - 1 /\ At(c2, waits, q) \in Nat
  BY <1>1, <1>2, <1>01 DEF At
<1>7. \A q \in Rank : At(c2, waits, q) \in 1 .. Len(T)
  <2> SUFFICES ASSUME NEW q \in Rank PROVE At(c2, waits, q) \in 1 .. Len(T)
    OBVIOUS
  <2>1. At(c, waits, q) \in 1 .. Len(S)
    BY DEF Trace
  <2>2. At(c, waits, q) >= 2
    BY <1>1, <1>01 DEF At
  <2> QED  BY <2>1, <2>2, <1>4, <1>5, <1>6
<1>8. \A q \in Rank : Here(T, c2, waits, q) = Here(S, c, waits, q)
  <2> SUFFICES ASSUME NEW q \in Rank PROVE Here(T, c2, waits, q) = Here(S, c, waits, q)
    OBVIOUS
  <2>1. PICK i \in Nat : i = At(c2, waits, q)
    BY <1>6
  <2>2. i \in 1 .. Len(S) - 1 /\ At(c, waits, q) = i + 1
    BY <2>1, <1>1, <1>5, <1>6, <1>7 DEF At
  <2> QED  BY <2>1, <2>2, <1>5 DEF Here
<1>9. ASSUME NEW q \in Rank, NEW k \in 1 .. Len(c2[q])
      PROVE  c2[q][k].op = Op(T[k])
  <2>1. k + 1 \in 1 .. Len(c[q]) /\ c2[q][k] = c[q][k + 1]
    BY <1>1, <1>2, <1>9
  <2>2. k \in 1 .. Len(S) - 1
    <3>1. At(c2, waits, q) \in 1 .. Len(T) /\ Len(c2[q]) \in Nat
      BY <1>2, <1>7
    <3>2. k <= Len(T)
      BY <3>1, <1>4, <1>5 DEF At
    <3> QED  BY <3>2, <1>4, <1>5
  <2> QED  BY <2>1, <2>2, <1>5 DEF Trace
<1>10. ASSUME NEW k \in Nat, NEW p, Met(p, c, k + 2)
      PROVE  Met(p, c2, k + 1) /\ Result(p, c2, k + 1) = Result(p, c, k + 2)
  <2>1. CASE How(p) = "root"
    <3>1. Len(c[Root]) >= k + 2
      BY <2>1, <1>10 DEF Met
    <3>2. k + 1 \in 1 .. Len(c2[Root]) /\ (k + 1) + 1 = k + 2
      BY <3>1, <1>1, <1>2
    <3>3. c2[Root][k + 1] = c[Root][k + 2]
      BY <3>2, <1>2
    <3> QED  BY <3>2, <3>3, <2>1, <1>2 DEF Met, Result
  <2>2. CASE How(p) \notin {"root", "none"}
    <3>1. \A q \in Rank : Len(c[q]) >= k + 2
      BY <2>2, <1>10 DEF Met
    <3>2. \A q \in Rank : k + 1 \in 1 .. Len(c2[q]) /\ (k + 1) + 1 = k + 2
      BY <3>1, <1>1, <1>2
    <3>3. \A q \in Rank : c2[q][k + 1] = c[q][k + 2] /\ Len(c2[q]) >= k + 1
      BY <3>2, <1>2
    <3>4. Values(c2, k + 1) = Values(c, k + 2)
      BY <3>3 DEF Values
    <3> QED  BY <3>3, <3>4, <2>2 DEF Met, Result
  <2> QED  BY <2>1, <2>2 DEF Met, Result
<1>11. ASSUME NEW k \in 1 .. Len(T) - 1
       PROVE  Met(T[k], c2, k) /\ T[k + 1] = After(T[k], Result(T[k], c2, k))
  <2>1. PICK i \in Nat : k = i + 1
    <3>1. k - 1 \in Nat /\ k = (k - 1) + 1
      BY <1>4, <1>5
    <3> QED  BY <3>1
  <2>2. i + 2 \in 1 .. Len(S) - 1 /\ i + 1 \in 1 .. Len(S) - 1 /\ (i + 1) + 1 = i + 2
    BY <2>1, <1>4, <1>5
  <2>3. T[k] = S[i + 2] /\ T[k + 1] = S[(i + 2) + 1]
    BY <2>1, <2>2, <1>4, <1>5
  <2>4. Met(S[i + 2], c, i + 2) /\ S[(i + 2) + 1] = After(S[i + 2], Result(S[i + 2], c, i + 2))
    BY <2>2 DEF Trace
  <2> QED  BY <2>1, <2>3, <2>4, <1>10
<1>12. Trace(T, c2, waits)
  BY <1>5, <1>7, <1>9, <1>11 DEF Trace
<1>13. c2 \in Lists(V)
  BY <1>0, <1>2 DEF Lists
<1> QED  BY <1>0, <1>3, <1>8, <1>12, <1>13

\* What has been contributed stays what it was, and the new call adds to it.
LEMMA ToldGrow ==
    ASSUME NEW S, NEW V, NEW c \in Lists(V), NEW waits \in [Rank -> BOOLEAN], NEW G,
           Told(S, c, G), NEW r \in Rank, ~waits[r], NEW e \in V,
           <<Here(S, c, waits, r), r, e.value>> \in G
    PROVE  Told(S, Longer(c, r, e), G)
<1>1. c[r] \in Seq(V)
  BY DEF Lists
<1>2. PICK l : l = Longer(c, r, e)
  OBVIOUS
<1>3. l[r] = Append(c[r], e) /\ \A q \in Rank : q # r => l[q] = c[q]
  BY <1>2 DEF Longer, Lists
<1>4. /\ Len(c[r]) \in Nat /\ Len(l[r]) = Len(c[r]) + 1 /\ l[r][Len(c[r]) + 1] = e
      /\ \A k \in 1 .. Len(c[r]) : l[r][k] = c[r][k]
  BY <1>1, <1>3
<1>5. ASSUME NEW q \in Rank, NEW k \in 1 .. Len(l[q])
      PROVE  <<S[k], q, l[q][k].value>> \in G
  <2>1. CASE q # r
    BY <2>1, <1>3, <1>5 DEF Told
  <2>2. CASE q = r /\ k = Len(c[r]) + 1
    BY <2>2, <1>4 DEF Here, At
  <2>3. CASE q = r /\ k # Len(c[r]) + 1
    <3>1. k \in 1 .. Len(c[r])
      BY <2>3, <1>4
    <3> QED  BY <3>1, <2>3, <1>4 DEF Told
  <2> QED  BY <2>1, <2>2, <2>3
<1> QED  BY <1>2, <1>5 DEF Told

\* Calls that are forgotten do not matter.
LEMMA ToldForget ==
    ASSUME NEW S, NEW V, NEW c \in Lists(V), NEW waits, NEW G,
           Trace(S, c, waits), Told(S, c, G), Past(c), Root \in Rank
    PROVE  Told(Tail(S), Tails(c), G)
<1>1. PICK T, t : T = Tail(S) /\ t = Tails(c)
  OBVIOUS
<1>2. ASSUME NEW q \in Rank, NEW k \in 1 .. Len(t[q])
      PROVE  <<T[k], q, t[q][k].value>> \in G
  <2>1. c[q] \in Seq(V) /\ Len(c[q]) \in Nat /\ Len(c[q]) > 1
    <3>1. c[q] \in Seq(V)
      BY DEF Lists
    <3> QED  BY <3>1 DEF Past
  <2>2. c[q] # <<>> /\ t[q] = Tail(c[q])
    BY <2>1, <1>1 DEF Tails
  <2>3. /\ Len(Tail(c[q])) = Len(c[q]) - 1
        /\ \A i \in 1 .. Len(c[q]) - 1 : Tail(c[q])[i] = c[q][i + 1]
    BY <2>1, <2>2
  <2>4. k + 1 \in 1 .. Len(c[q]) /\ t[q][k] = c[q][k + 1]
    BY <2>1, <2>2, <2>3
  <2>5. S \in Seq(Place) /\ Len(S) \in Nat /\ Len(c[q]) <= Len(S)
    <3>1. S \in Seq(Place) /\ At(c, waits, q) \in 1 .. Len(S)
      BY DEF Trace
    <3> QED  BY <3>1, <2>1 DEF At
  <2>6. S # <<>> /\ k \in 1 .. Len(S) - 1
    BY <2>1, <2>4, <2>5
  <2>7. T[k] = S[k + 1]
    BY <1>1, <2>5, <2>6
  <2> QED  BY <2>4, <2>7 DEF Told
<1> QED  BY <1>1, <1>2 DEF Told

-------------------------------------------------------------------------------
\* All the ranks begin in the same place.
LEMMA TogetherStarts ==
    ASSUME NEW p \in Place, NEW c, NEW waits, NEW h, NEW G,
           \A r \in Rank : c[r] = <<>> /\ ~waits[r] /\ h[r] = p
    PROVE  Together(c, waits, h, G)
<1>1. Trace(<<p>>, c, waits) /\ \A r \in Rank : Here(<<p>>, c, waits, r) = h[r]
  BY TraceStarts
<1>2. Told(<<p>>, c, G)
  <2>1. Len(<<>>) = 0
    OBVIOUS
  <2> QED  BY <2>1 DEF Told
<1> QED  BY <1>1, <1>2 DEF Together

\* A rank enters the call of the place that it is in.
LEMMA TogetherEnters ==
    ASSUME NEW V, NEW c \in Lists(V), NEW waits \in [Rank -> BOOLEAN], NEW h, NEW G,
           Together(c, waits, h, G), Root \in Rank, NEW r \in Rank, ~waits[r],
           NEW e \in V, e.op = Op(h[r]), <<h[r], r, e.value>> \in G
    PROVE  Together(Shorter(Longer(c, r, e)), In(waits, r), h, G)
<1>1. PICK S : /\ Trace(S, c, waits) /\ Told(S, c, G)
               /\ \A q \in Rank : Here(S, c, waits, q) = h[q]
  BY DEF Together
<1>2. PICK l, w : l = Longer(c, r, e) /\ w = In(waits, r)
  OBVIOUS
<1>3. /\ l \in Lists(V) /\ Trace(S, l, w)
      /\ \A q \in Rank : Here(S, l, w, q) = h[q]
  <2>1. e.op = Op(Here(S, c, waits, r))
    BY <1>1
  <2>2. /\ Longer(c, r, e) \in Lists(V)
        /\ Trace(S, Longer(c, r, e), In(waits, r))
        /\ \A q \in Rank :
              Here(S, Longer(c, r, e), In(waits, r), q) = Here(S, c, waits, q)
    BY <1>1, <2>1, TraceGrow
  <2> QED  BY <1>1, <1>2, <2>2
<1>4. Told(S, l, G)
  <2>1. <<Here(S, c, waits, r), r, e.value>> \in G
    BY <1>1
  <2> QED  BY <1>1, <1>2, <2>1, ToldGrow
<1>5. CASE Past(l)
  <2>1. Shorter(l) = Tails(l)
    BY <1>5 DEF Shorter
  <2>2. /\ Trace(Tail(S), Tails(l), w)
        /\ \A q \in Rank : Here(Tail(S), Tails(l), w, q) = h[q]
    BY <1>3, <1>5, TraceForget
  <2>3. Told(Tail(S), Tails(l), G)
    BY <1>3, <1>4, <1>5, ToldForget
  <2> QED  BY <1>2, <2>1, <2>2, <2>3 DEF Together
<1>6. CASE ~Past(l)
  <2>1. Shorter(l) = l
    BY <1>6 DEF Shorter
  <2> QED  BY <1>2, <1>3, <1>4, <2>1 DEF Together
<1> QED  BY <1>5, <1>6

\* A rank leaves the call that it is in.
LEMMA TogetherLeaves ==
    ASSUME NEW V, NEW c \in Lists(V), NEW waits \in [Rank -> BOOLEAN], NEW h \in Paths, NEW G,
           Together(c, waits, h, G), NEW r \in Rank, waits[r], Met(h[r], c, Len(c[r])),
           NEW p \in Place, p = After(h[r], Result(h[r], c, Len(c[r])))
    PROVE  Together(c, Out(waits, r), Moved(h, r, p), G)
<1>1. PICK S : /\ Trace(S, c, waits) /\ Told(S, c, G)
               /\ \A q \in Rank : Here(S, c, waits, q) = h[q]
  BY DEF Together
<1>2. PICK w, g : w = Out(waits, r) /\ g = Moved(h, r, p)
  OBVIOUS
<1>3. g[r] = p /\ \A q \in Rank : q # r => g[q] = h[q]
  BY <1>2 DEF Moved, Paths
<1>4. PICK T : /\ Trace(T, c, w) /\ Here(T, c, w, r) = p
               /\ \A q \in Rank : q # r => Here(T, c, w, q) = Here(S, c, waits, q)
               /\ \A q \in Rank : \A k \in 1 .. Len(c[q]) : T[k] = S[k]
  <2>1. /\ Met(Here(S, c, waits, r), c, Len(c[r]))
        /\ p = After(Here(S, c, waits, r), Result(Here(S, c, waits, r), c, Len(c[r])))
    BY <1>1
  <2> QED  BY <1>1, <1>2, <2>1, TraceLeave
<1>5. Told(T, c, G)
  BY <1>1, <1>4 DEF Told
<1>6. \A q \in Rank : Here(T, c, w, q) = g[q]
  BY <1>1, <1>3, <1>4
<1> QED  BY <1>2, <1>4, <1>5, <1>6 DEF Together

\* A rank leaves the call that it is in and enters the next one at once.
LEMMA TogetherGoesOn ==
    ASSUME NEW V, NEW c \in Lists(V), NEW waits \in [Rank -> BOOLEAN], NEW h \in Paths, NEW G,
           Together(c, waits, h, G), Root \in Rank, NEW r \in Rank, waits[r],
           Met(h[r], c, Len(c[r])),
           NEW p \in Place, p = After(h[r], Result(h[r], c, Len(c[r]))),
           NEW e \in V, e.op = Op(p), <<p, r, e.value>> \in G
    PROVE  Together(Shorter(Longer(c, r, e)), waits, Moved(h, r, p), G)
<1>1. PICK w, g : w = Out(waits, r) /\ g = Moved(h, r, p)
  OBVIOUS
<1>2. Together(c, w, g, G)
  BY <1>1, TogetherLeaves
<1>3. w \in [Rank -> BOOLEAN] /\ ~w[r] /\ In(w, r) = waits
  BY <1>1 DEF In, Out
<1>4. g[r] = p
  BY <1>1 DEF Moved, Paths
<1>5. Together(Shorter(Longer(c, r, e)), In(w, r), g, G)
  BY <1>2, <1>3, <1>4, TogetherEnters
<1> QED  BY <1>1, <1>3, <1>5

\* c2 is what remains of the calls c1 when the s oldest ones are forgotten.
Remains(c1, c2, s, V) ==
    \A q \in Rank :
        /\ c1[q] \in Seq(V) /\ c2[q] \in Seq(V) /\ Len(c1[q]) = Len(c2[q]) + s
        /\ s = 1 => Len(c2[q]) > 0
        /\ \A k \in 1 .. Len(c2[q]) : c2[q][k] = c1[q][k + s]

LEMMA LongerIs ==
    ASSUME NEW V, NEW c \in Lists(V), NEW r \in Rank, NEW e \in V
    PROVE  /\ Longer(c, r, e) \in Lists(V)
           /\ \A q \in Rank : q # r => Longer(c, r, e)[q] = c[q]
           /\ c[r] \in Seq(V) /\ Longer(c, r, e)[r] = Append(c[r], e)
<1>1. c[r] \in Seq(V)
  BY DEF Lists
<1>2. Append(c[r], e) \in Seq(V)
  BY <1>1
<1> QED  BY <1>1, <1>2 DEF Longer, Lists

LEMMA ShorterIs ==
    ASSUME NEW V, NEW l \in Lists(V)
    PROVE  Shorter(l) \in Lists(V) /\ \E s \in {0, 1} : Remains(l, Shorter(l), s, V)
<1>1. PICK c2 : c2 = Shorter(l)
  OBVIOUS
<1>2. \A q \in Rank : l[q] \in Seq(V) /\ Len(l[q]) \in Nat
  <2>1. \A q \in Rank : l[q] \in Seq(V)
    BY DEF Lists
  <2> QED  BY <2>1
<1>3. CASE Past(l)
  <2>1. c2 = [q \in Rank |-> Tail(l[q])]
    BY <1>1, <1>3 DEF Shorter, Tails
  <2>2. ASSUME NEW q \in Rank
        PROVE  /\ c2[q] \in Seq(V) /\ Len(l[q]) = Len(c2[q]) + 1 /\ Len(c2[q]) > 0
               /\ \A k \in 1 .. Len(c2[q]) : c2[q][k] = l[q][k + 1]
    <3>1. l[q] \in Seq(V) /\ Len(l[q]) \in Nat /\ Len(l[q]) > 1
      BY <1>2, <1>3 DEF Past
    <3>2. l[q] # <<>> /\ c2[q] = Tail(l[q])
      BY <3>1, <2>1
    <3>3. Tail(l[q]) \in Seq(V) /\ Len(Tail(l[q])) = Len(l[q]) - 1
          /\ \A k \in 1 .. Len(l[q]) - 1 : Tail(l[q])[k] = l[q][k + 1]
      BY <3>1, <3>2
    <3>4. c2[q] \in Seq(V) /\ Len(c2[q]) = Len(l[q]) - 1
      BY <3>2, <3>3
    <3>5. Len(l[q]) = Len(c2[q]) + 1 /\ Len(c2[q]) > 0
      BY <3>1, <3>4
    <3>6. \A k \in 1 .. Len(c2[q]) : c2[q][k] = l[q][k + 1]
      BY <3>2, <3>3, <3>4
    <3> QED  BY <3>4, <3>5, <3>6
  <2>3. c2 \in Lists(V)
    BY <2>1, <2>2 DEF Lists
  <2>4. Remains(l, c2, 1, V)
    BY <1>2, <2>2 DEF Remains
  <2> QED  BY <2>3, <2>4, <1>1
<1>4. CASE ~Past(l)
  <2>1. c2 = l
    BY <1>1, <1>4 DEF Shorter
  <2>2. Remains(l, c2, 0, V)
    BY <1>2, <2>1 DEF Remains
  <2> QED  BY <2>1, <2>2, <1>1
<1> QED  BY <1>3, <1>4

\* The call that is entered is the rank's last one, and its last one before it is now
\* the former one.
LEMMA LastIsNew ==
    ASSUME NEW V, NEW c \in Lists(V), NEW r \in Rank, NEW e \in V
    PROVE  LET d == Shorter(Longer(c, r, e)) IN
              /\ d \in Lists(V) /\ Len(d[r]) > 0 /\ Last(d, r) = e
              /\ Len(d[r]) > 1 => Len(c[r]) > 0 /\ Former(d, r) = Last(c, r)
<1>1. PICK l, d : l = Longer(c, r, e) /\ d = Shorter(l)
  OBVIOUS
<1>2. l \in Lists(V) /\ c[r] \in Seq(V) /\ l[r] = Append(c[r], e)
  BY <1>1, LongerIs
<1>3. PICK n \in Nat : n = Len(c[r])
  BY <1>2
<1>4. Len(l[r]) = n + 1 /\ l[r][n + 1] = e /\ \A k \in 1 .. n : l[r][k] = c[r][k]
  BY <1>2, <1>3
<1>5. PICK s \in {0, 1} : Remains(l, d, s, V)
  BY <1>1, <1>2, ShorterIs
<1>6. PICK m : m = Len(d[r])
  OBVIOUS
<1>7. /\ m \in Nat /\ n + 1 = m + s /\ (s = 1 => m > 0)
      /\ \A k \in 1 .. m : d[r][k] = l[r][k + s]
  <2>1. d[r] \in Seq(V)
    BY <1>5 DEF Remains
  <2>2. m \in Nat
    BY <1>6, <2>1
  <2> QED  BY <1>4, <1>5, <1>6, <2>2 DEF Remains
<1>8. m > 0 /\ d[r][m] = e
  <2>1. m \in 1 .. m
    BY <1>7
  <2> QED  BY <1>4, <1>7, <2>1
<1>9. ASSUME m > 1 PROVE n > 0 /\ d[r][m - 1] = c[r][n]
  <2>1. m - 1 \in 1 .. m /\ m - 1 + s = n /\ n \in 1 .. n
    BY <1>7, <1>9
  <2> QED  BY <1>4, <1>7, <2>1
<1> QED  BY <1>1, <1>2, <1>3, <1>6, <1>8, <1>9, ShorterIs DEF Last, Former

\* The last calls of the other ranks stay what they are.
LEMMA LastStays ==
    ASSUME NEW V, NEW c \in Lists(V), NEW r \in Rank, NEW e \in V, NEW q \in Rank, q # r
    PROVE  LET d == Shorter(Longer(c, r, e)) IN
              /\ Len(d[q]) > 0 <=> Len(c[q]) > 0
              /\ Len(d[q]) > 0 => Last(d, q) = Last(c, q)
              /\ Len(d[q]) > 1 => Len(c[q]) > 1 /\ Former(d, q) = Former(c, q)
<1>1. PICK l, d : l = Longer(c, r, e) /\ d = Shorter(l)
  OBVIOUS
<1>2. l \in Lists(V) /\ l[q] = c[q]
  BY <1>1, LongerIs
<1>3. PICK s \in {0, 1} : Remains(l, d, s, V)
  BY <1>1, <1>2, ShorterIs
<1>4. PICK m, n : m = Len(d[q]) /\ n = Len(c[q])
  OBVIOUS
<1>5. /\ m \in Nat /\ n \in Nat /\ n = m + s /\ (s = 1 => m > 0)
      /\ \A k \in 1 .. m : d[q][k] = c[q][k + s]
  <2>1. d[q] \in Seq(V) /\ c[q] \in Seq(V)
    BY <1>2, <1>3 DEF Remains
  <2>2. m \in Nat /\ n \in Nat
    BY <1>4, <2>1
  <2> QED  BY <1>2, <1>3, <1>4, <2>2 DEF Remains
<1>6. m > 0 <=> n > 0
  BY <1>5
<1>7. ASSUME m > 0 PROVE d[q][m] = c[q][n]
  <2>1. m \in 1 .. m
    BY <1>5, <1>7
  <2> QED  BY <1>5, <2>1
<1>8. ASSUME m > 1 PROVE n > 1 /\ d[q][m - 1] = c[q][n - 1]
  <2>1. m - 1 \in 1 .. m /\ m - 1 + s = n - 1
    BY <1>5, <1>8
  <2> QED  BY <1>5, <1>8, <2>1
<1> QED  BY <1>1, <1>4, <1>6, <1>7, <1>8 DEF Last, Former

-------------------------------------------------------------------------------
\* What the trace says.  No call is paired with another operation.
LEMMA TogetherMatches ==
    ASSUME NEW V, NEW c \in Lists(V), NEW waits, NEW h, NEW G, Together(c, waits, h, G),
           NEW q \in Rank, NEW r \in Rank, NEW k \in 1 .. Len(c[q]), k <= Len(c[r])
    PROVE  c[q][k].op = c[r][k].op
<1>1. PICK S : Trace(S, c, waits)
  BY DEF Together
<1>2. Len(c[q]) \in Nat /\ Len(c[r]) \in Nat
  <2>1. c[q] \in Seq(V) /\ c[r] \in Seq(V)
    BY DEF Lists
  <2> QED  BY <2>1
<1> QED  BY <1>1, <1>2, TraceMatches

\* The rank that is in a call, and those that have entered it, contributed what is
\* allowed in the place.
LEMMA TogetherTold ==
    ASSUME NEW V, NEW c \in Lists(V), NEW waits, NEW h, NEW G, Together(c, waits, h, G),
           NEW r \in Rank, waits[r], NEW q \in Rank, Len(c[q]) >= Len(c[r])
    PROVE  <<h[r], q, c[q][Len(c[r])].value>> \in G
<1>1. PICK S : /\ Trace(S, c, waits) /\ Told(S, c, G)
               /\ Here(S, c, waits, r) = h[r]
  BY DEF Together
<1>2. Len(c[q]) \in Nat /\ Len(c[r]) \in Nat
  <2>1. c[q] \in Seq(V) /\ c[r] \in Seq(V)
    BY DEF Lists
  <2> QED  BY <2>1
<1>3. At(c, waits, r) = Len(c[r]) /\ Len(c[r]) >= 1
  <2>1. At(c, waits, r) = Len(c[r]) /\ S \in Seq(Place) /\ At(c, waits, r) \in 1 .. Len(S)
    BY <1>1 DEF At, Trace
  <2> QED  BY <2>1
<1>4. S[Len(c[r])] = h[r] /\ Len(c[r]) \in 1 .. Len(c[q])
  BY <1>1, <1>2, <1>3 DEF Here
<1> QED  BY <1>1, <1>4 DEF Told

\* The four cases in one: rank r is in the call of its place, can leave it, and goes on to
\* place p, or it stands in place p already; it enters the call of p, or not.
LEMMA TogetherMoves ==
    ASSUME NEW V, NEW c \in Lists(V), NEW waits \in [Rank -> BOOLEAN], NEW h \in Paths, NEW G,
           Together(c, waits, h, G), Root \in Rank, NEW r \in Rank,
           NEW p \in Place, NEW l \in BOOLEAN, NEW c2,
           IF waits[r] THEN /\ Met(h[r], c, Len(c[r]))
                            /\ p = After(h[r], Result(h[r], c, Len(c[r])))
                       ELSE p = h[r],
           IF l THEN \E e \in V : /\ c2 = Shorter(Longer(c, r, e))
                                  /\ e.op = Op(p) /\ <<p, r, e.value>> \in G
                ELSE c2 = c
    PROVE  Together(c2, [waits EXCEPT ![r] = l], Moved(h, r, p), G)
<1>1. PICK w, g : w = [waits EXCEPT ![r] = l] /\ g = Moved(h, r, p)
  OBVIOUS
<1>2. h[r] \in Place /\ (p = h[r] => g = h)
  BY <1>1 DEF Moved, Paths
<1>3. CASE ~waits[r] /\ ~l
  <2>1. w = waits /\ g = h /\ c2 = c
    BY <1>1, <1>2, <1>3
  <2> QED  BY <1>1, <2>1
<1>4. CASE ~waits[r] /\ l
  <2>1. PICK e \in V : c2 = Shorter(Longer(c, r, e)) /\ e.op = Op(p) /\ <<p, r, e.value>> \in G
    BY <1>4
  <2>2. w = In(waits, r) /\ g = h /\ p = h[r]
    BY <1>1, <1>2, <1>4 DEF In
  <2>3. Together(Shorter(Longer(c, r, e)), In(waits, r), h, G)
    BY <1>4, <2>1, <2>2, TogetherEnters
  <2> QED  BY <1>1, <2>1, <2>2, <2>3
<1>5. CASE waits[r] /\ ~l
  <2>1. w = Out(waits, r) /\ c2 = c
    BY <1>1, <1>5 DEF Out
  <2>2. Together(c, Out(waits, r), Moved(h, r, p), G)
    BY <1>5, TogetherLeaves
  <2> QED  BY <1>1, <2>1, <2>2
<1>6. CASE waits[r] /\ l
  <2>1. PICK e \in V : c2 = Shorter(Longer(c, r, e)) /\ e.op = Op(p) /\ <<p, r, e.value>> \in G
    BY <1>6
  <2>2. w = waits
    BY <1>1, <1>6
  <2>3. Together(Shorter(Longer(c, r, e)), waits, Moved(h, r, p), G)
    BY <1>6, <2>1, TogetherGoesOn
  <2> QED  BY <1>1, <2>1, <2>2, <2>3
<1> QED  BY <1>3, <1>4, <1>5, <1>6

\* A rank that has not entered the call of its place, which nobody leaves without
\* it, is the foremost one; the others are with it, or still in the call before.
LEMMA Behind ==
    ASSUME NEW V, NEW c \in Lists(V), NEW waits, NEW h, NEW G, Together(c, waits, h, G),
           NEW r \in Rank, ~waits[r], Needs(h[r], r), NEW q \in Rank,
           \A p \in Place : \A v : After(p, v) = h[r] => Needs(p, q)
    PROVE  \/ h[q] = h[r]
           \/ /\ waits[q] /\ h[q] \in Place /\ Met(h[q], c, Len(c[q]))
              /\ h[r] = After(h[q], Result(h[q], c, Len(c[q])))
<1>1. PICK S : /\ Trace(S, c, waits)
               /\ \A x \in Rank : Here(S, c, waits, x) = h[x]
  BY DEF Together
<1>2. PICK m, n \in Nat : m = Len(c[q]) /\ n = Len(c[r])
  <2>1. c[q] \in Seq(V) /\ c[r] \in Seq(V)
    BY DEF Lists
  <2> QED  BY <2>1
<1>3. PICK i, j : i = At(c, waits, r) /\ j = At(c, waits, q)
  OBVIOUS
<1>4. i = n + 1 /\ (j = m \/ j = m + 1) /\ (j = m => waits[q])
  <2>1. m # m + 1
    BY <1>2
  <2> QED  BY <1>2, <1>3, <2>1 DEF At
<1>5. /\ S \in Seq(Place) /\ i \in 1 .. Len(S) /\ j \in 1 .. Len(S)
      /\ h[r] = S[i] /\ h[q] = S[j]
      /\ \A k \in 1 .. Len(S) - 1 :
            Met(S[k], c, k) /\ S[k + 1] = After(S[k], Result(S[k], c, k))
  BY <1>1, <1>3 DEF Trace, Here
<1>6. CASE j > i
  <2>1. Met(S[i], c, i)
    BY <1>4, <1>5, <1>6
  <2>2. n >= i
    BY <2>1, <1>2, <1>5 DEF Met, Needs
  <2> QED  BY <2>2, <1>4
<1>7. CASE j = i
  BY <1>5, <1>7
<1>8. CASE j < i
  <2>1. PICK k \in Nat : i = k + 1
    BY <1>4
  <2>2. k \in 1 .. Len(S) - 1 /\ S[k] \in Place
    BY <2>1, <1>5, <1>8
  <2>3. Met(S[k], c, k) /\ S[i] = After(S[k], Result(S[k], c, k))
    BY <2>1, <2>2, <1>5
  <2>4. Needs(S[k], q)
    BY <2>2, <2>3, <1>5
  <2>5. m >= k
    BY <2>3, <2>4, <1>2 DEF Met, Needs
  <2>6. j = k /\ m = k /\ waits[q]
    BY <2>1, <2>5, <1>4, <1>8
  <2> QED  BY <2>2, <2>3, <2>6, <1>2, <1>5
<1> QED  BY <1>4, <1>5, <1>6, <1>7, <1>8

\* When a rank can leave the call that it is in, and the next one is a call that
\* all wait for, the others that had to enter it are in it too or have left it, and
\* got no further than to the next one.
LEMMA Abreast ==
    ASSUME NEW V, NEW c \in Lists(V), NEW waits, NEW h, NEW G, Together(c, waits, h, G),
           NEW r \in Rank, waits[r], Met(h[r], c, Len(c[r])),
           Needs(After(h[r], Result(h[r], c, Len(c[r]))), r),
           NEW q \in Rank, Needs(h[r], q)
    PROVE  \/ h[q] = h[r] /\ waits[q] /\ Len(c[q]) = Len(c[r])
           \/ /\ h[q] = After(h[r], Result(h[r], c, Len(c[r])))
              /\ Len(c[q]) = IF waits[q] THEN Len(c[r]) + 1 ELSE Len(c[r])
<1>1. PICK S : /\ Trace(S, c, waits)
               /\ \A x \in Rank : Here(S, c, waits, x) = h[x]
  BY DEF Together
<1>2. PICK m, n \in Nat : m = Len(c[q]) /\ n = Len(c[r])
  <2>1. c[q] \in Seq(V) /\ c[r] \in Seq(V)
    BY DEF Lists
  <2> QED  BY <2>1
<1>3. PICK j : j = At(c, waits, q)
  OBVIOUS
<1>4. At(c, waits, r) = n /\ (j = m \/ j = m + 1) /\ (j = m => waits[q])
  <2>1. m # m + 1
    BY <1>2
  <2> QED  BY <1>2, <1>3, <2>1 DEF At
<1>5. /\ S \in Seq(Place) /\ n \in 1 .. Len(S) /\ j \in 1 .. Len(S)
      /\ h[r] = S[n] /\ h[q] = S[j]
      /\ \A k \in 1 .. Len(S) - 1 :
            Met(S[k], c, k) /\ S[k + 1] = After(S[k], Result(S[k], c, k))
  BY <1>1, <1>3, <1>4 DEF Trace, Here
<1>6. m >= n
  BY <1>2 DEF Met, Needs
<1>7. CASE j = n
  BY <1>2, <1>4, <1>5, <1>6, <1>7
<1>8. CASE j = n + 1
  <2>1. n \in 1 .. Len(S) - 1
    BY <1>5, <1>8
  <2>2. m = IF waits[q] THEN n + 1 ELSE n
    BY <1>2, <1>3, <1>8 DEF At
  <2> QED  BY <2>1, <2>2, <1>2, <1>5, <1>8
<1>9. CASE j > n + 1
  <2>1. n \in 1 .. Len(S) - 1 /\ n + 1 \in 1 .. Len(S) - 1
    BY <1>5, <1>9
  <2>2. Met(S[n + 1], c, n + 1) /\ S[n + 1] = After(h[r], Result(h[r], c, Len(c[r])))
    BY <2>1, <1>2, <1>5
  <2>3. n >= n + 1
    BY <2>2, <1>2 DEF Met, Needs
  <2> QED  BY <2>3
<1> QED  BY <1>4, <1>5, <1>6, <1>7, <1>8, <1>9

\* Where another rank is, seen from one that is in a call: in the same place, before it,
\* or behind it.  The place next to it is known in both directions, and a rank stands no
\* further off than the next call for which it or the other one is needed.
LEMMA Beside ==
    ASSUME NEW V, NEW c \in Lists(V), NEW waits, NEW h, NEW G, Together(c, waits, h, G),
           NEW q \in Rank, waits[q], NEW r \in Rank
    PROVE  \/ At(c, waits, r) = Len(c[q]) /\ h[r] = h[q]
           \/ /\ At(c, waits, r) < Len(c[q])
              /\ Needs(h[r], r) => waits[r]
              /\ \E p \in Place : \E v :
                    /\ h[q] = After(p, v)
                    /\ At(c, waits, r) = Len(c[q]) - 1 => h[r] = p
                    /\ Needs(p, r) => waits[r] /\ At(c, waits, r) = Len(c[q]) - 1
           \/ /\ At(c, waits, r) > Len(c[q])
              /\ \E p \in Place :
                    /\ p = After(h[q], Result(h[q], c, Len(c[q])))
                    /\ At(c, waits, r) = Len(c[q]) + 1 => h[r] = p
                    /\ Needs(p, q) => At(c, waits, r) = Len(c[q]) + 1
<1>1. PICK S : /\ Trace(S, c, waits)
               /\ \A x \in Rank : Here(S, c, waits, x) = h[x]
  BY DEF Together
<1>2. PICK m, n \in Nat : m = Len(c[r]) /\ n = Len(c[q])
  <2>1. c[q] \in Seq(V) /\ c[r] \in Seq(V)
    BY DEF Lists
  <2> QED  BY <2>1
<1>3. PICK j : j = At(c, waits, r)
  OBVIOUS
<1>4. At(c, waits, q) = n /\ (j = m \/ j = m + 1) /\ (j = m => waits[r])
  <2>1. m # m + 1
    BY <1>2
  <2> QED  BY <1>2, <1>3, <2>1 DEF At
<1>5. /\ S \in Seq(Place) /\ n \in 1 .. Len(S) /\ j \in 1 .. Len(S) /\ Len(S) \in Nat
      /\ h[r] = S[j] /\ h[q] = S[n]
      /\ \A k \in 1 .. Len(S) - 1 :
            Met(S[k], c, k) /\ S[k + 1] = After(S[k], Result(S[k], c, k))
  BY <1>1, <1>3, <1>4 DEF Trace, Here
<1>6. CASE j = n
  BY <1>2, <1>3, <1>5, <1>6
<1>7. CASE j < n
  <2>1. PICK k \in Nat : n = k + 1
    <3>1. n - 1 \in Nat /\ n = (n - 1) + 1
      BY <1>5, <1>7
    <3> QED  BY <3>1
  <2>2. k \in 1 .. Len(S) - 1 /\ S[k] \in Place /\ j \in 1 .. Len(S) - 1
    BY <2>1, <1>5, <1>7
  <2>3. Met(S[k], c, k) /\ S[n] = After(S[k], Result(S[k], c, k)) /\ Met(S[j], c, j)
    BY <2>1, <2>2, <1>5
  <2>4. j = k => h[r] = S[k]
    BY <1>5
  <2>5. ASSUME Needs(S[k], r) PROVE waits[r] /\ j = k
    <3>1. m >= k
      BY <2>3, <2>5, <1>2 DEF Met, Needs
    <3> QED  BY <3>1, <2>1, <1>4, <1>5, <1>7
  <2>6. ASSUME Needs(h[r], r) PROVE waits[r]
    <3>1. m >= j
      BY <2>3, <2>6, <1>2, <1>5 DEF Met, Needs
    <3> QED  BY <3>1, <1>4
  <2>7. n - 1 = k
    BY <2>1
  <2> QED  BY <2>2, <2>3, <2>4, <2>5, <2>6, <2>7, <1>2, <1>3, <1>5, <1>7
<1>8. CASE j > n
  <2>1. n \in 1 .. Len(S) - 1 /\ n + 1 \in 1 .. Len(S) /\ S[n + 1] \in Place
    BY <1>5, <1>8
  <2>2. S[n + 1] = After(S[n], Result(S[n], c, n))
    BY <2>1, <1>5
  <2>3. ASSUME Needs(S[n + 1], q) PROVE j = n + 1
    <3>1. CASE j > n + 1
      <4>1. n + 1 \in 1 .. Len(S) - 1
        BY <1>5, <3>1
      <4>2. n >= n + 1
        BY <4>1, <2>3, <1>2, <1>5 DEF Met, Needs
      <4> QED  BY <4>2
    <3> QED  BY <3>1, <1>5, <1>8
  <2> QED  BY <2>1, <2>2, <2>3, <1>2, <1>3, <1>5, <1>8
<1> QED  BY <1>4, <1>5, <1>6, <1>7, <1>8

\* Ranks in the same call, or before it, are in the same place.
LEMMA SameSpot ==
    ASSUME NEW c, NEW waits, NEW h, NEW G, Together(c, waits, h, G),
           NEW q \in Rank, NEW r \in Rank, At(c, waits, q) = At(c, waits, r)
    PROVE  h[q] = h[r]
BY DEF Together, Here

\* A rank is behind another one: then it is in a call that all the ranks have entered, if
\* it is one for which they wait.
LEMMA Trailing ==
    ASSUME NEW V, NEW c \in Lists(V), NEW waits, NEW h, NEW G, Together(c, waits, h, G),
           NEW q \in Rank, NEW r \in Rank, At(c, waits, q) < At(c, waits, r),
           How(h[q]) \notin {"none", "root"}
    PROVE  waits[q] /\ \A x \in Rank : Len(c[x]) >= Len(c[q])
<1>1. PICK S : Trace(S, c, waits) /\ Here(S, c, waits, q) = h[q]
  BY DEF Together
<1>2. PICK n \in Nat : n = Len(c[q])
  <2>1. c[q] \in Seq(V)
    BY DEF Lists
  <2> QED  BY <2>1
<1>3. PICK i, j : i = At(c, waits, q) /\ j = At(c, waits, r)
  OBVIOUS
<1>4. /\ Len(S) \in Nat /\ i \in 1 .. Len(S) /\ j \in 1 .. Len(S) /\ i < j
      /\ h[q] = S[i] /\ \A k \in 1 .. Len(S) - 1 : Met(S[k], c, k)
  BY <1>1, <1>3 DEF Trace, Here
<1>5. i \in 1 .. Len(S) - 1
  BY <1>4
<1>6. \A x \in Rank : Len(c[x]) >= i
  <2>1. Met(h[q], c, i)
    BY <1>4, <1>5
  <2> QED  BY <2>1 DEF Met
<1>7. n >= i /\ (i = n \/ i = n + 1) /\ (i = n => waits[q])
  <2>1. n # n + 1
    BY <1>2
  <2> QED  BY <1>2, <1>3, <1>6, <2>1 DEF At
<1>8. i = n /\ waits[q]
  BY <1>2, <1>7
<1> QED  BY <1>2, <1>6, <1>8

-------------------------------------------------------------------------------
\* A set of numbers that are not larger than n has a largest one.
LEMMA LargestExists ==
    ASSUME NEW n \in Nat, NEW V, V \subseteq 0 .. n, V # {}
    PROVE  \E v \in V : \A w \in V : w <= v
<1> DEFINE Less == {ss \in Nat \X Nat : ss[1] < ss[2]}
           Gaps == {n - v : v \in V}
<1>1. IsWellFoundedOn(Less, Nat)
  BY NatLessThanWellFounded DEF OpToRel
<1>2. Gaps \subseteq Nat /\ Gaps # {}
  <2>1. \A v \in V : n - v \in Nat
    OBVIOUS
  <2> QED  BY <2>1
<1>3. PICK g \in Gaps : \A x \in Gaps : <<x, g>> \notin Less
  BY <1>1, <1>2, WFMin
<1>4. \A x \in Gaps : ~(x < g)
  BY <1>2, <1>3
<1>5. PICK v \in V : g = n - v
  OBVIOUS
<1>6. ASSUME NEW w \in V PROVE w <= v
  <2>1. ~(n - w < n - v)
    BY <1>4, <1>5
  <2>2. w \in Int /\ v \in Int
    OBVIOUS
  <2> QED  BY <2>1, <2>2
<1> QED  BY <1>6

\* The largest value of a call is one of those contributed, and none is larger.
LEMMA GreatestIsLargest ==
    ASSUME NEW n \in Nat, NEW V, V \subseteq 0 .. n, V # {}
    PROVE  Greatest(V) \in V /\ \A w \in V : w <= Greatest(V)
BY LargestExists DEF Greatest

===============================================================================
