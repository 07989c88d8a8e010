----------------------------- MODULE HaloExchange -----------------------------
(***************************************************************************)
(* The exchange of ghost cells between the subdomains of CommJUPITER:      *)
(* communication() of jupiter/communication.c, and sync_label_halo() of    *)
(* jupiter/multi_layer.c, which does the same for labels.                  *)
(*                                                                         *)
(* A local array has stm ghost layers below the cells of a rank and stp    *)
(* above.  In each of the directions z, y and x a rank packs the layers    *)
(* next to its two neighbours, posts a send and a receive for each, waits  *)
(* for them, and unpacks what has come.  A layer spans the whole local     *)
(* array in the other two directions: the cells of edges and corners get   *)
(* to a rank in two or three hops, provided that each direction has been   *)
(* unpacked before the next one is packed.                                 *)
(*                                                                         *)
(* The value of a cell is the number of the call it was computed for, and  *)
(* the place in the whole domain that it was computed for.                 *)
(***************************************************************************)
EXTENDS Decomposition, Sequences

CONSTANTS
    Routine,    \* the routines considered: of "communication", "sync_label_halo"
    CallBound   \* model bound: the number of calls

ASSUME RoutineAssumption == Routine \subseteq {"communication", "sync_label_halo"}
ASSUME BoundAssumption == CallBound \in Nat \ {0}

-------------------------------------------------------------------------------
(* Cells of the local array, and where they lie in the domain. *)
stp == stm + 1
Local == (0 .. stm + nx + stp - 1) \X (0 .. stm + ny + stp - 1) \X (0 .. stm + nz + stp - 1)
Owned == {c \in Local : \A a \in Axis : c[a] \in stm .. stm + Extent[a] - 1}
Global(r, c) == [a \in Axis |-> Place(r)[a] * Extent[a] + c[a] - stm]
InDomain(g) == \A a \in Axis : g[a] \in 0 .. Ranks[a] * Extent[a] - 1

\* stm layers: where they are packed from and unpacked to, at each side.
Layers(a) == {c \in Local : c[a] < stm}
PackFrom(s) == IF s[2] = -1 THEN stm ELSE Extent[s[1]]
UnpackTo(s) == IF s[2] = -1 THEN 0 ELSE Extent[s[1]] + stm

Blank == <<0, <<0, 0, 0>>>>

\* The pairs of a rank and a neighbour of it.
Links == {<<x[1], nrk(x[1], x[2])>> : x \in {y \in Rank \X Side : HasNeighbour(y[1], y[2])}}

VARIABLES
    routine,    \* which one the ranks call
    f,          \* the field on each rank
    call,       \* how many calls a rank has begun
    at,         \* "compute", "post", "wait" or "barrier"
    axis,       \* the direction a rank is at
    sbuff,      \* what is packed for each side
    sending,    \* the sides whose MPI_Isend has not completed
    rbuff,      \* what has been received from each side (sync_label_halo() keeps it)
    wire        \* messages between two ranks, all with the receiver's rank as tag

vars == <<routine, f, call, at, axis, sbuff, sending, rbuff, wire>>

Init ==
    /\ routine \in Routine
    /\ f = [r \in Rank |-> [c \in Local |-> Blank]]
    /\ call = [r \in Rank |-> 0]
    /\ at = [r \in Rank |-> "compute"]
    /\ axis = [r \in Rank |-> 3]
    /\ sbuff = [r \in Rank |-> [s \in Side |-> <<>>]]
    /\ sending = [r \in Rank |-> {}]
    /\ rbuff = [r \in Rank |-> [s \in Side |-> <<>>]]
    /\ wire = [p \in Links |-> <<>>]

-------------------------------------------------------------------------------
\* The rank has computed its own cells and calls the exchange.
Compute(r) ==
    /\ at[r] = "compute" /\ call[r] < CallBound
    /\ call' = [call EXCEPT ![r] = @ + 1]
    /\ f' = [f EXCEPT ![r] = [c \in Local |->
                IF c \in Owned THEN <<call[r] + 1, Global(r, c)>> ELSE @[c]]]
    /\ at' = [at EXCEPT ![r] = "post"]
    /\ UNCHANGED <<routine, axis, sbuff, sending, rbuff, wire>>

Slab(r, s) == [c \in Layers(s[1]) |-> f[r][Shifted(c, s[1], PackFrom(s))]]

\* pack_mpi_*() and mpi_isend_irecv_*() for one direction.  MPI may keep a copy of what
\* is sent, and then the send is over at once; or it waits for the receiver.
Post(r) ==
    LET sides == Neighbours(r, axis[r])
        To(p) == {s \in sides : p = <<r, nrk(r, s)>>}
    IN /\ at[r] = "post"
       /\ sbuff' = [sbuff EXCEPT ![r] = [s \in Side |-> IF s \in sides THEN Slab(r, s) ELSE @[s]]]
       /\ \/ /\ wire' = [p \in DOMAIN wire |->
                             IF To(p) = {} THEN wire[p]
                             ELSE Append(wire[p], Slab(r, CHOOSE s \in To(p) : TRUE))]
             /\ UNCHANGED sending
          \/ /\ sending' = [sending EXCEPT ![r] = @ \cup sides]
             /\ UNCHANGED wire
       /\ at' = [at EXCEPT ![r] = "wait"]
       /\ UNCHANGED <<routine, f, call, axis, rbuff>>

\* Mutant: a rank receives only when its own sends are over, as with MPI_Send.
TransferBlocking(r, s) ==
    LET q == nrk(r, s)
    IN /\ s \in sending[r]
       /\ at[q] = "wait" /\ axis[q] = s[1] /\ sending[q] = {}
       /\ wire' = [wire EXCEPT ![<<r, q>>] = Append(@, sbuff[r][s])]
       /\ sending' = [sending EXCEPT ![r] = @ \ {s}]
       /\ UNCHANGED <<routine, f, call, at, axis, sbuff, rbuff>>

\* Without a copy MPI reads the send buffer once the receive has been posted.
Transfer(r, s) ==
    LET q == nrk(r, s)
    IN /\ s \in sending[r]
       /\ at[q] = "wait" /\ axis[q] = s[1]
       /\ wire' = [wire EXCEPT ![<<r, q>>] = Append(@, sbuff[r][s])]
       /\ sending' = [sending EXCEPT ![r] = @ \ {s}]
       /\ UNCHANGED <<routine, f, call, at, axis, sbuff, rbuff>>

\* f with the layers of some sides unpacked; of two slabs that hold a cell, the one
\* of the later direction stays.
Unpacked(old, buffer, sides) ==
    LET Holding(c) == {s \in sides : c[s[1]] - UnpackTo(s) \in 0 .. stm - 1}
        Latest(c) == CHOOSE s \in Holding(c) : \A t \in Holding(c) : s[1] <= t[1]
    IN [c \in Local |->
          IF Holding(c) = {} THEN old[c]
          ELSE LET s == Latest(c) IN buffer[s][Shifted(c, s[1], -UnpackTo(s))]]

\* Mutant: the directions are not unpacked before the last.
UnpackedAtEnd(r, a) == IF a = 1 THEN {s \in Side : HasNeighbour(r, s)} ELSE {}

\* What is unpacked when the receives of axis a have completed.
UnpackedAt(r, a) ==
    IF routine = "communication" THEN Neighbours(r, a)
    ELSE IF a = 1 THEN {s \in Side : HasNeighbour(r, s)} ELSE {}

\* z, y, x.  Mutant: not started afresh.
NextAxisOnce(a) == a - 1
NextAxis(a) == IF a = 1 THEN 3 ELSE a - 1

\* MPI_Wait for all that has been posted, then unpack_mpi_*() and the next direction.
Wait(r) ==
    LET a == axis[r]
        buffer == [s \in Side |->
                     IF s \in Neighbours(r, a) THEN Head(wire[<<nrk(r, s), r>>]) ELSE rbuff[r][s]]
    IN /\ at[r] = "wait"
       /\ sending[r] = {}
       /\ \A s \in Neighbours(r, a) : wire[<<nrk(r, s), r>>] # <<>>
       /\ wire' = [p \in DOMAIN wire |->
                     IF p[2] = r /\ \E s \in Neighbours(r, a) : p[1] = nrk(r, s)
                     THEN Tail(wire[p]) ELSE wire[p]]
       /\ rbuff' = [rbuff EXCEPT ![r] = buffer]
       /\ f' = [f EXCEPT ![r] = Unpacked(@, buffer, UnpackedAt(r, a))]
       /\ axis' = [axis EXCEPT ![r] = NextAxis(a)]
       /\ at' = [at EXCEPT ![r] = IF a > 1 THEN "post"
                                  ELSE IF routine = "communication" THEN "barrier"
                                  ELSE "compute"]
       /\ UNCHANGED <<routine, call, sbuff, sending>>

\* A rank is at the barrier of its k-th call, or has passed it.
Arrived(q, k) == call[q] > k \/ (call[q] = k /\ at[q] \in {"barrier", "compute"})

\* Mutant: the barrier is gone.
PassBarrierAlone(r) ==
    /\ at[r] = "barrier"
    /\ at' = [at EXCEPT ![r] = "compute"]
    /\ UNCHANGED <<routine, f, call, axis, sbuff, sending, rbuff, wire>>

\* MPI_Barrier.
PassBarrier(r) ==
    /\ at[r] = "barrier"
    /\ \A q \in Rank : Arrived(q, call[r])
    /\ at' = [at EXCEPT ![r] = "compute"]
    /\ UNCHANGED <<routine, f, call, axis, sbuff, sending, rbuff, wire>>

Ended == \A r \in Rank : at[r] = "compute" /\ call[r] = CallBound
Terminated == Ended /\ UNCHANGED vars

RankStep(r) == Compute(r) \/ Post(r) \/ Wait(r) \/ PassBarrier(r)

Next ==
    \/ \E r \in Rank : RankStep(r)
    \/ \E r \in Rank, s \in Side : Transfer(r, s)
    \/ Terminated

\* Each rank goes on, and MPI makes progress with what has been posted.
Fairness ==
    /\ \A r \in Rank : WF_vars(RankStep(r))
    /\ \A r \in Rank, s \in Side : WF_vars(Transfer(r, s))

Spec == Init /\ [][Next]_vars
FairSpec == Spec /\ Fairness

-------------------------------------------------------------------------------
(***************************************************************************)
(* Properties.                                                             *)
(***************************************************************************)
\* Every variable stays in its type; only sides with a neighbour are ever sent to.
TypeOK ==
    /\ routine \in {"communication", "sync_label_halo"}
    /\ \A r \in Rank : \A c \in Local :
          f[r][c] \in (0 .. CallBound) \X (Int \X Int \X Int)
    /\ call \in [Rank -> 0 .. CallBound]
    /\ at \in [Rank -> {"compute", "post", "wait", "barrier"}]
    /\ axis \in [Rank -> Axis]
    /\ \A r \in Rank : sending[r] \subseteq {s \in Side : HasNeighbour(r, s)}

\* The distance of a cell from the cells of the rank, in layers.
Depth(c, a) == IF c[a] < stm THEN stm - c[a]
               ELSE IF c[a] < stm + Extent[a] THEN 0 ELSE c[a] - (stm + Extent[a]) + 1
InHalo(c) == \A a \in Axis : Depth(c, a) <= stm
OnFace(c) == Cardinality({a \in Axis : Depth(c, a) > 0}) <= 1

Returned(r) == call[r] > 0 /\ at[r] \in {"barrier", "compute"}

\* The cells of the halo a call fills: sync_label_halo() packs every direction before it
\* unpacks any, and fills the faces only.
Filled(c) == InHalo(c) /\ (routine = "sync_label_halo" => OnFace(c))

\* After a call every cell of the halo that lies in the domain, on faces, edges and
\* corners of communication(), is the cell its owner has computed for this call,
\* whatever the order in which ranks and messages come, and although no barrier keeps
\* a neighbour in sync_label_halo() from being in its next call already.
HaloCurrent ==
    \A r \in Rank : Returned(r) =>
        \A c \in Local : (Filled(c) /\ InDomain(Global(r, c))) =>
            f[r][c] = <<call[r], Global(r, c)>>

\* All messages between two ranks have the same tag: when a rank returns from
\* communication(), no message of this call or an earlier one is left that a later
\* receive could take.
NoMessageOutlivesCall ==
    \A r \in Rank : (routine = "communication" /\ call[r] > 0 /\ at[r] = "compute") =>
        \A p \in DOMAIN wire : call[p[1]] <= call[r] => wire[p] = <<>>

\* Every rank returns from every call: no order of the waits makes ranks wait for one
\* another in a circle.
Finishes == <>Ended
===============================================================================
