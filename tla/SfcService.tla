----------------------------- MODULE SfcService -----------------------------
(***************************************************************************)
(* What service function chaining promises, with no switch, header or      *)
(* table in sight: a packet submitted to the network is carried until it   *)
(* has been through every function it is owed, in order; only then may it  *)
(* arrive, and only at a host it is meant for.  The network may lose it,   *)
(* and may copy it to reach several hosts.                                 *)
(***************************************************************************)
EXTENDS Naturals, Sequences

CONSTANTS
  Packets,    \* what can be submitted
  Owed,       \* Owed[o]: the functions packet o has to visit, in order
  MeantFor    \* MeantFor[o]: the hosts packet o is for

VARIABLES
  submitted,
  carried,    \* copies under way: a packet and the functions it still needs
  arrived     \* <<host, packet>>

ServiceInit == submitted = {} /\ carried = {} /\ arrived = {}

Submit(o) ==
  /\ o \notin submitted
  /\ submitted' = submitted \cup {o}
  /\ carried' = carried \cup {[o |-> o, todo |-> Owed[o]]}
  /\ UNCHANGED arrived

(* A copy is served by at most one function; then copies of it go on, or   *)
(* arrive when nothing is owed any more, or both, or neither: it is lost.  *)
Carry(c, served) ==
  LET t == SubSeq(c.todo, served + 1, Len(c.todo))
  IN  /\ served <= Len(c.todo)
      /\ carried \ {c} \subseteq carried'
      /\ carried' \subseteq carried \cup {[o |-> c.o, todo |-> t]}
      /\ arrived \subseteq arrived'
      /\ arrived' \ arrived \subseteq
           {<<h, c.o>> : h \in IF t = << >> THEN MeantFor[c.o] ELSE {}}
      /\ UNCHANGED submitted

ServiceNext ==
  \/ \E c \in carried : \E served \in {0, 1} : Carry(c, served)
  \/ \E o \in Packets : Submit(o)

ServiceSpec == ServiceInit /\ [][ServiceNext]_<<submitted, carried, arrived>>
=============================================================================
