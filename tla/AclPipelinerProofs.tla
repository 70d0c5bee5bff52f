------------------------- MODULE AclPipelinerProofs -------------------------
(* For every set of devices, objectives and applications: reloading this   *)
(* application never takes discovery away.                                 *)
EXTENDS AclPipeliner, TLAPS

(* Why it holds: rules and group belong to who asked for them, and that is *)
(* never this application.                                                 *)
RulePerWish == \A x \in wanted : <<x[1], x[2], IssuedBy[x[2]]>> \in acl
GroupPerWish == \A x \in wanted : x[1] \in withdrawn \/ cloneGroup[x[1]] # NoGroup
NotOurs == \A d \in Dev : cloneGroup[d] # OwnApp

Owned == /\ wanted \subseteq Dev \X Objective
         /\ cloneGroup \in [Dev -> App \cup {NoGroup}]
         /\ RulePerWish /\ GroupPerWish /\ NotOurs

(* The objectives are issued by other applications.                        *)
LEMMA IssuersAreOthers ==
  ASSUME NEW o \in Objective
  PROVE  IssuedBy[o] \in App /\ IssuedBy[o] # OwnApp /\ IssuedBy[o] # NoGroup
BY PipelinerTyped DEF App

(* Adding an objective installs rule and group in its issuer's name.       *)
LEMMA AddKeepsOwned ==
  ASSUME NEW d \in Dev, NEW o \in Objective, Owned, ForwardAdd(d, o)
  PROVE  Owned'
<1>1. IssuedBy[o] \in App /\ IssuedBy[o] # OwnApp /\ IssuedBy[o] # NoGroup
  BY IssuersAreOthers
<1>2. /\ wanted' = wanted \cup {<<d, o>>} /\ withdrawn' = withdrawn
      /\ acl' = acl \cup {<<d, o, IssuedBy[o]>>}
      /\ cloneGroup' = [cloneGroup EXCEPT
                          ![d] = IF @ = NoGroup THEN IssuedBy[o] ELSE @]
  BY DEF ForwardAdd
<1>3. cloneGroup' \in [Dev -> App \cup {NoGroup}] /\ wanted' \subseteq Dev \X Objective
  BY <1>1, <1>2 DEF Owned
<1>4. RulePerWish'
  BY <1>2 DEF Owned, RulePerWish
<1>5. cloneGroup'[d] # NoGroup /\ cloneGroup'[d] # OwnApp
  BY <1>1, <1>2 DEF Owned, NotOurs
<1>6. \A e \in Dev \ {d} : cloneGroup'[e] = cloneGroup[e]
  BY <1>2 DEF Owned
<1>7. GroupPerWish'
  BY <1>2, <1>5, <1>6 DEF Owned, GroupPerWish
<1>8. NotOurs'
  BY <1>5, <1>6 DEF Owned, NotOurs
<1>. QED  BY <1>3, <1>4, <1>7, <1>8 DEF Owned

(* A withdrawal takes the group of its device, which is then marked.       *)
LEMMA RemoveKeepsOwned ==
  ASSUME NEW d \in Dev, NEW o \in Objective, Owned, ForwardRemove(d, o)
  PROVE  Owned'
<1>1. /\ wanted' = wanted \ {<<d, o>>} /\ withdrawn' = withdrawn \cup {d}
      /\ acl' = acl \ {<<d, o, IssuedBy[o]>>}
      /\ cloneGroup' = [cloneGroup EXCEPT ![d] = NoGroup]
  BY DEF ForwardRemove
<1>2. cloneGroup' \in [Dev -> App \cup {NoGroup}] /\ wanted' \subseteq Dev \X Objective
  BY <1>1 DEF Owned
<1>3. RulePerWish'
  <2>. SUFFICES ASSUME NEW x \in wanted'
                PROVE  <<x[1], x[2], IssuedBy[x[2]]>> \in acl'
    BY DEF RulePerWish
  <2>1. x \in wanted /\ x # <<d, o>> /\ x \in Dev \X Objective
    BY <1>1 DEF Owned
  <2>2. x[1] # d \/ x[2] # o
    BY <2>1
  <2>. QED  BY <1>1, <2>1, <2>2 DEF Owned, RulePerWish
<1>4. \A e \in Dev \ {d} : cloneGroup'[e] = cloneGroup[e]
  BY <1>1 DEF Owned
<1>5. GroupPerWish'
  BY <1>1, <1>4 DEF Owned, GroupPerWish
<1>6. OwnApp # NoGroup
  BY PipelinerTyped DEF App
<1>7. NotOurs'
  BY <1>1, <1>4, <1>6 DEF Owned, NotOurs
<1>. QED  BY <1>2, <1>3, <1>5, <1>7 DEF Owned

(* The clean-up takes only what is this application's.                     *)
LEMMA CleanUpKeepsOwned == Owned /\ CleanUp => Owned'
<1>. SUFFICES ASSUME Owned, CleanUp PROVE Owned'
  OBVIOUS
<1>1. cloneGroup' = cloneGroup
  BY DEF CleanUp, Owned, NotOurs
<1>2. RulePerWish'
  <2>. SUFFICES ASSUME NEW x \in wanted
                PROVE  <<x[1], x[2], IssuedBy[x[2]]>> \in acl'
    BY DEF RulePerWish, CleanUp
  <2>1. x[2] \in Objective /\ <<x[1], x[2], IssuedBy[x[2]]>> \in acl
    BY DEF Owned, RulePerWish
  <2>2. IssuedBy[x[2]] # OwnApp
    BY <2>1, IssuersAreOthers
  <2>. QED  BY <2>1, <2>2 DEF CleanUp
<1>. QED  BY <1>1, <1>2 DEF CleanUp, Owned, GroupPerWish, NotOurs

-----------------------------------------------------------------------------
(* In every execution: what other applications asked to be sent to the     *)
(* controller is sent (PipelinerImpl.forward, MainComponent.cleanUp), but  *)
(* for the switches an objective was withdrawn from.                       *)
THEOREM DiscoveryAlwaysSurvives == Spec => []DiscoverySurvives
<1>1. Init => Owned
  <2>1. NoGroup # OwnApp
    BY PipelinerTyped DEF App
  <2>. QED  BY <2>1 DEF Init, Owned, RulePerWish, GroupPerWish, NotOurs
<1>2. Owned /\ [Next]_vars => Owned'
  <2>. SUFFICES ASSUME Owned, [Next]_vars PROVE Owned'
    OBVIOUS
  <2>1. ASSUME NEW d \in Dev, NEW o \in Objective, ForwardAdd(d, o)
        PROVE  Owned'
    BY <2>1, AddKeepsOwned
  <2>2. ASSUME NEW d \in Dev, NEW o \in Objective, ForwardRemove(d, o)
        PROVE  Owned'
    BY <2>2, RemoveKeepsOwned
  <2>3. ASSUME NEW d \in Dev, NEW o \in Objective, ForwardNull(d, o)
        PROVE  Owned'
    BY <2>3 DEF ForwardNull, Owned, RulePerWish, GroupPerWish, NotOurs
  <2>4. CASE CleanUp
    BY <2>4, CleanUpKeepsOwned
  <2>5. CASE UNCHANGED vars
    BY <2>5 DEF vars, Owned, RulePerWish, GroupPerWish, NotOurs
  <2>. QED  BY <2>1, <2>2, <2>3, <2>4, <2>5 DEF Next
<1>3. Owned => DiscoverySurvives
  <2>. SUFFICES ASSUME Owned, NEW x \in wanted, x[1] \notin withdrawn
                PROVE  Punts(x[1], x[2])
    BY DEF DiscoverySurvives
  <2>1. x[2] \in Objective /\ <<x[1], x[2], IssuedBy[x[2]]>> \in acl
    BY DEF Owned, RulePerWish
  <2>2. IssuedBy[x[2]] \in App
    BY <2>1, IssuersAreOthers
  <2>3. cloneGroup[x[1]] # NoGroup
    BY DEF Owned, GroupPerWish
  <2>. QED  BY <2>1, <2>2, <2>3 DEF Punts
<1>. QED  BY <1>1, <1>2, <1>3, PTL DEF Spec
=============================================================================
