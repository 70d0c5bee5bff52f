---------------------------- MODULE AclPipeliner ----------------------------
(***************************************************************************)
(* PipelinerImpl: how forwarding objectives of the ONOS applications       *)
(* become entries of the ACL table and the clone group that leads to the   *)
(* controller, and what the clean-up of this application does to them.     *)
(* All objectives of a device share one group, under one key.              *)
(***************************************************************************)
EXTENDS Naturals

CONSTANTS
  Dev,           \* devices
  Objective,     \* forwarding objectives
  IssuedBy,      \* objective -> the application that issues it
  Treatment,     \* objective -> "cpu", "other" or "null"
  OwnApp,        \* this application, org.p4.srv6_usid
  NoGroup,       \* not an application
  MaxRemovals    \* bound: objectives withdrawn

App == {IssuedBy[o] : o \in Objective} \cup {OwnApp}

ASSUME PipelinerTyped ==
  /\ IssuedBy \in [Objective -> App \ {OwnApp}]
  /\ Treatment \in [Objective -> {"cpu", "other", "null"}]
  /\ NoGroup \notin App /\ MaxRemovals \in Nat

VARIABLES
  acl,           \* <<device, objective, application of the rule>>
  cloneGroup,    \* device -> application of group 99, NoGroup if absent
  answers,       \* <<device, objective, what its context was told>>
  wanted,        \* <<device, objective>> added and not withdrawn
  removals,      \* counter for the bound
  withdrawn      \* devices an objective was withdrawn from

vars == <<acl, cloneGroup, answers, wanted, removals, withdrawn>>

Init ==
  /\ acl = {} /\ answers = {} /\ wanted = {}
  /\ cloneGroup = [d \in Dev |-> NoGroup]
  /\ removals = 0 /\ withdrawn = {}

-----------------------------------------------------------------------------
HasCloneToCpuAction(o) == Treatment[o] = "cpu"

Told(d, o) ==
  (IF HasCloneToCpuAction(o) THEN {} ELSE {<<d, o, "error">>})
    \cup {<<d, o, "success">>}

(* Seeded fault: rule and group are made in the name of this application. *)
ForwardAddAsOwn(d, o) ==
  /\ Treatment[o] # "null"
  /\ acl' = acl \cup {<<d, o, OwnApp>>}
  /\ cloneGroup' = [cloneGroup EXCEPT ![d] = IF @ = NoGroup THEN OwnApp ELSE @]
  /\ answers' = answers \cup Told(d, o)
  /\ wanted' = wanted \cup {<<d, o>>}
  /\ UNCHANGED <<removals, withdrawn>>

(* forward, case ADD.  An existing group stays as it is.                   *)
ForwardAdd(d, o) ==
  /\ Treatment[o] # "null"
  /\ acl' = acl \cup {<<d, o, IssuedBy[o]>>}
  /\ cloneGroup' = [cloneGroup EXCEPT
                      ![d] = IF @ = NoGroup THEN IssuedBy[o] ELSE @]
  /\ answers' = answers \cup Told(d, o)
  /\ wanted' = wanted \cup {<<d, o>>}
  /\ UNCHANGED <<removals, withdrawn>>

(* forward, case REMOVE: the group goes, whoever else needs it.            *)
ForwardRemove(d, o) ==
  /\ <<d, o>> \in wanted /\ removals < MaxRemovals
  /\ acl' = acl \ {<<d, o, IssuedBy[o]>>}
  /\ cloneGroup' = [cloneGroup EXCEPT ![d] = NoGroup]
  /\ answers' = answers \cup Told(d, o)
  /\ wanted' = wanted \ {<<d, o>>}
  /\ removals' = removals + 1 /\ withdrawn' = withdrawn \cup {d}

(* No treatment: onError, then the next line throws.                       *)
ForwardNull(d, o) ==
  /\ Treatment[o] = "null"
  /\ answers' = answers \cup {<<d, o, "error">>}
  /\ UNCHANGED <<acl, cloneGroup, wanted, removals, withdrawn>>

(* MainComponent.cleanUp: what belongs to this application.                *)
CleanUp ==
  /\ acl' = {r \in acl : r[3] # OwnApp}
  /\ cloneGroup' = [d \in Dev |->
       IF cloneGroup[d] = OwnApp THEN NoGroup ELSE cloneGroup[d]]
  /\ UNCHANGED <<answers, wanted, removals, withdrawn>>

Next ==
  \/ \E d \in Dev, o \in Objective :
       ForwardAdd(d, o) \/ ForwardRemove(d, o) \/ ForwardNull(d, o)
  \/ CleanUp

Spec == Init /\ [][Next]_vars

-----------------------------------------------------------------------------
(* Properties *)

(* The switch sends the controller what objective o selects. *)
Punts(d, o) == /\ \E a \in App : <<d, o, a>> \in acl
               /\ cloneGroup[d] # NoGroup

(***************************************************************************)
(* Reloading this application never takes host or link discovery away:     *)
(* what other applications asked a switch to send to the controller is     *)
(* sent, as long as nothing was withdrawn from that switch.                *)
(***************************************************************************)
DiscoverySurvives ==
  \A x \in wanted : x[1] \in withdrawn \/ Punts(x[1], x[2])
=============================================================================
