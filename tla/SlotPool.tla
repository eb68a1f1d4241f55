------------------------------ MODULE SlotPool ------------------------------
(***************************************************************************)
(* What an expert cache promises its users, with no policy in it: a slot   *)
(* is leased to the users that hold its expert, an expert has one slot,    *)
(* and a slot changes expert only when nobody holds it.  A claimed slot    *)
(* cannot be given up by its last holder before its weights are filled in. *)
(***************************************************************************)
CONSTANTS
  Users,     (* holders of expert handles                                  *)
  Ids,       (* experts                                                    *)
  Slots,     (* places an expert's weights can be in                       *)
  Home,      (* for each expert, the slots it may occupy                   *)
  None       (* no expert                                                  *)

VARIABLES
  content,   (* the expert of each slot, or None                           *)
  filled,    (* whether its weights are there                              *)
  holders    (* the users that hold it                                     *)

poolVars == <<content, filled, holders>>

Init ==
  /\ content = [s \in Slots |-> None]
  /\ filled  = [s \in Slots |-> FALSE]
  /\ holders = [s \in Slots |-> {}]

(* A resident expert is shared: filled or still being filled.              *)
Share(u, s) ==
  /\ content[s] # None
  /\ holders' = [holders EXCEPT ![s] = @ \union {u}]
  /\ UNCHANGED <<content, filled>>

(* An absent expert takes an unheld slot of its own.                       *)
Claim(u, i, s) ==
  /\ s \in Home[i]
  /\ \A t \in Slots : content[t] # i
  /\ holders[s] = {}
  /\ content' = [content EXCEPT ![s] = i]
  /\ filled'  = [filled EXCEPT ![s] = FALSE]
  /\ holders' = [holders EXCEPT ![s] = {u}]

Fill(s) ==
  /\ holders[s] # {}
  /\ ~filled[s]
  /\ filled' = [filled EXCEPT ![s] = TRUE]
  /\ UNCHANGED <<content, holders>>

Drop(u, s) ==
  /\ u \in holders[s]
  /\ filled[s] \/ holders[s] # {u}
  /\ holders' = [holders EXCEPT ![s] = @ \ {u}]
  /\ UNCHANGED <<content, filled>>

Next ==
  \E s \in Slots :
    \/ Fill(s)
    \/ \E u \in Users :
         \/ Share(u, s)
         \/ Drop(u, s)
         \/ \E i \in Ids : Claim(u, i, s)

Spec == Init /\ [][Next]_poolVars
=============================================================================
