---------------------------- MODULE JointOutput ----------------------------
(***************************************************************************)
(* What CommandPipeline promises about the joint commands it lets out,     *)
(* whatever goes on inside: an output is offered once, as a whole.  Offers *)
(* are numbered; a new one takes the place of those it shares a joint      *)
(* with, any may be withdrawn at any time, and none outlives the           *)
(* permission.  Publishing uses an offer up, on all of its joints at once: *)
(* a Move of two arms never moves one of them alone, no joint goes back to *)
(* an older output, and nothing is published that has been withdrawn, not  *)
(* even on the joints its successor does not use.                          *)
(*                                                                         *)
(* The code has no offers.  It keeps a permit for each joint and a list of *)
(* commands, changed at different times by different threads               *)
(* (publication_permits_ and PipelineTick::commands in                     *)
(* src/motion/command_pipeline.cpp).                                       *)
(***************************************************************************)
EXTENDS Integers

CONSTANTS Joint, NoOutput

VARIABLES
  enabled,     \* may anything be published
  offers,      \* outputs that may be published: session, token, joints
  next_token,  \* every later offer has this token or a higher one
  output       \* joint -> session and token of what was published last

vars == <<enabled, offers, next_token, output>>

Init ==
  /\ enabled = TRUE
  /\ offers = {}
  /\ next_token = 1
  /\ output = [j \in Joint |-> NoOutput]

Offer(o) ==
  /\ enabled
  /\ o.token >= next_token
  /\ next_token' = o.token + 1
  /\ offers' = {p \in offers : p.joints \cap o.joints = {}} \cup {o}
  /\ UNCHANGED <<enabled, output>>

\* Tokens may be used up by outputs that are never offered.
Withdraw ==
  /\ offers' \subseteq offers
  /\ next_token' >= next_token
  /\ UNCHANGED <<enabled, output>>

Permit ==
  /\ offers' \subseteq offers
  /\ ~enabled' => offers' = {}
  /\ enabled' \in BOOLEAN
  /\ UNCHANGED <<next_token, output>>

Publish(P) ==
  /\ enabled
  /\ output' = [j \in Joint |->
                  IF \E o \in P : j \in o.joints
                    THEN LET o == CHOOSE o \in P : j \in o.joints
                         IN  [session |-> o.session, token |-> o.token]
                    ELSE output[j]]
  /\ offers' \subseteq offers \ P
  /\ UNCHANGED <<enabled, next_token>>

Next ==
  \/ \E o \in offers' : Offer(o)
  \/ Withdraw
  \/ Permit
  \/ \E P \in SUBSET offers : Publish(P)

Spec == Init /\ [][Next]_vars
=============================================================================
