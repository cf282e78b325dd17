----------------------------- MODULE Lifecycle -----------------------------
(***************************************************************************)
(* What a connector promises about a command, whatever happens to its      *)
(* connection: created and sent (pending), called back once, then          *)
(* destroyed.  doc/ROADMAP.md, P0 playbook, step 3: "created -> queued ->  *)
(* callback-called -> destroyed"; where a pending command waits, in a      *)
(* connection's reply list or in the retry queue, is not visible here.     *)
(***************************************************************************)
CONSTANT Cmds

VARIABLE life         \* the stage of each command's life

LifeInit == life = [c \in Cmds |-> "none"]

Exec(c) ==
  life[c] = "none" /\ life' = [life EXCEPT ![c] = "pending"]

CallBack(c) ==
  life[c] = "pending" /\ life' = [life EXCEPT ![c] = "called"]

Destroy(c) ==
  life[c] = "called" /\ life' = [life EXCEPT ![c] = "destroyed"]

LifeNext == \E c \in Cmds : Exec(c) \/ CallBack(c) \/ Destroy(c)

Spec == LifeInit /\ [][LifeNext]_life
=============================================================================
