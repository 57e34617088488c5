------------------------------- MODULE Outbox -------------------------------
(***************************************************************************)
(* What delivery promises about the messages sent from xchats, whatever    *)
(* happens to queues, workers, webhooks and the process: a reply is stored *)
(* before it is handed over, it is handed to the provider once or never,   *)
(* the state it shows only moves up, nothing but a failure is shown of a   *)
(* message the provider never took, and a message that came back as an     *)
(* echo is never shown as sent a second time.                              *)
(***************************************************************************)
EXTENDS Naturals

CONSTANT Out

VARIABLES
  shown,   \* the state of each message in its conversation
  handed,  \* times the provider took it
  mirror   \* the state of the row its echo made, or "none"

vars == <<shown, handed, mirror>>

\* What may be shown after each state.
Above == [none |-> {}, queued |-> {"sent", "delivered", "read", "failed"},
          sent |-> {"delivered", "read", "failed"}, delivered |-> {"read", "failed"},
          read |-> {"failed"}, failed |-> {}]

Init ==
  /\ shown = [m \in Out |-> "none"] /\ mirror = [m \in Out |-> "none"]
  /\ handed = [m \in Out |-> 0]

Compose(m) ==
  /\ shown[m] = "none" /\ shown' = [shown EXCEPT ![m] = "queued"]
  /\ UNCHANGED <<handed, mirror>>

HandOver(m) ==
  /\ shown[m] = "queued" /\ handed[m] = 0
  /\ handed' = [handed EXCEPT ![m] = 1]
  /\ UNCHANGED <<shown, mirror>>

\* The answer to the hand-over, or a report of the provider.
Learn(m, st) ==
  /\ st \in Above[shown[m]]
  /\ st # "failed" => handed[m] = 1 /\ mirror[m] = "none"
  /\ shown' = [shown EXCEPT ![m] = st]
  /\ UNCHANGED <<handed, mirror>>

\* The provider's echo of a message no answer came for, or not yet.
Mirror(m) ==
  /\ handed[m] = 1 /\ mirror[m] = "none" /\ shown[m] \in {"queued", "failed"}
  /\ mirror' = [mirror EXCEPT ![m] = "sent"]
  /\ UNCHANGED <<shown, handed>>

LearnOfMirror(m, st) ==
  /\ st \in Above[mirror[m]]
  /\ mirror' = [mirror EXCEPT ![m] = st]
  /\ UNCHANGED <<shown, handed>>

Next == \E m \in Out :
  \/ Compose(m) \/ HandOver(m) \/ Mirror(m)
  \/ \E st \in {"sent", "delivered", "read", "failed"} : Learn(m, st) \/ LearnOfMirror(m, st)

Spec == Init /\ [][Next]_vars
=============================================================================
