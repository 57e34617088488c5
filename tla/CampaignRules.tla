--------------------------- MODULE CampaignRules ---------------------------
(***************************************************************************)
(* The pure lifecycle rules of backend/campaign: the campaign status       *)
(* graph, the two edit gates, the recipient statuses and the transient     *)
(* retry ladder.  No state; every module of the campaign engine uses them. *)
(***************************************************************************)
EXTENDS Naturals

CampaignStatus ==
  {"draft", "scheduled", "running", "paused", "completed", "cancelled", "failed"}

TerminalStatus == {"completed", "cancelled", "failed"}

IsTerminal(s) == s \in TerminalStatus

\* The edges CanTransition allows.
Transitions ==
  ({"draft"} \X {"scheduled", "running", "cancelled"})
    \cup ({"scheduled"} \X {"running", "cancelled"})
    \cup ({"running"} \X {"paused", "cancelled", "completed", "failed"})
    \cup ({"paused"} \X {"running", "cancelled"})

CanTransition(from, to) == <<from, to>> \in Transitions

CanEditContent(sentCount) == sentCount = 0

CanEditPacing(s) == s \in {"draft", "scheduled", "paused"}

RecipientStatus == {"pending", "sending", "sent", "failed", "skipped"}

\* NextRetry's second result: attempt n still has a rung on a ladder of the
\* given length (the code's TransientBackoff has three).
HasRetry(n, ladder) == n >= 1 /\ n <= ladder
=============================================================================
