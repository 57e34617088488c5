-------------------------- MODULE AutomationProofs --------------------------
(***************************************************************************)
(* What holds of the debounced auto-reply for every set of chats and       *)
(* workers, every buffer, attempt cap and combination of operations and    *)
(* faults.                                                                 *)
(***************************************************************************)
EXTENDS Automation, FiniteSetTheorems, SequenceTheorems, TLAPS

----------------------------------------------------------------------------
(* The inductive invariant.                                                 *)

\* A worker past its first read holds a job.
WorkersHoldJobs == \A w \in Workers : pc[w] # "idle" => cur[w] \in JobIds

\* Who may still come to reply: the owners and those whose generation failed.
Held == Owning \cup {"failed"}

\* The ids in use are the ones handed out so far.
IdsAreMade ==
  /\ \A id \in JobIds : Exists(id) => id[2] <= made[id[1]]
  /\ \A w \in Workers : pc[w] # "idle" => cur[w][2] <= made[cur[w][1]]

\* A held row is 'processing', and held once, until recovery takes it for dead.
HoldersOwn ==
  /\ \A w \in Workers : pc[w] \in Held /\ cur[w] \notin rerun /\ Exists(cur[w]) =>
       jobs[cur[w]].st = "processing"
  /\ \A v, w \in Workers : v # w /\ pc[v] \in Held /\ pc[w] \in Held /\ cur[v] = cur[w] =>
       cur[v] \in rerun

\* A job that may still reply has not.
CanStillReply(id) ==
  \/ id[2] > made[id[1]]
  \/ Exists(id) /\ jobs[id].st = "pending"
  \/ \E w \in Workers : pc[w] \in Held \ {"insert"} /\ cur[w] = id
NotYetReplied == \A id \in JobIds : id \notin rerun /\ CanStillReply(id) => replies[id] = 0

\* Draft indices point into the chat's drafts.
DraftsExist ==
  /\ \A ch \in Chats : approving[ch] <= Len(drafts[ch])
  /\ \A w \in Workers : pc[w] \in {"autosend", "insert"} =>
       seen[w].draft \in DOMAIN drafts[cur[w][1]]

\* Suggestions of one chat, pairwise the same.
Suggested(ch) == {i \in DOMAIN drafts[ch] : drafts[ch][i].st = "suggested"}
SuggestionsAgree == \A ch \in Chats \ sendFailed : \A i, j \in Suggested(ch) : i = j

\* In a chat whose burst counter was never restarted no version is from the
\* future, and a generation of the current one has seen what armed it.
VersionsArePast ==
  /\ \A ch \in Chats : armedAt[ch] <= inbound[ch]
  /\ \A id \in JobIds : id[1] \notin restarted /\ Exists(id) => jobs[id].ver <= debounce[id[1]].ver
  /\ \A w \in Workers : pc[w] # "idle" /\ cur[w][1] \notin restarted =>
       /\ seen[w].ver <= debounce[cur[w][1]].ver
       /\ pc[w] = "write" /\ BurstIsCurrent(w) => seen[w].trig >= armedAt[cur[w][1]]

----------------------------------------------------------------------------
(* Draft lists.                                                             *)

\* A list rebuilt row by row is a list of the same length.
LEMMA RowByRow ==
  ASSUME NEW ds \in Seq(DraftRows), NEW es, DOMAIN es = DOMAIN ds, es = [i \in DOMAIN es |-> es[i]],
         \A i \in DOMAIN ds : es[i] \in DraftRows
  PROVE  es \in Seq(DraftRows) /\ Len(es) = Len(ds)
<1>1. Len(ds) \in Nat /\ DOMAIN ds = 1..Len(ds)
  BY LenProperties
<1>2. es \in [1..Len(ds) -> DraftRows]
  BY <1>1
<1>3. es \in Seq(DraftRows)
  BY <1>1, <1>2, SeqDef
<1> QED BY <1>1, <1>2, <1>3, LenProperties

\* The rows of a list are rows, at the places 1 to its length.
LEMMA DraftsAreRows ==
  ASSUME NEW ds \in Seq(DraftRows)
  PROVE  /\ Len(ds) \in Nat /\ DOMAIN ds = 1..Len(ds)
         /\ \A i \in DOMAIN ds : ds[i] \in DraftRows
BY LenProperties

\* Setting a row's message or its status changes that row only.
LEMMA RowSet ==
  ASSUME NEW ds \in Seq(DraftRows), NEW k \in Nat
  PROVE  /\ LET es == [ds EXCEPT ![k].msg = TRUE] IN
            /\ es \in Seq(DraftRows) /\ Len(es) = Len(ds)
            /\ \A i \in DOMAIN ds : es[i] = IF i = k THEN [ds[i] EXCEPT !.msg = TRUE] ELSE ds[i]
         /\ LET es == [ds EXCEPT ![k].st = "suggested"] IN
            /\ es \in Seq(DraftRows) /\ Len(es) = Len(ds)
            /\ \A i \in DOMAIN ds :
                 es[i] = IF i = k THEN [ds[i] EXCEPT !.st = "suggested"] ELSE ds[i]
<1>0. \A i \in DOMAIN ds : ds[i] \in DraftRows
  BY DraftsAreRows
<1>a. \A r \in DraftRows : /\ [r EXCEPT !.msg = TRUE] \in DraftRows
                           /\ [r EXCEPT !.st = "suggested"] \in DraftRows
  BY DEF DraftRows
<1>1. DEFINE es == [ds EXCEPT ![k].msg = TRUE]
<1>2. /\ DOMAIN es = DOMAIN ds /\ es = [i \in DOMAIN es |-> es[i]]
      /\ \A i \in DOMAIN ds : es[i] = IF i = k THEN [ds[i] EXCEPT !.msg = TRUE] ELSE ds[i]
  BY DraftsAreRows
<1>3. \A i \in DOMAIN ds : es[i] \in DraftRows
  BY <1>0, <1>a, <1>2
<1>4. es \in Seq(DraftRows) /\ Len(es) = Len(ds)
  <2> HIDE DEF es
  <2> QED BY <1>2, <1>3, RowByRow
<1>5. DEFINE fs == [ds EXCEPT ![k].st = "suggested"]
<1>6. /\ DOMAIN fs = DOMAIN ds /\ fs = [i \in DOMAIN fs |-> fs[i]]
      /\ \A i \in DOMAIN ds :
           fs[i] = IF i = k THEN [ds[i] EXCEPT !.st = "suggested"] ELSE ds[i]
  BY DraftsAreRows
<1>7. \A i \in DOMAIN ds : fs[i] \in DraftRows
  BY <1>0, <1>a, <1>6
<1>8. fs \in Seq(DraftRows) /\ Len(fs) = Len(ds)
  <2> HIDE DEF fs
  <2> QED BY <1>6, <1>7, RowByRow
<1> QED BY <1>2, <1>4, <1>6, <1>8

\* A new draft supersedes the suggestions before it and comes last.
LEMMA WithDraftRows ==
  ASSUME NEW ds \in Seq(DraftRows), NEW trig \in Nat
  PROVE  LET es == WithDraft(ds, trig) IN
         /\ es \in Seq(DraftRows) /\ Len(es) = Len(ds) + 1
         /\ \A i \in DOMAIN ds : es[i] =
              IF ds[i].st = "suggested" THEN [ds[i] EXCEPT !.st = "superseded"] ELSE ds[i]
         /\ es[Len(ds) + 1] = Draft(trig)
<1> DEFINE fs == [i \in DOMAIN ds |-> IF ds[i].st = "suggested"
                                      THEN [ds[i] EXCEPT !.st = "superseded"] ELSE ds[i]]
<1>1. \A i \in DOMAIN ds : ds[i] \in DraftRows /\ fs[i] \in DraftRows
  BY DraftsAreRows DEF DraftRows
<1>2. fs \in Seq(DraftRows) /\ Len(fs) = Len(ds)
  BY <1>1, RowByRow
<1>3. Draft(trig) \in DraftRows
  BY DEF Draft, DraftRows
<1>4. WithDraft(ds, trig) = Append(fs, Draft(trig))
  BY DEF WithDraft
<1>5. \A i \in DOMAIN ds : fs[i] =
        IF ds[i].st = "suggested" THEN [ds[i] EXCEPT !.st = "superseded"] ELSE ds[i]
  OBVIOUS
<1> HIDE DEF fs
<1>6. /\ Append(fs, Draft(trig)) \in Seq(DraftRows)
      /\ Len(Append(fs, Draft(trig))) = Len(ds) + 1
      /\ Append(fs, Draft(trig))[Len(ds) + 1] = Draft(trig)
  BY <1>2, <1>3
<1>7. \A i \in DOMAIN ds : Append(fs, Draft(trig))[i] = fs[i]
  BY <1>2, <1>3, DraftsAreRows
<1> QED BY <1>4, <1>5, <1>6, <1>7

\* A claim marks its draft sent and leaves no suggestion beside it.
LEMMA ClaimedRows ==
  ASSUME NEW ds \in Seq(DraftRows), NEW k, NEW by \in {"nobody", "operator", "auto"}
  PROVE  LET es == Claimed(ds, k, by) IN
         /\ es \in Seq(DraftRows) /\ Len(es) = Len(ds)
         /\ \A i \in DOMAIN ds : es[i] =
              IF i = k THEN [ds[i] EXCEPT !.st = "sent", !.by = by]
              ELSE IF ds[i].st = "suggested" THEN [ds[i] EXCEPT !.st = "superseded"]
              ELSE ds[i]
<1>1. \A i \in DOMAIN ds : ds[i] \in DraftRows /\ Claimed(ds, k, by)[i] \in DraftRows
  BY DraftsAreRows DEF DraftRows, Claimed
<1> QED BY <1>1, RowByRow DEF Claimed

\* What the three writers of a list do to statuses and messages.
LEMMA WithDraftFacts ==
  ASSUME NEW ds \in Seq(DraftRows), NEW trig \in Nat, NEW es, es = WithDraft(ds, trig)
  PROVE  /\ Len(ds) \in Nat /\ DOMAIN ds = 1..Len(ds)
         /\ Len(es) = Len(ds) + 1 /\ DOMAIN es = 1..(Len(ds) + 1)
         /\ \A i \in DOMAIN ds :
              /\ es[i].st # "suggested" /\ es[i].msg = ds[i].msg
              /\ es[i].st = "sent" => ds[i].st = "sent"
         /\ es[Len(ds) + 1].st = "suggested"
<1>1. es[Len(ds) + 1].st = "suggested"
  <2>1. WithDraft(ds, trig)[Len(ds) + 1] = Draft(trig)
    BY WithDraftRows
  <2>2. Draft(trig).st = "suggested"
    BY DEF Draft
  <2> QED BY <2>1, <2>2
<1>2. ASSUME NEW i \in DOMAIN ds
      PROVE  /\ es[i].st # "suggested" /\ es[i].msg = ds[i].msg
             /\ es[i].st = "sent" => ds[i].st = "sent"
  <2>1. ds[i] \in DraftRows BY DraftsAreRows
  <2>2. es[i] = IF ds[i].st = "suggested" THEN [ds[i] EXCEPT !.st = "superseded"] ELSE ds[i]
    BY WithDraftRows
  <2> QED BY <2>1, <2>2 DEF DraftRows
<1> QED BY <1>1, <1>2, WithDraftRows, DraftsAreRows

LEMMA ClaimedFacts ==
  ASSUME NEW ds \in Seq(DraftRows), NEW k, NEW by \in {"nobody", "operator", "auto"},
         NEW es, es = Claimed(ds, k, by)
  PROVE  /\ Len(ds) \in Nat /\ Len(es) = Len(ds) /\ DOMAIN es = DOMAIN ds
         /\ \A i \in DOMAIN ds :
              /\ es[i].st # "suggested" /\ es[i].msg = ds[i].msg
              /\ es[i].st = "sent" => ds[i].st = "sent" \/ i = k
<1>1. ASSUME NEW i \in DOMAIN ds
      PROVE  /\ es[i].st # "suggested" /\ es[i].msg = ds[i].msg
             /\ es[i].st = "sent" => ds[i].st = "sent" \/ i = k
  <2>1. ds[i] \in DraftRows BY DraftsAreRows
  <2>2. es[i] = IF i = k THEN [ds[i] EXCEPT !.st = "sent", !.by = by]
                ELSE IF ds[i].st = "suggested" THEN [ds[i] EXCEPT !.st = "superseded"]
                ELSE ds[i]
    BY DEF Claimed
  <2> QED BY <2>1, <2>2 DEF DraftRows
<1>2. es \in Seq(DraftRows) /\ Len(es) = Len(ds)
  BY ClaimedRows
<1> QED BY <1>1, <1>2, DraftsAreRows

LEMMA MessageFacts ==
  ASSUME NEW ds \in Seq(DraftRows), NEW k \in Nat, NEW es, es = [ds EXCEPT ![k].msg = TRUE]
  PROVE  /\ Len(ds) \in Nat /\ Len(es) = Len(ds) /\ DOMAIN es = DOMAIN ds
         /\ \A i \in DOMAIN ds : es[i].st = ds[i].st /\ (ds[i].msg \/ i = k => es[i].msg)
<1>1. ASSUME NEW i \in DOMAIN ds
      PROVE  es[i].st = ds[i].st /\ (ds[i].msg \/ i = k => es[i].msg)
  <2>1. ds[i] \in DraftRows BY DraftsAreRows
  <2>2. es[i] = IF i = k THEN [ds[i] EXCEPT !.msg = TRUE] ELSE ds[i]
    BY RowSet
  <2> QED BY <2>1, <2>2 DEF DraftRows
<1>2. es \in Seq(DraftRows) /\ Len(es) = Len(ds)
  BY RowSet
<1> QED BY <1>1, <1>2, DraftsAreRows

\* Dismissing changes suggestions only.
LEMMA DismissedRows ==
  ASSUME NEW ds \in Seq(DraftRows)
  PROVE  LET es == [i \in DOMAIN ds |-> IF ds[i].st = "suggested"
                      THEN [ds[i] EXCEPT !.st = "dismissed"] ELSE ds[i]] IN
         es \in Seq(DraftRows) /\ Len(es) = Len(ds)
<1> DEFINE es == [i \in DOMAIN ds |-> IF ds[i].st = "suggested"
                      THEN [ds[i] EXCEPT !.st = "dismissed"] ELSE ds[i]]
<1>1. \A i \in DOMAIN ds : es[i] \in DraftRows
  BY DraftsAreRows DEF DraftRows
<1> QED BY <1>1, RowByRow

----------------------------------------------------------------------------
(* Types.                                                                   *)

StoreTyped ==
  /\ mode \in Modes
  /\ inbound \in [Chats -> Nat] /\ human \in [Chats -> Nat]
  /\ debounce \in [Chats -> DebounceRows]
  /\ jobs \in [JobIds -> JobRows \cup {NoJob}] /\ made \in [Chats -> 0..MaxJobs]
  /\ drafts \in [Chats -> Seq(DraftRows)]

WorkersTyped ==
  /\ pc \in [Workers -> WorkerPc]
  /\ cur \in [Workers -> JobIds \cup {NoJob}]
  /\ seen \in [Workers -> SeenRows]
  /\ WorkersHoldJobs

RestTyped ==
  /\ toCheck \in [Chats -> Nat] /\ toArm \in [Chats -> Nat]
  /\ feed \subseteq JobIds /\ queued \in [JobIds -> Nat]
  /\ manual \in [Chats -> SuggestRows]
  /\ approving \in [Chats -> Nat]
  /\ events \in Nat

HistoryTyped ==
  /\ armedAt \in [Chats -> Nat] /\ replies \in [JobIds -> Nat] /\ rerun \subseteq JobIds
  /\ restarted \subseteq Chats /\ forgotten \in [Chats -> Nat] /\ sendFailed \subseteq Chats

Typed == StoreTyped /\ WorkersTyped /\ RestTyped /\ HistoryTyped

LEMMA TypedIsTypeOK == Typed <=> TypeOK /\ WorkersHoldJobs
BY DEF Typed, StoreTyped, WorkersTyped, RestTyped, HistoryTyped, TypeOK

\* What is not touched keeps its type.
LEMMA Untouched ==
  /\ StoreTyped /\ UNCHANGED store => StoreTyped'
  /\ WorkersTyped /\ UNCHANGED <<pc, cur, seen>> => WorkersTyped'
  /\ RestTyped /\ UNCHANGED <<toCheck, toArm, feed, queued, manual, approving, events>> =>
       RestTyped'
  /\ HistoryTyped /\ UNCHANGED history => HistoryTyped'
BY DEF StoreTyped, WorkersTyped, RestTyped, HistoryTyped, store, history, WorkersHoldJobs

\* What is forgotten are messages.
LEMMA ForgetTyped ==
  ASSUME StoreTyped, HistoryTyped, NEW lost, Forget(lost) \/ UNCHANGED forgotten
  PROVE  forgotten' \in [Chats -> Nat]
<1>1. forgotten \in [Chats -> Nat] /\ \A ch \in Chats : Latest(ch) \in Nat
  BY DEF StoreTyped, HistoryTyped, Latest
<1>2. CASE Forget(lost)
  <2>1. \A ch \in Chats : (IF ch \in lost /\ debounce[ch].st # "pending" THEN Latest(ch)
                                                             ELSE forgotten[ch]) \in Nat
    BY <1>1
  <2> QED BY <1>2, <2>1 DEF Forget
<1> QED BY <1>1, <1>2

\* An id is a chat and a number.
LEMMA JobFacts ==
  /\ \A id \in JobIds : id[1] \in Chats /\ id[2] \in 1..MaxJobs /\ id = <<id[1], id[2]>>
  /\ \A ch \in Chats, n \in 1..MaxJobs : <<ch, n>> \in JobIds
BY DEF JobIds

\* What the actions write into a row is a row.
LEMMA RowEdits ==
  /\ NoRow \in DebounceRows /\ Nothing \in SeenRows /\ NoSuggest \in SuggestRows
  /\ \A r \in DebounceRows :
       /\ r.ver \in Nat
       /\ [r EXCEPT !.due = TRUE] \in DebounceRows /\ [r EXCEPT !.st = "claimed"] \in DebounceRows
  /\ \A n \in Nat :
       /\ [st |-> "pending", ver |-> n, due |-> FALSE] \in DebounceRows
       /\ [ver |-> n, st |-> "pending", attempts |-> 0, old |-> FALSE] \in JobRows
       /\ [st |-> "loaded", trig |-> n] \in SuggestRows
  /\ \A r \in JobRows :
       /\ r.ver \in Nat /\ r.attempts \in Nat
       /\ [r EXCEPT !.old = TRUE] \in JobRows /\ [r EXCEPT !.old = FALSE] \in JobRows
       /\ [r EXCEPT !.st = "pending"] \in JobRows /\ [r EXCEPT !.st = "processing"] \in JobRows
       /\ [r EXCEPT !.attempts = r.attempts + 1] \in JobRows
  /\ \A r \in SeenRows :
       /\ r.ver \in Nat /\ r.trig \in Nat /\ r.draft \in Nat
       /\ \A n \in Nat : /\ [r EXCEPT !.ver = n] \in SeenRows
                         /\ [r EXCEPT !.trig = n] \in SeenRows
                         /\ [r EXCEPT !.draft = n] \in SeenRows
       /\ \A b \in BOOLEAN : [r EXCEPT !.auto = b] \in SeenRows
  /\ \A r \in SuggestRows : r.trig \in Nat /\ [r EXCEPT !.st = "queued"] \in SuggestRows
<1>1. NoRow \in DebounceRows /\ Nothing \in SeenRows /\ NoSuggest \in SuggestRows
  BY DEF NoRow, Nothing, NoSuggest, DebounceRows, SeenRows, SuggestRows
<1>2. \A r \in DebounceRows :
        /\ r.ver \in Nat
        /\ [r EXCEPT !.due = TRUE] \in DebounceRows /\ [r EXCEPT !.st = "claimed"] \in DebounceRows
  BY DEF DebounceRows
<1>3. \A n \in Nat :
        /\ [st |-> "pending", ver |-> n, due |-> FALSE] \in DebounceRows
        /\ [ver |-> n, st |-> "pending", attempts |-> 0, old |-> FALSE] \in JobRows
        /\ [st |-> "loaded", trig |-> n] \in SuggestRows
  BY DEF DebounceRows, JobRows, SuggestRows
<1>4. \A r \in JobRows :
        /\ r.ver \in Nat /\ r.attempts \in Nat
        /\ [r EXCEPT !.old = TRUE] \in JobRows /\ [r EXCEPT !.old = FALSE] \in JobRows
        /\ [r EXCEPT !.st = "pending"] \in JobRows /\ [r EXCEPT !.st = "processing"] \in JobRows
        /\ [r EXCEPT !.attempts = r.attempts + 1] \in JobRows
  <2> SUFFICES ASSUME NEW r \in JobRows
               PROVE  /\ r.ver \in Nat /\ r.attempts \in Nat
                      /\ [r EXCEPT !.old = TRUE] \in JobRows /\ [r EXCEPT !.old = FALSE] \in JobRows
                      /\ [r EXCEPT !.st = "pending"] \in JobRows
                      /\ [r EXCEPT !.st = "processing"] \in JobRows
                      /\ [r EXCEPT !.attempts = r.attempts + 1] \in JobRows
    OBVIOUS
  <2>1. r.ver \in Nat /\ r.attempts \in Nat
    BY DEF JobRows
  <2>2. [r EXCEPT !.old = TRUE] \in JobRows /\ [r EXCEPT !.old = FALSE] \in JobRows
    BY DEF JobRows
  <2>3. [r EXCEPT !.st = "pending"] \in JobRows /\ [r EXCEPT !.st = "processing"] \in JobRows
    BY DEF JobRows
  <2>4. \A n \in Nat : [r EXCEPT !.attempts = n] \in JobRows
    BY DEF JobRows
  <2> QED BY <2>1, <2>2, <2>3, <2>4
<1>5. \A r \in SeenRows :
        /\ r.ver \in Nat /\ r.trig \in Nat /\ r.draft \in Nat
        /\ \A n \in Nat : /\ [r EXCEPT !.ver = n] \in SeenRows
                          /\ [r EXCEPT !.trig = n] \in SeenRows
                          /\ [r EXCEPT !.draft = n] \in SeenRows
        /\ \A b \in BOOLEAN : [r EXCEPT !.auto = b] \in SeenRows
  BY DEF SeenRows
<1>6. \A r \in SuggestRows : r.trig \in Nat /\ [r EXCEPT !.st = "queued"] \in SuggestRows
  BY DEF SuggestRows
<1> QED BY <1>1, <1>2, <1>3, <1>4, <1>5, <1>6, Zenon

\* Claiming and giving back a job rewrites its row only.
LEMMA JobWritten ==
  ASSUME jobs \in [JobIds -> JobRows \cup {NoJob}], NEW id \in JobIds, Exists(id)
  PROVE  /\ [jobs EXCEPT ![id].st = "processing", ![id].old = FALSE]
              \in [JobIds -> JobRows \cup {NoJob}]
         /\ [jobs EXCEPT ![id].attempts = @ + 1, ![id].st = "pending", ![id].old = FALSE]
              \in [JobIds -> JobRows \cup {NoJob}]
<1>1. jobs[id] \in JobRows
  BY DEF Exists
<1>2. [[jobs[id] EXCEPT !.st = "processing"] EXCEPT !.old = FALSE] \in JobRows
  BY <1>1, RowEdits
<1>3. [jobs EXCEPT ![id].st = "processing", ![id].old = FALSE]
        = [jobs EXCEPT ![id] = [[jobs[id] EXCEPT !.st = "processing"] EXCEPT !.old = FALSE]]
  OBVIOUS
<1>4. [[[jobs[id] EXCEPT !.attempts = jobs[id].attempts + 1] EXCEPT !.st = "pending"]
        EXCEPT !.old = FALSE] \in JobRows
  BY <1>1, RowEdits
<1>5. [jobs EXCEPT ![id].attempts = @ + 1, ![id].st = "pending", ![id].old = FALSE]
        = [jobs EXCEPT ![id] = [[[jobs[id] EXCEPT !.attempts = jobs[id].attempts + 1]
                                   EXCEPT !.st = "pending"] EXCEPT !.old = FALSE]]
  OBVIOUS
<1> QED BY <1>2, <1>3, <1>4, <1>5

\* The empty tables and the idle process have the types.
LEMMA InitTyped == Init => Typed
<1> SUFFICES ASSUME Init PROVE Typed
  OBVIOUS
<1>1. StoreTyped
  BY RowEdits, AutomationAssumption DEF Init, StoreTyped
<1>2. WorkersTyped
  BY RowEdits DEF Init, WorkersTyped, WorkersHoldJobs, WorkerPc
<1>3. RestTyped /\ HistoryTyped
  BY RowEdits DEF Init, RestTyped, HistoryTyped
<1> QED BY <1>1, <1>2, <1>3 DEF Typed

\* Ingest handlers, redeliveries, the debounce row.
LEMMA InboundTyped ==
  ASSUME Typed, NEW ch \in Chats,
         \/ Ingest(ch) \/ Rearm(ch) \/ Arming(ch) \/ DeadlinePasses(ch)
         \/ \E m \in 1..MaxInbound : ReenqueueMissingDraft(ch, m)
  PROVE  Typed'
<1> USE DEF Typed
<1>1. CASE Ingest(ch)
  <2>1. StoreTyped' BY <1>1 DEF Ingest, StoreTyped
  <2>2. RestTyped' BY <1>1 DEF Ingest, Event, RestTyped
  <2> QED BY <1>1, <2>1, <2>2, Untouched DEF Ingest
<1>2. ASSUME Rearm(ch) \/ \E m \in 1..MaxInbound : ReenqueueMissingDraft(ch, m) PROVE Typed'
  <2>1. RestTyped' BY <1>2 DEF Rearm, ReenqueueMissingDraft, Op, Event, RestTyped
  <2> QED BY <1>2, <2>1, Untouched DEF Rearm, ReenqueueMissingDraft
<1>4. CASE OnInboundMessage(ch)
  <2>1. RestTyped'
    <3>1. toCheck' \in [Chats -> Nat]
      BY <1>4 DEF OnInboundMessage, RestTyped
    <3>2. toArm' \in [Chats -> Nat] /\ events' \in Nat
      BY <1>4 DEF OnInboundMessage, Fault, Event, RestTyped
    <3> QED BY <1>4, <3>1, <3>2 DEF OnInboundMessage, RestTyped
  <2>2. forgotten' \in [Chats -> Nat]
    BY <1>4, ForgetTyped DEF OnInboundMessage
  <2>3. HistoryTyped' BY <1>4, <2>2 DEF OnInboundMessage, HistoryTyped
  <2> QED BY <1>4, <2>1, <2>3, Untouched DEF OnInboundMessage
<1>5. CASE ArmDebounce(ch)
  <2>0. debounce[ch].ver + 1 \in Nat
    <3>1. debounce[ch] \in DebounceRows BY DEF StoreTyped
    <3>2. debounce[ch].ver \in Nat BY <3>1, RowEdits
    <3> QED BY <3>2
  <2>1. debounce' \in [Chats -> DebounceRows]
    BY <1>5, <2>0, RowEdits DEF ArmDebounce, StoreTyped
  <2>2. StoreTyped' BY <1>5, <2>1 DEF ArmDebounce, StoreTyped
  <2>3. RestTyped'
    <3>1. toArm' \in [Chats -> Nat] /\ UNCHANGED <<toCheck, feed, queued, manual, approving>>
      BY <1>5 DEF ArmDebounce, RestTyped
    <3>2. events' \in Nat
      BY <1>5 DEF ArmDebounce, Fault, Event, RestTyped
    <3> QED BY <3>1, <3>2 DEF RestTyped
  <2>4. HistoryTyped'
    <3>1. forgotten' \in [Chats -> Nat]
      BY <1>5, ForgetTyped DEF ArmDebounce
    <3>2. armedAt' \in [Chats -> Nat]
      BY <1>5 DEF ArmDebounce, HistoryTyped, StoreTyped, Latest
    <3> QED BY <1>5, <3>1, <3>2 DEF ArmDebounce, HistoryTyped
  <2> QED BY <1>5, <2>2, <2>3, <2>4, Untouched DEF ArmDebounce
<1>6. CASE DeadlinePasses(ch)
  <2>1. debounce' \in [Chats -> DebounceRows] BY <1>6, RowEdits DEF DeadlinePasses, StoreTyped
  <2>2. StoreTyped' BY <1>6, <2>1 DEF DeadlinePasses, StoreTyped
  <2> QED BY <1>6, <2>2, Untouched DEF DeadlinePasses, process
<1> QED BY <1>1, <1>2, <1>4, <1>5, <1>6 DEF Arming

\* The scheduler's loop.
LEMMA LoopTyped ==
  ASSUME Typed, Loop \/ \E id \in JobIds : JobAges(id)
  PROVE  Typed'
<1> USE DEF Typed
<1>1. CASE ClaimDueDispatchJobs
  <2>1. made' \in [Chats -> 0..MaxJobs]
    <3>1. \A ch \in Due : made[ch] + 1 \in 0..MaxJobs
      BY <1>1, AutomationAssumption DEF ClaimDueDispatchJobs, Due, StoreTyped
    <3> QED BY <1>1, <3>1 DEF ClaimDueDispatchJobs, StoreTyped
  <2>2. debounce' \in [Chats -> DebounceRows]
    BY <1>1, RowEdits DEF ClaimDueDispatchJobs, StoreTyped
  <2>3. jobs' \in [JobIds -> JobRows \cup {NoJob}]
    <3>1. \A id \in JobIds : debounce[id[1]].ver \in Nat
      BY JobFacts, RowEdits DEF StoreTyped
    <3> QED BY <1>1, <3>1, RowEdits DEF ClaimDueDispatchJobs, StoreTyped
  <2>4. feed' \subseteq JobIds
    <3>1. \A ch \in Due : made[ch] + 1 \in 1..MaxJobs
      BY <1>1, AutomationAssumption DEF ClaimDueDispatchJobs, Due, StoreTyped
    <3> QED BY <1>1, <3>1 DEF ClaimDueDispatchJobs, Due, JobIds
  <2>5. StoreTyped' BY <1>1, <2>1, <2>2, <2>3 DEF ClaimDueDispatchJobs, StoreTyped
  <2>6. RestTyped' BY <1>1, <2>4 DEF ClaimDueDispatchJobs, RestTyped
  <2> QED BY <1>1, <2>5, <2>6, Untouched DEF ClaimDueDispatchJobs
<1>2. CASE RecoverDispatchJobs
  <2>1. jobs' \in [JobIds -> JobRows \cup {NoJob}]
    BY <1>2, RowEdits DEF RecoverDispatchJobs, RecoverableDispatchJobs, Exists, StoreTyped
  <2>2. feed' \subseteq JobIds /\ rerun' \subseteq JobIds
    BY <1>2 DEF RecoverDispatchJobs, RecoverableDispatchJobs, HistoryTyped
  <2>3. StoreTyped' BY <1>2, <2>1 DEF RecoverDispatchJobs, StoreTyped
  <2>4. RestTyped' /\ HistoryTyped'
    BY <1>2, <2>2 DEF RecoverDispatchJobs, RestTyped, HistoryTyped
  <2> QED BY <1>2, <2>3, <2>4, Untouched DEF RecoverDispatchJobs
<1>3. ASSUME NEW id \in JobIds, Enqueue(id) PROVE Typed'
  <2>1. RestTyped' BY <1>3 DEF Enqueue, Fault, Event, RestTyped
  <2> QED BY <1>3, <2>1, Untouched DEF Enqueue
<1>4. ASSUME NEW id \in JobIds, JobAges(id) PROVE Typed'
  <2>1. jobs' \in [JobIds -> JobRows \cup {NoJob}]
    BY <1>4, RowEdits DEF JobAges, Exists, StoreTyped
  <2>2. StoreTyped' BY <1>4, <2>1 DEF JobAges, StoreTyped
  <2>3. RestTyped' BY <1>4 DEF JobAges, Fault, Event, process, RestTyped
  <2> QED BY <1>4, <2>2, <2>3, Untouched DEF JobAges, process
<1> QED BY <1>1, <1>2, <1>3, <1>4 DEF Loop

\* A worker that leaves or goes on keeps its types.
LEMMA WorkerGoes ==
  ASSUME WorkersTyped, NEW w \in Workers, NEW to \in WorkerPc,
         \/ Leave(w)
         \/ Goto(w, to) /\ pc[w] # "idle" /\ UNCHANGED cur /\ seen' \in [Workers -> SeenRows]
  PROVE  WorkersTyped'
<1> USE DEF WorkersTyped, WorkersHoldJobs
<1>1. CASE Leave(w)
  <2>1. "idle" \in WorkerPc BY DEF WorkerPc
  <2> QED BY <1>1, <2>1, RowEdits DEF Leave
<1>2. CASE Goto(w, to) /\ pc[w] # "idle" /\ UNCHANGED cur /\ seen' \in [Workers -> SeenRows]
  BY <1>2 DEF Goto
<1> QED BY <1>1, <1>2

\* A dispatch worker.
LEMMA WorkerTyped ==
  ASSUME Typed, NEW w \in Workers, Run(w) \/ \E id \in JobIds : Take(w, id)
  PROVE  Typed'
<1> USE DEF Typed
<1>0. /\ pc[w] # "idle" => cur[w] \in JobIds /\ cur[w][1] \in Chats
      /\ seen \in [Workers -> SeenRows]
  BY JobFacts DEF WorkersTyped, WorkersHoldJobs
<1>a. /\ "idle" \in WorkerPc /\ "owned" \in WorkerPc /\ "claim" \in WorkerPc
      /\ "settings" \in WorkerPc /\ "load" \in WorkerPc /\ "write" \in WorkerPc
      /\ "autosend" \in WorkerPc /\ "insert" \in WorkerPc /\ "delete" \in WorkerPc
      /\ "failed" \in WorkerPc
  BY DEF WorkerPc
<1>b. \A id : DeleteJob(id) => jobs' \in [JobIds -> JobRows \cup {NoJob}]
  BY DEF DeleteJob, StoreTyped
<1>1. ASSUME NEW id \in JobIds, Take(w, id) PROVE Typed'
  <2>1. RestTyped' BY <1>1 DEF Take, Fault, Event, RestTyped
  <2>2. WorkersTyped'
    <3>1. CASE Exists(id) /\ ~UNCHANGED <<pc, cur, seen>>
      <4>1. jobs[id].ver \in Nat
        BY <3>1, RowEdits DEF Exists, StoreTyped
      <4>2. [seen[w] EXCEPT !.ver = jobs[id].ver] \in SeenRows
        BY <1>0, <4>1, RowEdits
      <4>3. seen' \in [Workers -> SeenRows] /\ cur' = [cur EXCEPT ![w] = id]
        BY <1>0, <1>1, <3>1, <4>2 DEF Take
      <4>4. pc' = [pc EXCEPT ![w] = "owned"] \/ pc' = [pc EXCEPT ![w] = "claim"]
        BY <1>1, <3>1 DEF Take, Goto
      <4> QED BY <1>a, <4>3, <4>4 DEF WorkersTyped, WorkersHoldJobs
    <3>2. CASE UNCHANGED <<pc, cur, seen>>
      BY <3>2, Untouched
    <3> QED BY <1>1, <3>1, <3>2 DEF Take
  <2> QED BY <1>1, <2>1, <2>2, Untouched DEF Take
<1>2. CASE CleanUpOwned(w)
  <2>1. jobs' \in [JobIds -> JobRows \cup {NoJob}]
    BY <1>2, <1>b DEF CleanUpOwned, StoreTyped
  <2>2. StoreTyped' BY <1>2, <2>1 DEF CleanUpOwned, StoreTyped
  <2>3. WorkersTyped' BY <1>2, <1>a, WorkerGoes DEF CleanUpOwned
  <2> QED BY <1>2, <2>2, <2>3, Untouched DEF CleanUpOwned
<1>3. CASE ClaimDispatchJob(w)
  <2>a. cur[w] \in JobIds /\ jobs \in [JobIds -> JobRows \cup {NoJob}]
    BY <1>0, <1>3 DEF ClaimDispatchJob, StoreTyped
  <2>1. jobs' \in [JobIds -> JobRows \cup {NoJob}]
    <3>1. CASE UNCHANGED jobs BY <2>a, <3>1
    <3>2. CASE /\ Exists(cur[w])
               /\ jobs' = [jobs EXCEPT ![cur[w]].st = "processing", ![cur[w]].old = FALSE]
      BY <2>a, <3>2, JobWritten
    <3> QED BY <1>3, <3>1, <3>2 DEF ClaimDispatchJob, Claimable
  <2>2. StoreTyped' BY <1>3, <2>1 DEF ClaimDispatchJob, StoreTyped
  <2>3. WorkersTyped' BY <1>0, <1>3, <1>a, WorkerGoes DEF ClaimDispatchJob
  <2>4. RestTyped' BY <1>3 DEF ClaimDispatchJob, Fault, Event, RestTyped
  <2> QED BY <1>3, <2>2, <2>3, <2>4, Untouched DEF ClaimDispatchJob
<1>4. CASE LoadSettings(w)
  <2>1. jobs' \in [JobIds -> JobRows \cup {NoJob}]
    BY <1>4, <1>b DEF LoadSettings, StoreTyped
  <2>2. StoreTyped' BY <1>4, <2>1 DEF LoadSettings, StoreTyped
  <2>3. WorkersTyped'
    <3>1. CASE mode = "off"
      BY <1>4, <1>a, <3>1, WorkerGoes DEF LoadSettings
    <3>2. CASE mode # "off"
      <4>a. [seen[w] EXCEPT !.auto = (mode = "scheduled_auto")] \in SeenRows
        BY <1>0, RowEdits
      <4>1. seen' \in [Workers -> SeenRows]
        BY <1>0, <1>4, <3>2, <4>a DEF LoadSettings
      <4> QED BY <1>4, <1>a, <3>2, <4>1, WorkerGoes DEF LoadSettings
    <3> QED BY <3>1, <3>2
  <2> QED BY <1>4, <2>2, <2>3, Untouched DEF LoadSettings
<1>5. CASE LoadForResponse(w)
  <2>1. Latest(cur[w][1]) \in Nat
    BY <1>0, <1>5 DEF LoadForResponse, Latest, StoreTyped
  <2>2. seen' \in [Workers -> SeenRows]
    BY <1>0, <1>5, <2>1, RowEdits DEF LoadForResponse
  <2>3. WorkersTyped' BY <1>5, <1>a, <2>2, WorkerGoes DEF LoadForResponse
  <2>4. RestTyped' BY <1>5 DEF LoadForResponse, RestTyped
  <2> QED BY <1>5, <2>3, <2>4, Untouched DEF LoadForResponse
<1>6. CASE WriteDraft(w)
  <2>0. /\ cur[w][1] \in Chats /\ drafts[cur[w][1]] \in Seq(DraftRows)
        /\ seen[w].trig \in Nat
    BY <1>0, <1>6, RowEdits DEF WriteDraft, StoreTyped
  <2>1. /\ WithDraft(drafts[cur[w][1]], seen[w].trig) \in Seq(DraftRows)
        /\ Len(drafts[cur[w][1]]) + 1 \in Nat
    BY <2>0, WithDraftRows, DraftsAreRows
  <2>2. drafts' \in [Chats -> Seq(DraftRows)]
    BY <1>6, <2>1 DEF WriteDraft, StoreTyped
  <2>a. [seen[w] EXCEPT !.draft = Len(drafts[cur[w][1]]) + 1] \in SeenRows
    BY <1>0, <2>1, RowEdits
  <2>3. seen' \in [Workers -> SeenRows]
    BY <1>0, <1>6, <2>a DEF WriteDraft
  <2>4. StoreTyped' BY <1>6, <2>2 DEF WriteDraft, StoreTyped
  <2>5. WorkersTyped' BY <1>6, <1>a, <2>3, WorkerGoes DEF WriteDraft
  <2>6. RestTyped' BY <1>6 DEF WriteDraft, RestTyped
  <2> QED BY <1>6, <2>4, <2>5, <2>6, Untouched DEF WriteDraft
<1>7. CASE ClaimDraftForAutoSend(w)
  <2>1. /\ cur[w] \in JobIds /\ cur[w][1] \in Chats /\ drafts[cur[w][1]] \in Seq(DraftRows)
    BY <1>0, <1>7 DEF ClaimDraftForAutoSend, StoreTyped
  <2>a. Claimed(drafts[cur[w][1]], seen[w].draft, "auto") \in Seq(DraftRows)
    BY <2>1, ClaimedRows
  <2>2. drafts' \in [Chats -> Seq(DraftRows)]
    BY <1>7, <2>a DEF ClaimDraftForAutoSend, StoreTyped
  <2>3. StoreTyped' BY <1>7, <2>2 DEF ClaimDraftForAutoSend, StoreTyped
  <2>4. HistoryTyped' BY <1>7, <2>1 DEF ClaimDraftForAutoSend, HistoryTyped
  <2>5. WorkersTyped' BY <1>0, <1>7, <1>a, WorkerGoes DEF ClaimDraftForAutoSend
  <2>6. RestTyped' BY <1>7 DEF ClaimDraftForAutoSend, RestTyped
  <2> QED BY <2>3, <2>4, <2>5, <2>6
<1>8. CASE DispatchSend(w)
  <2>1. /\ cur[w][1] \in Chats /\ drafts[cur[w][1]] \in Seq(DraftRows) /\ seen[w].draft \in Nat
    BY <1>0, <1>8, RowEdits DEF DispatchSend, StoreTyped
  <2>a. [drafts[cur[w][1]] EXCEPT ![seen[w].draft].msg = TRUE] \in Seq(DraftRows)
    BY <2>1, RowSet
  <2>2. drafts' \in [Chats -> Seq(DraftRows)]
    BY <1>8, <2>a DEF DispatchSend, StoreTyped
  <2>3. StoreTyped' BY <1>8, <2>2 DEF DispatchSend, StoreTyped
  <2>4. HistoryTyped' BY <1>8, <2>1 DEF DispatchSend, HistoryTyped
  <2>5. WorkersTyped' BY <1>0, <1>8, <1>a, WorkerGoes DEF DispatchSend
  <2>6. RestTyped' BY <1>8 DEF DispatchSend, Fault, Event, RestTyped
  <2> QED BY <2>3, <2>4, <2>5, <2>6
<1>9. CASE DeleteDispatchJob(w)
  <2>1. jobs' \in [JobIds -> JobRows \cup {NoJob}]
    BY <1>9, <1>b DEF DeleteDispatchJob, StoreTyped
  <2>2. StoreTyped' BY <1>9, <2>1 DEF DeleteDispatchJob, StoreTyped
  <2>3. WorkersTyped' BY <1>9, <1>a, WorkerGoes DEF DeleteDispatchJob
  <2>4. RestTyped' BY <1>9 DEF DeleteDispatchJob, Fault, Event, RestTyped
  <2> QED BY <1>9, <2>2, <2>3, <2>4, Untouched DEF DeleteDispatchJob
<1>10. CASE GenerationFails(w)
  <2>1. WorkersTyped' BY <1>0, <1>10, <1>a, WorkerGoes DEF GenerationFails
  <2>2. RestTyped' BY <1>10 DEF GenerationFails, Fault, Event, RestTyped
  <2> QED BY <1>10, <2>1, <2>2, Untouched DEF GenerationFails
<1>11. CASE GiveUpOrRetry(w)
  <2>a. cur[w] \in JobIds /\ jobs \in [JobIds -> JobRows \cup {NoJob}]
    BY <1>0, <1>11 DEF GiveUpOrRetry, StoreTyped
  <2>1. jobs' \in [JobIds -> JobRows \cup {NoJob}]
    <3>1. CASE UNCHANGED jobs BY <2>a, <3>1
    <3>2. CASE /\ Exists(cur[w])
               /\ jobs' = [jobs EXCEPT ![cur[w]].attempts = @ + 1, ![cur[w]].st = "pending",
                                       ![cur[w]].old = FALSE]
      BY <2>a, <3>2, JobWritten
    <3> QED BY <1>11, <3>1, <3>2 DEF GiveUpOrRetry
  <2>2. StoreTyped' BY <1>11, <2>1 DEF GiveUpOrRetry, StoreTyped
  <2>3. WorkersTyped' BY <1>0, <1>11, <1>a, WorkerGoes DEF GiveUpOrRetry
  <2>4. RestTyped' BY <1>11 DEF GiveUpOrRetry, Fault, Event, RestTyped
  <2>5. forgotten' \in [Chats -> Nat]
    BY <1>11, ForgetTyped DEF GiveUpOrRetry
  <2>6. HistoryTyped' BY <1>11, <2>5 DEF GiveUpOrRetry, HistoryTyped
  <2> QED BY <1>11, <2>2, <2>3, <2>4, <2>6, Untouched DEF GiveUpOrRetry
<1> QED BY <1>1, <1>2, <1>3, <1>4, <1>5, <1>6, <1>7, <1>8, <1>9, <1>10, <1>11 DEF Run

\* Operators and crashes.
LEMMA OperatorTyped ==
  ASSUME Typed,
         \/ \E ch \in Chats : \/ HumanReplies(ch) \/ ApproveSend(ch) \/ DismissDrafts(ch)
                             \/ Suggest(ch) \/ SuggestLoad(ch) \/ SuggestWrite(ch)
                             \/ \E i \in DOMAIN drafts[ch] : ApproveClaim(ch, i)
         \/ \E m \in Modes : SetAutomationSettings(m)
         \/ CrashRestart
  PROVE  Typed'
<1> USE DEF Typed
<1>0. ASSUME NEW ch \in Chats
      PROVE  drafts[ch] \in Seq(DraftRows) /\ approving[ch] \in Nat /\ manual[ch] \in SuggestRows
  BY <1>0 DEF StoreTyped, RestTyped
<1>1. ASSUME NEW ch \in Chats, HumanReplies(ch) PROVE Typed'
  <2>1. StoreTyped' BY <1>1 DEF HumanReplies, StoreTyped
  <2>2. RestTyped' BY <1>1 DEF HumanReplies, Op, Event, process, RestTyped
  <2> QED BY <1>1, <2>1, <2>2, Untouched DEF HumanReplies, process
<1>2. ASSUME NEW ch \in Chats, ApproveSend(ch) PROVE Typed'
  <2>1. /\ [drafts[ch] EXCEPT ![approving[ch]].msg = TRUE] \in Seq(DraftRows)
        /\ [drafts[ch] EXCEPT ![approving[ch]].st = "suggested"] \in Seq(DraftRows)
    BY <1>0, RowSet
  <2>2. drafts' \in [Chats -> Seq(DraftRows)]
    BY <1>2, <2>1 DEF ApproveSend, StoreTyped
  <2>3. StoreTyped' BY <1>2, <2>2 DEF ApproveSend, StoreTyped
  <2>4. RestTyped' BY <1>2 DEF ApproveSend, Fault, Event, RestTyped
  <2>5. HistoryTyped' BY <1>2 DEF ApproveSend, HistoryTyped
  <2> QED BY <1>2, <2>3, <2>4, <2>5, Untouched DEF ApproveSend
<1>3. ASSUME NEW ch \in Chats, DismissDrafts(ch) PROVE Typed'
  <2>1. drafts' \in [Chats -> Seq(DraftRows)]
    BY <1>0, <1>3, DismissedRows DEF DismissDrafts, StoreTyped
  <2>2. StoreTyped' BY <1>3, <2>1 DEF DismissDrafts, StoreTyped
  <2>3. RestTyped' BY <1>3 DEF DismissDrafts, Op, Event, process, RestTyped
  <2> QED BY <1>3, <2>2, <2>3, Untouched DEF DismissDrafts, process
<1>4. ASSUME NEW ch \in Chats, Suggest(ch) \/ SuggestLoad(ch) PROVE Typed'
  <2>1. inbound[ch] \in Nat BY DEF StoreTyped
  <2>2. /\ [manual[ch] EXCEPT !.st = "queued"] \in SuggestRows
        /\ [st |-> "loaded", trig |-> Latest(ch)] \in SuggestRows
    BY <1>0, <2>1, RowEdits DEF Latest
  <2>3. manual' \in [Chats -> SuggestRows]
    BY <1>4, <2>2 DEF Suggest, SuggestLoad, RestTyped
  <2>4. RestTyped' BY <1>4, <2>3 DEF Suggest, SuggestLoad, Op, Event, RestTyped
  <2> QED BY <1>4, <2>4, Untouched DEF Suggest, SuggestLoad
<1>5. ASSUME NEW ch \in Chats, SuggestWrite(ch) PROVE Typed'
  <2>1. WithDraft(drafts[ch], manual[ch].trig) \in Seq(DraftRows)
    BY <1>0, RowEdits, WithDraftRows
  <2>2. StoreTyped' BY <1>5, <2>1 DEF SuggestWrite, StoreTyped
  <2>3. RestTyped' BY <1>5, RowEdits DEF SuggestWrite, RestTyped
  <2> QED BY <1>5, <2>2, <2>3, Untouched DEF SuggestWrite
<1>6. ASSUME NEW ch \in Chats, NEW i \in DOMAIN drafts[ch], ApproveClaim(ch, i) PROVE Typed'
  <2>a. i \in Nat
    BY <1>0, DraftsAreRows
  <2>1. Claimed(drafts[ch], i, "operator") \in Seq(DraftRows)
    BY <1>0, ClaimedRows
  <2>2. StoreTyped' BY <1>6, <2>1 DEF ApproveClaim, StoreTyped
  <2>3. RestTyped' BY <1>6, <2>a DEF ApproveClaim, Op, Event, RestTyped
  <2> QED BY <1>6, <2>2, <2>3, Untouched DEF ApproveClaim
<1>7. ASSUME NEW m \in Modes, SetAutomationSettings(m) PROVE Typed'
  <2>1. debounce' \in [Chats -> DebounceRows] /\ jobs' \in [JobIds -> JobRows \cup {NoJob}]
    BY <1>7, RowEdits DEF SetAutomationSettings, StoreTyped
  <2>2. StoreTyped' BY <1>7, <2>1 DEF SetAutomationSettings, StoreTyped
  <2>3. RestTyped' BY <1>7 DEF SetAutomationSettings, Op, Event, process, RestTyped
  <2>4. HistoryTyped' BY <1>7 DEF SetAutomationSettings, HistoryTyped
  <2> QED BY <1>7, <2>2, <2>3, <2>4, Untouched DEF SetAutomationSettings, process
<1>8. CASE CrashRestart
  <2>1. WorkersTyped'
    <3>1. pc' \in [Workers -> WorkerPc] /\ WorkersHoldJobs'
      BY <1>8 DEF CrashRestart, WorkersHoldJobs, WorkerPc
    <3>2. cur' \in [Workers -> JobIds \cup {NoJob}] /\ seen' \in [Workers -> SeenRows]
      BY <1>8, RowEdits DEF CrashRestart
    <3> QED BY <3>1, <3>2 DEF WorkersTyped
  <2>2. RestTyped'
    <3>1. events' \in Nat /\ feed' \subseteq JobIds
      BY <1>8 DEF CrashRestart, Fault, Event, RestTyped
    <3>2. /\ toCheck' \in [Chats -> Nat] /\ toArm' \in [Chats -> Nat]
          /\ queued' \in [JobIds -> Nat] /\ approving' \in [Chats -> Nat]
      BY <1>8 DEF CrashRestart
    <3>3. manual' \in [Chats -> SuggestRows]
      BY <1>8, RowEdits DEF CrashRestart
    <3> QED BY <3>1, <3>2, <3>3 DEF RestTyped
  <2>3. HistoryTyped'
    <3>1. forgotten' \in [Chats -> Nat]
      BY <1>8, ForgetTyped DEF CrashRestart
    <3> QED BY <1>8, <3>1 DEF CrashRestart, HistoryTyped
  <2> QED BY <1>8, <2>1, <2>2, <2>3, Untouched DEF CrashRestart
<1> QED BY <1>1, <1>2, <1>3, <1>4, <1>5, <1>6, <1>7, <1>8

\* Every step of the engine is one of these kinds, or none.
LEMMA TypedStep ==
  ASSUME Typed, [Next]_vars
  PROVE  Typed'
<1>1. CASE UNCHANGED vars
  BY <1>1, Untouched DEF vars, process, Typed
<1>2. CASE Next
  BY <1>2, InboundTyped, LoopTyped, WorkerTyped, OperatorTyped DEF Next
<1> QED BY <1>1, <1>2

\* Every variable keeps its type, through every operation, fault and crash.
THEOREM TypeCorrect == Spec => []TypeOK
<1>1. Spec => []Typed
  BY InitTyped, TypedStep, PTL DEF Spec
<1>2. Typed => TypeOK
  BY TypedIsTypeOK
<1> QED BY <1>1, <1>2, PTL

----------------------------------------------------------------------------
(* One owner, one reply.                                                    *)

OwnerInv == IdsAreMade /\ HoldersOwn /\ NotYetReplied /\ OneReplyPerBurst

\* A step that takes up no job, gives none back and replies to none keeps the
\* invariant: rows may go or age, workers may go on or leave.
LEMMA QuietStep ==
  ASSUME OwnerInv,
         \A id \in JobIds : Exists(id)' => Exists(id) /\ jobs'[id].st = jobs[id].st,
         \A v \in Workers : pc'[v] # "idle" => pc[v] # "idle" /\ cur'[v] = cur[v],
         \A v \in Workers : /\ pc'[v] \in Held => pc[v] \in Held
                            /\ pc'[v] \in Held \ {"insert"} => pc[v] \in Held \ {"insert"},
         WorkersHoldJobs,
         UNCHANGED <<made, rerun, replies>>
  PROVE  OwnerInv'
<1>0. "idle" \notin Held
  BY DEF Held, Owning
<1>1. IdsAreMade'
  BY DEF OwnerInv, IdsAreMade
<1>2. HoldersOwn'
  BY <1>0 DEF OwnerInv, HoldersOwn, WorkersHoldJobs
<1>3. NotYetReplied'
  BY <1>0 DEF OwnerInv, NotYetReplied, CanStillReply
<1>4. OneReplyPerBurst'
  BY DEF OwnerInv, OneReplyPerBurst
<1> QED BY <1>1, <1>2, <1>3, <1>4 DEF OwnerInv

\* A worker that leaves, or goes on without coming nearer to a reply.
LEMMA WorkerQuiet ==
  ASSUME Typed, OwnerInv, NEW w \in Workers, NEW to \in WorkerPc,
         \/ Leave(w)
         \/ /\ Goto(w, to) /\ pc[w] # "idle" /\ UNCHANGED cur
            /\ to \in Held => pc[w] \in Held
            /\ to \in Held \ {"insert"} => pc[w] \in Held \ {"insert"},
         \A id \in JobIds : Exists(id)' => Exists(id) /\ jobs'[id].st = jobs[id].st,
         UNCHANGED <<made, rerun, replies>>
  PROVE  OwnerInv'
<1>0. "idle" \notin Held /\ WorkersHoldJobs
  BY DEF Held, Owning, Typed, WorkersTyped
<1>1. \A v \in Workers : pc'[v] # "idle" => pc[v] # "idle" /\ cur'[v] = cur[v]
  BY DEF Leave, Goto, Typed, WorkersTyped
<1>2. \A v \in Workers : /\ pc'[v] \in Held => pc[v] \in Held
                         /\ pc'[v] \in Held \ {"insert"} => pc[v] \in Held \ {"insert"}
  BY <1>0 DEF Leave, Goto, Typed, WorkersTyped
<1> QED BY <1>0, <1>1, <1>2, QuietStep

LEMMA DeletedJob ==
  ASSUME StoreTyped, NEW d, DeleteJob(d)
  PROVE  \A id \in JobIds : Exists(id)' => Exists(id) /\ jobs'[id].st = jobs[id].st
BY DEF DeleteJob, Exists, StoreTyped

\* The worker's steps: only a claim takes a job up, only a failure gives one
\* back, and only the auto-send replies.
LEMMA WorkerOwns ==
  ASSUME Typed, OwnerInv, NEW w \in Workers, Run(w) \/ \E id \in JobIds : Take(w, id)
  PROVE  OwnerInv'
<1> DEFINE Kept == \A id \in JobIds : Exists(id)' => Exists(id) /\ jobs'[id].st = jobs[id].st
<1>0. /\ pc[w] # "idle" => cur[w] \in JobIds
      /\ pc \in [Workers -> WorkerPc] /\ cur \in [Workers -> JobIds \cup {NoJob}]
      /\ jobs \in [JobIds -> JobRows \cup {NoJob}] /\ WorkersHoldJobs /\ StoreTyped
  BY DEF Typed, StoreTyped, WorkersTyped, WorkersHoldJobs
<1>a. /\ {"owned", "claim", "settings", "load", "write", "autosend", "insert", "delete", "failed"}
           \subseteq WorkerPc \ {"idle"}
      /\ Held = {"settings", "load", "write", "autosend", "insert", "failed"}
  BY DEF WorkerPc, Held, Owning
<1>b. UNCHANGED jobs => Kept
  BY DEF Exists
<1>c. \A d : DeleteJob(d) => Kept
  BY <1>0, DeletedJob
<1>1. ASSUME NEW id \in JobIds, Take(w, id) PROVE OwnerInv'
  <2>1. UNCHANGED <<jobs, made, rerun, replies>>
    BY <1>1 DEF Take, store, history
  <2>2. CASE UNCHANGED <<pc, cur>>
    BY <1>0, <1>b, <2>1, <2>2, QuietStep
  <2>3. CASE /\ Exists(id) /\ cur' = [cur EXCEPT ![w] = id]
             /\ pc' = [pc EXCEPT ![w] = "owned"] \/ pc' = [pc EXCEPT ![w] = "claim"]
    <3>1. \A v \in Workers : pc'[v] \in Held => pc[v] \in Held /\ cur'[v] = cur[v] /\ pc'[v] = pc[v]
      BY <1>0, <1>a, <2>3
    <3>2. IdsAreMade'
      BY <1>0, <2>1, <2>3 DEF OwnerInv, IdsAreMade, Exists
    <3>3. HoldersOwn'
      BY <1>0, <2>1, <3>1 DEF OwnerInv, HoldersOwn, Exists
    <3>4. NotYetReplied'
      BY <1>0, <2>1, <3>1 DEF OwnerInv, NotYetReplied, CanStillReply, Exists
    <3>5. OneReplyPerBurst'
      BY <2>1 DEF OwnerInv, OneReplyPerBurst
    <3> QED BY <3>2, <3>3, <3>4, <3>5 DEF OwnerInv
  <2> QED BY <1>1, <2>2, <2>3 DEF Take, Goto
<1>2. CASE CleanUpOwned(w)
  <2>1. Kept /\ Leave(w) /\ UNCHANGED <<made, rerun, replies>>
    BY <1>2, <1>b, <1>c DEF CleanUpOwned, history
  <2> QED BY <1>a, <2>1, WorkerQuiet
<1>3. CASE ClaimDispatchJob(w)
  <2>0. cur[w] \in JobIds /\ UNCHANGED <<made, rerun, replies>>
    BY <1>0, <1>3 DEF ClaimDispatchJob, history
  <2>1. CASE Leave(w) /\ UNCHANGED jobs
    BY <1>a, <1>b, <2>0, <2>1, WorkerQuiet
  <2>2. CASE Claimable(cur[w]) /\ ~(Leave(w) /\ UNCHANGED jobs)
    <3>1. /\ Exists(cur[w]) /\ jobs[cur[w]].st = "pending" /\ jobs[cur[w]] \in JobRows
          /\ pc' = [pc EXCEPT ![w] = "settings"] /\ UNCHANGED cur /\ pc[w] = "claim"
          /\ jobs' = [jobs EXCEPT ![cur[w]].st = "processing", ![cur[w]].old = FALSE]
      BY <1>0, <1>3, <2>0, <2>2 DEF ClaimDispatchJob, Claimable, Exists, Goto
    <3>2. jobs'[cur[w]].st = "processing" /\ \A id \in JobIds : id # cur[w] => jobs'[id] = jobs[id]
      BY <1>0, <2>0, <3>1 DEF JobRows
    <3>3. \A id \in JobIds : Exists(id)' => Exists(id)
      BY <3>1, <3>2 DEF Exists
    <3>4. \A v \in Workers : v # w => pc'[v] = pc[v]
      BY <1>0, <3>1
    <3>5. pc'[w] = "settings"
      BY <1>0, <3>1
    <3>6. \A v \in Workers : pc[v] \in Held /\ cur[v] = cur[w] => cur[w] \in rerun
      BY <3>1 DEF OwnerInv, HoldersOwn
    <3>7. IdsAreMade'
      BY <2>0, <3>1, <3>3, <3>4 DEF OwnerInv, IdsAreMade
    <3>8. HoldersOwn'
      <4>1. ASSUME NEW v \in Workers, pc'[v] \in Held, cur[v] \notin rerun, jobs'[cur[v]] # NoJob
            PROVE  jobs'[cur[v]].st = "processing"
        <5>1. CASE cur[v] = cur[w] BY <3>2, <5>1
        <5>2. CASE cur[v] # cur[w]
          <6>1. v # w /\ pc[v] \in Held /\ cur[v] \in JobIds
            BY <1>0, <1>a, <3>4, <4>1, <5>2 DEF WorkersHoldJobs
          <6>2. jobs'[cur[v]] = jobs[cur[v]] BY <3>2, <5>2, <6>1
          <6> QED BY <4>1, <6>1, <6>2 DEF OwnerInv, HoldersOwn, Exists
        <5> QED BY <5>1, <5>2
      <4>2. ASSUME NEW u \in Workers, NEW v \in Workers, u # v, pc'[u] \in Held, pc'[v] \in Held,
                   cur[u] = cur[v]
            PROVE  cur[u] \in rerun
        <5>1. CASE u = w BY <3>4, <3>6, <4>2, <5>1
        <5>2. CASE v = w BY <3>4, <3>6, <4>2, <5>2
        <5>3. CASE u # w /\ v # w BY <3>4, <4>2, <5>3 DEF OwnerInv, HoldersOwn
        <5> QED BY <5>1, <5>2, <5>3
      <4> QED BY <2>0, <3>1, <4>1, <4>2 DEF HoldersOwn, Exists
    <3>9. NotYetReplied'
      <4>1. ASSUME NEW id \in JobIds, id \notin rerun, CanStillReply(id)' PROVE replies[id] = 0
        <5>1. CanStillReply(id)
          <6>1. CASE id = cur[w] BY <3>1, <6>1 DEF CanStillReply
          <6>2. CASE id # cur[w]
            BY <2>0, <3>1, <3>2, <3>4, <4>1, <6>2 DEF CanStillReply, Exists
          <6> QED BY <6>1, <6>2
        <5> QED BY <4>1, <5>1 DEF OwnerInv, NotYetReplied
      <4> QED BY <2>0, <4>1 DEF NotYetReplied
    <3>10. OneReplyPerBurst'
      BY <2>0 DEF OwnerInv, OneReplyPerBurst
    <3> QED BY <3>7, <3>8, <3>9, <3>10 DEF OwnerInv
  <2> QED BY <1>3, <2>1, <2>2 DEF ClaimDispatchJob
<1>4. CASE LoadSettings(w)
  <2>1. Kept /\ UNCHANGED <<made, rerun, replies>>
    BY <1>4, <1>b, <1>c DEF LoadSettings, history
  <2>2. Leave(w) \/ (Goto(w, "load") /\ pc[w] = "settings" /\ UNCHANGED cur)
    BY <1>4 DEF LoadSettings
  <2> QED BY <1>a, <2>1, <2>2, WorkerQuiet
<1>5. ASSUME LoadForResponse(w) \/ WriteDraft(w) \/ GenerationFails(w) PROVE OwnerInv'
  <2>1. Kept /\ UNCHANGED <<made, rerun, replies, cur>>
    BY <1>5, <1>b DEF LoadForResponse, WriteDraft, GenerationFails, store, history
  <2>2. /\ pc[w] \in {"settings", "load", "write"}
        /\ Goto(w, "write") \/ Goto(w, "autosend") \/ Goto(w, "delete") \/ Goto(w, "failed")
    BY <1>5 DEF LoadForResponse, WriteDraft, GenerationFails
  <2> QED BY <1>a, <2>1, <2>2, WorkerQuiet
<1>7. CASE ClaimDraftForAutoSend(w)
  <2>0. /\ cur[w] \in JobIds /\ pc[w] = "autosend"
        /\ UNCHANGED <<jobs, made, rerun, cur>>
    BY <1>0, <1>7 DEF ClaimDraftForAutoSend
  <2>1. CASE Goto(w, "delete") /\ UNCHANGED replies
    BY <1>a, <1>b, <2>0, <2>1, WorkerQuiet
  <2>2. CASE Goto(w, "insert") /\ replies' = [replies EXCEPT ![cur[w]] = @ + 1]
    <3>1. /\ pc' = [pc EXCEPT ![w] = "insert"] /\ pc[w] \in Held \ {"insert"}
          /\ replies \in [JobIds -> Nat]
      BY <1>a, <2>0, <2>2 DEF Goto, Typed, HistoryTyped
    <3>2. \A v \in Workers : pc'[v] # "idle" => pc[v] # "idle"
      BY <1>0, <1>a, <3>1
    <3>3. \A v \in Workers : pc'[v] \in Held => pc[v] \in Held
      BY <1>0, <3>1
    <3>4. IdsAreMade' /\ HoldersOwn'
      BY <2>0, <3>2, <3>3 DEF OwnerInv, IdsAreMade, HoldersOwn, Exists
    <3>5. cur[w] \notin rerun => replies[cur[w]] = 0 /\ ~CanStillReply(cur[w])'
      <4>1. ASSUME cur[w] \notin rerun PROVE replies[cur[w]] = 0
        <5>1. CanStillReply(cur[w]) BY <3>1 DEF CanStillReply
        <5> QED BY <2>0, <4>1, <5>1 DEF OwnerInv, NotYetReplied
      <4>2. cur[w][2] <= made[cur[w][1]]
        BY <2>0 DEF OwnerInv, IdsAreMade
      <4>3. ~(cur[w][2] > made[cur[w][1]])
        <5>1. cur[w][2] \in Nat /\ made[cur[w][1]] \in Nat
          BY <2>0, JobFacts DEF Typed, StoreTyped
        <5> QED BY <4>2, <5>1
      <4>4. ASSUME cur[w] \notin rerun, Exists(cur[w]) PROVE jobs[cur[w]].st # "pending"
        BY <3>1, <4>4 DEF OwnerInv, HoldersOwn
      <4>5. ASSUME cur[w] \notin rerun, NEW v \in Workers, pc'[v] \in Held \ {"insert"}, cur[v] = cur[w]
            PROVE  FALSE
        <5>1. v # w BY <1>0, <3>1, <4>5
        <5>2. pc[v] \in Held BY <3>3, <4>5
        <5> QED BY <3>1, <4>5, <5>1, <5>2 DEF OwnerInv, HoldersOwn
      <4> QED BY <2>0, <4>1, <4>3, <4>4, <4>5 DEF CanStillReply, Exists
    <3>6. NotYetReplied'
      <4>1. ASSUME NEW id \in JobIds, id \notin rerun, CanStillReply(id)' PROVE replies'[id] = 0
        <5>1. id # cur[w] BY <2>0, <3>5, <4>1
        <5>2. CanStillReply(id)
          BY <1>0, <2>0, <3>1, <4>1 DEF CanStillReply, Exists
        <5>3. replies'[id] = replies[id] BY <2>2, <3>1, <5>1
        <5> QED BY <4>1, <5>2, <5>3 DEF OwnerInv, NotYetReplied
      <4> QED BY <2>0, <4>1 DEF NotYetReplied
    <3>7. OneReplyPerBurst'
      BY <2>0, <2>2, <3>1, <3>5 DEF OwnerInv, OneReplyPerBurst
    <3> QED BY <3>4, <3>6, <3>7 DEF OwnerInv
  <2> QED BY <1>7, <2>1, <2>2 DEF ClaimDraftForAutoSend
<1>8. CASE DispatchSend(w)
  <2>1. Kept /\ UNCHANGED <<made, rerun, replies, cur>> /\ pc[w] = "insert" /\ Goto(w, "delete")
    BY <1>8, <1>b DEF DispatchSend
  <2> QED BY <1>a, <2>1, WorkerQuiet
<1>9. CASE DeleteDispatchJob(w)
  <2>1. Kept /\ UNCHANGED <<made, rerun, replies>> /\ Leave(w)
    BY <1>9, <1>b, <1>c DEF DeleteDispatchJob, history
  <2> QED BY <1>a, <2>1, WorkerQuiet
<1>11. CASE GiveUpOrRetry(w)
  <2>0. /\ cur[w] \in JobIds /\ pc[w] = "failed" /\ UNCHANGED <<made, rerun, replies>>
    BY <1>0, <1>11 DEF GiveUpOrRetry, history
  <2>1. CASE Leave(w) /\ UNCHANGED jobs
    BY <1>a, <1>b, <2>0, <2>1, WorkerQuiet
  <2>2. CASE Exists(cur[w]) /\ ~(Leave(w) /\ UNCHANGED jobs)
    <3>1. /\ jobs[cur[w]] \in JobRows
          /\ jobs' = [jobs EXCEPT ![cur[w]].attempts = @ + 1, ![cur[w]].st = "pending",
                                  ![cur[w]].old = FALSE]
      BY <1>0, <1>11, <2>0, <2>2 DEF GiveUpOrRetry, Exists
    <3>2. \A id \in JobIds : id # cur[w] => jobs'[id] = jobs[id]
      BY <1>0, <2>0, <3>1
    <3>3. \A id \in JobIds : Exists(id)' => Exists(id)
      BY <2>2, <3>2 DEF Exists
    <3>4. /\ \A v \in Workers : v # w => pc'[v] = pc[v] /\ cur'[v] = cur[v]
          /\ pc'[w] \notin Held /\ (pc'[w] # "idle" => cur'[w] = cur[w])
      BY <1>0, <1>11, <1>a, <2>2 DEF GiveUpOrRetry, Leave, Goto, Held, Owning
    <3>5. \A v \in Workers : pc'[v] \in Held => v # w /\ pc[v] \in Held /\ cur'[v] = cur[v]
      BY <3>4
    <3>6. \A v \in Workers : v # w /\ pc[v] \in Held /\ cur[v] = cur[w] => cur[w] \in rerun
      BY <1>a, <2>0 DEF OwnerInv, HoldersOwn
    <3>7. IdsAreMade'
      BY <2>0, <3>3, <3>4 DEF OwnerInv, IdsAreMade
    <3>8. HoldersOwn'
      <4>1. ASSUME NEW v \in Workers, pc'[v] \in Held, cur'[v] \notin rerun, jobs'[cur'[v]] # NoJob
            PROVE  jobs'[cur'[v]].st = "processing"
        <5>1. v # w /\ pc[v] \in Held /\ cur'[v] = cur[v] /\ cur[v] \in JobIds
          BY <1>0, <1>a, <3>5, <4>1 DEF WorkersHoldJobs
        <5>2. cur[v] # cur[w] BY <3>6, <4>1, <5>1
        <5>3. jobs'[cur[v]] = jobs[cur[v]] BY <3>2, <5>1, <5>2
        <5> QED BY <4>1, <5>1, <5>3 DEF OwnerInv, HoldersOwn, Exists
      <4>2. ASSUME NEW u \in Workers, NEW v \in Workers, u # v, pc'[u] \in Held, pc'[v] \in Held,
                   cur'[u] = cur'[v]
            PROVE  cur'[u] \in rerun
        BY <3>5, <4>2 DEF OwnerInv, HoldersOwn
      <4> QED BY <2>0, <4>1, <4>2 DEF HoldersOwn, Exists
    <3>9. NotYetReplied'
      <4>1. ASSUME NEW id \in JobIds, id \notin rerun, CanStillReply(id)' PROVE replies[id] = 0
        <5>1. CanStillReply(id)
          <6>1. CASE id = cur[w] BY <1>a, <2>0, <6>1 DEF CanStillReply
          <6>2. CASE id # cur[w]
            <7>1. jobs'[id] = jobs[id] BY <3>2, <6>2
            <7>2. ASSUME NEW v \in Workers, pc'[v] \in Held \ {"insert"}, cur'[v] = id
                  PROVE  pc[v] \in Held \ {"insert"} /\ cur[v] = id
              BY <3>4, <3>5, <7>2
            <7> QED BY <2>0, <4>1, <7>1, <7>2 DEF CanStillReply, Exists
          <6> QED BY <6>1, <6>2
        <5> QED BY <4>1, <5>1 DEF OwnerInv, NotYetReplied
      <4> QED BY <2>0, <4>1 DEF NotYetReplied
    <3>10. OneReplyPerBurst'
      BY <2>0 DEF OwnerInv, OneReplyPerBurst
    <3> QED BY <3>7, <3>8, <3>9, <3>10 DEF OwnerInv
  <2> QED BY <1>11, <2>1, <2>2 DEF GiveUpOrRetry
<1> QED BY <1>1, <1>2, <1>3, <1>4, <1>5, <1>7, <1>8, <1>9, <1>11 DEF Run

\* The loop's steps: new jobs have new ids, and recovery remembers the rows it
\* takes from their owners.
LEMMA LoopOwns ==
  ASSUME Typed, OwnerInv, Loop \/ \E id \in JobIds : JobAges(id)
  PROVE  OwnerInv'
<1>0. /\ cur \in [Workers -> JobIds \cup {NoJob}] /\ WorkersHoldJobs
      /\ jobs \in [JobIds -> JobRows \cup {NoJob}] /\ made \in [Chats -> 0..MaxJobs]
      /\ MaxJobs \in Nat /\ "idle" \notin Held
  BY AutomationAssumption DEF Typed, StoreTyped, WorkersTyped, Held, Owning
<1>1. CASE ClaimDueDispatchJobs
  <2>1. /\ UNCHANGED <<pc, cur, rerun, replies>>
        /\ feed' = {<<ch, made[ch] + 1>> : ch \in Due}
        /\ made' = [ch \in Chats |-> IF ch \in Due THEN made[ch] + 1 ELSE made[ch]]
        /\ \A id \in JobIds : id \notin feed' => jobs'[id] = jobs[id]
    BY <1>1 DEF ClaimDueDispatchJobs, history
  <2>2. \A ch \in Chats : /\ made[ch] \in Nat /\ made'[ch] \in Nat /\ made[ch] <= made'[ch]
                          /\ ch \in Due => made'[ch] = made[ch] + 1
    BY <1>0, <2>1
  <2>3. \A id \in feed' : id[1] \in Chats /\ id[2] = made[id[1]] + 1 /\ id[2] = made'[id[1]]
    BY <2>1, <2>2 DEF Due
  <2>4. \A id \in JobIds : id[1] \in Chats /\ id[2] \in Nat
    BY <1>0, JobFacts
  <2>5. \A w \in Workers : pc[w] # "idle" => cur[w] \in JobIds /\ cur[w] \notin feed'
    BY <2>2, <2>3, <2>4 DEF OwnerInv, IdsAreMade, Typed, WorkersTyped, WorkersHoldJobs
  <2>6. IdsAreMade'
    <3>1. ASSUME NEW id \in JobIds, jobs'[id] # NoJob PROVE id[2] <= made'[id[1]]
      <4>1. CASE id \in feed' BY <2>2, <2>3, <2>4, <4>1
      <4>2. CASE id \notin feed'
        BY <2>1, <2>2, <2>4, <3>1, <4>2 DEF OwnerInv, IdsAreMade, Exists
      <4> QED BY <4>1, <4>2
    <3>2. ASSUME NEW w \in Workers, pc[w] # "idle" PROVE cur[w][2] <= made'[cur[w][1]]
      BY <2>2, <2>4, <2>5, <3>2 DEF OwnerInv, IdsAreMade
    <3> QED BY <2>1, <3>1, <3>2 DEF IdsAreMade, Exists
  <2>7. HoldersOwn'
    <3>1. \A w \in Workers : pc[w] \in Held => jobs'[cur[w]] = jobs[cur[w]]
      BY <1>0, <2>1, <2>5
    <3> QED BY <2>1, <3>1 DEF OwnerInv, HoldersOwn, Exists
  <2>8. NotYetReplied'
    <3>1. ASSUME NEW id \in JobIds, id \notin rerun, CanStillReply(id)' PROVE CanStillReply(id)
      <4>1. CASE id \in feed' BY <2>2, <2>3, <2>4, <4>1 DEF CanStillReply
      <4>2. CASE id \notin feed'
        <5>1. jobs'[id] = jobs[id] /\ (id[2] > made'[id[1]] => id[2] > made[id[1]])
          BY <2>1, <2>2, <2>4, <4>2
        <5> QED BY <2>1, <3>1, <5>1 DEF CanStillReply, Exists
      <4> QED BY <4>1, <4>2
    <3> QED BY <2>1, <3>1 DEF OwnerInv, NotYetReplied
  <2>9. OneReplyPerBurst'
    BY <2>1 DEF OwnerInv, OneReplyPerBurst
  <2> QED BY <2>6, <2>7, <2>8, <2>9 DEF OwnerInv
<1>2. CASE RecoverDispatchJobs
  <2>1. /\ UNCHANGED <<pc, cur, made, replies>>
        /\ rerun' = rerun \cup {id \in RecoverableDispatchJobs : jobs[id].st = "processing"}
        /\ \A id \in JobIds : id \notin RecoverableDispatchJobs => jobs'[id] = jobs[id]
        /\ \A id \in RecoverableDispatchJobs :
             id \in JobIds /\ Exists(id) /\ jobs[id].st \in {"pending", "processing"}
    BY <1>0, <1>2 DEF RecoverDispatchJobs, RecoverableDispatchJobs, Exists, JobRows
  <2>2. \A id \in JobIds : jobs'[id] # NoJob => Exists(id)
    BY <2>1 DEF Exists
  <2>3. \A id \in JobIds \ rerun' : id \in RecoverableDispatchJobs => jobs[id].st = "pending"
    BY <2>1
  <2>4. IdsAreMade'
    BY <2>1, <2>2 DEF OwnerInv, IdsAreMade, Exists
  <2>5. HoldersOwn'
    <3>1. ASSUME NEW w \in Workers, pc[w] \in Held, cur[w] \notin rerun', jobs'[cur[w]] # NoJob
          PROVE  jobs'[cur[w]].st = "processing"
      <4>1. cur[w] \in JobIds /\ cur[w] \notin rerun
        BY <1>0, <2>1, <3>1 DEF WorkersHoldJobs
      <4>2. jobs[cur[w]].st = "processing"
        BY <2>2, <3>1, <4>1 DEF OwnerInv, HoldersOwn
      <4>3. cur[w] \notin RecoverableDispatchJobs
        BY <2>3, <3>1, <4>1, <4>2
      <4> QED BY <2>1, <4>1, <4>2, <4>3
    <3> QED BY <2>1, <3>1 DEF OwnerInv, HoldersOwn, Exists
  <2>6. NotYetReplied'
    <3>1. ASSUME NEW id \in JobIds, id \notin rerun', CanStillReply(id)' PROVE CanStillReply(id)
      <4>1. CASE id \in RecoverableDispatchJobs BY <2>1, <2>3, <3>1, <4>1 DEF CanStillReply
      <4>2. CASE id \notin RecoverableDispatchJobs
        BY <2>1, <3>1, <4>2 DEF CanStillReply, Exists
      <4> QED BY <4>1, <4>2
    <3> QED BY <2>1, <3>1 DEF OwnerInv, NotYetReplied
  <2>7. OneReplyPerBurst'
    BY <2>1 DEF OwnerInv, OneReplyPerBurst
  <2> QED BY <2>4, <2>5, <2>6, <2>7 DEF OwnerInv
<1>3. ASSUME NEW id \in JobIds, Enqueue(id) PROVE OwnerInv'
  <2>1. UNCHANGED <<jobs, pc, cur, made, rerun, replies>>
    BY <1>3 DEF Enqueue, store, history
  <2> QED BY <1>0, <2>1, QuietStep DEF Exists
<1>4. ASSUME NEW id \in JobIds, JobAges(id) PROVE OwnerInv'
  <2>1. /\ UNCHANGED <<pc, cur, made, rerun, replies>>
        /\ Exists(id) /\ jobs' = [jobs EXCEPT ![id].old = TRUE] /\ jobs[id] \in JobRows
    BY <1>0, <1>4 DEF JobAges, process, history, Exists
  <2>2. \A j \in JobIds : Exists(j)' => Exists(j) /\ jobs'[j].st = jobs[j].st
    BY <1>0, <2>1 DEF Exists, JobRows
  <2> QED BY <1>0, <2>1, <2>2, QuietStep
<1> QED BY <1>1, <1>2, <1>3, <1>4 DEF Loop

\* What customers and operators do in one chat.
ChatStep(ch) ==
  \/ Ingest(ch) \/ Rearm(ch) \/ Arming(ch) \/ DeadlinePasses(ch)
  \/ HumanReplies(ch) \/ ApproveSend(ch) \/ DismissDrafts(ch)
  \/ \E m \in 1..MaxInbound : ReenqueueMissingDraft(ch, m)
  \/ Suggest(ch) \/ SuggestLoad(ch) \/ SuggestWrite(ch)
  \/ \E i \in DOMAIN drafts[ch] : ApproveClaim(ch, i)

LEMMA NextSteps ==
  ASSUME [Next]_vars
  PROVE  \/ \E ch \in Chats : ChatStep(ch)
         \/ Loop \/ \E id \in JobIds : JobAges(id)
         \/ \E w \in Workers : Run(w) \/ \E id \in JobIds : Take(w, id)
         \/ \E m \in Modes : SetAutomationSettings(m)
         \/ CrashRestart \/ UNCHANGED vars
BY DEF Next, ChatStep

\* Customers and operators reply to no job; a crash and a switch to off only
\* take jobs and owners away.
LEMMA OthersOwn ==
  ASSUME Typed, OwnerInv,
         \/ \E ch \in Chats : ChatStep(ch)
         \/ \E m \in Modes : SetAutomationSettings(m)
         \/ CrashRestart \/ UNCHANGED vars
  PROVE  OwnerInv'
<1>0. jobs \in [JobIds -> JobRows \cup {NoJob}] /\ WorkersHoldJobs /\ "idle" \notin Held
  BY DEF Typed, StoreTyped, WorkersTyped, Held, Owning
<1>1. ASSUME UNCHANGED <<jobs, pc, cur, made, rerun, replies>> PROVE OwnerInv'
  BY <1>0, <1>1, QuietStep DEF Exists
<1>2. ASSUME NEW ch \in Chats,
             \/ Ingest(ch) \/ Rearm(ch) \/ Arming(ch) \/ DeadlinePasses(ch)
             \/ \E m \in 1..MaxInbound : ReenqueueMissingDraft(ch, m)
      PROVE  OwnerInv'
  BY <1>1, <1>2 DEF Ingest, Rearm, Arming, OnInboundMessage, ArmDebounce, DeadlinePasses,
                    ReenqueueMissingDraft, store, process, history
<1>3. ASSUME NEW ch \in Chats,
             \/ HumanReplies(ch) \/ ApproveSend(ch) \/ DismissDrafts(ch)
             \/ Suggest(ch) \/ SuggestLoad(ch) \/ SuggestWrite(ch)
             \/ \E i \in DOMAIN drafts[ch] : ApproveClaim(ch, i)
      PROVE  OwnerInv'
  BY <1>1, <1>3 DEF HumanReplies, ApproveSend, DismissDrafts, Suggest, SuggestLoad,
                    SuggestWrite, ApproveClaim, store, process, history
<1>4. ASSUME NEW m \in Modes, SetAutomationSettings(m) PROVE OwnerInv'
  <2>1. UNCHANGED <<pc, cur, made, rerun, replies>>
    BY <1>4 DEF SetAutomationSettings, process
  <2>2. \A id \in JobIds : Exists(id)' => Exists(id) /\ jobs'[id].st = jobs[id].st
    BY <1>0, <1>4 DEF SetAutomationSettings, Exists
  <2> QED BY <1>0, <2>1, <2>2, QuietStep
<1>5. CASE CrashRestart
  <2>1. /\ UNCHANGED <<jobs, made, rerun, replies>>
        /\ \A w \in Workers : pc'[w] = "idle"
    BY <1>5 DEF CrashRestart, store
  <2> QED BY <1>0, <2>1, QuietStep DEF Exists
<1>6. CASE UNCHANGED vars
  BY <1>1, <1>6 DEF vars, store, process, history
<1> QED BY <1>2, <1>3, <1>4, <1>5, <1>6 DEF ChatStep

LEMMA OwnerStep ==
  ASSUME Typed, OwnerInv, [Next]_vars
  PROVE  OwnerInv'
BY NextSteps, LoopOwns, WorkerOwns, OthersOwn

LEMMA InitOwner == Init => OwnerInv
BY DEF Init, OwnerInv, IdsAreMade, HoldersOwn, NotYetReplied, OneReplyPerBurst, Exists, Held,
       Owning

LEMMA OwnerInvariant == Spec => []OwnerInv
BY InitTyped, TypedStep, InitOwner, OwnerStep, PTL DEF Spec

\* A job is run by one worker at a time, unless recovery took it for dead.
THEOREM JobsHaveOneOwner == Spec => []OneOwner
<1>1. OwnerInv => OneOwner
  BY DEF OwnerInv, HoldersOwn, Held, OneOwner
<1> QED BY <1>1, OwnerInvariant, PTL

\* One burst gets at most one automatic reply, unless recovery ran it again.
THEOREM OneReply == Spec => []OneReplyPerBurst
<1>1. OwnerInv => OneReplyPerBurst
  BY DEF OwnerInv
<1> QED BY <1>1, OwnerInvariant, PTL

----------------------------------------------------------------------------
(* One suggestion, and a message for every draft shown as sent.             *)

DraftInv == DraftsExist /\ SuggestionsAgree /\ SentDraftsHaveMessages

\* Draft i of chat ch has its message, or someone is sending it.
Dispatched(ch, i) ==
  \/ drafts[ch][i].msg
  \/ approving[ch] = i
  \/ \E w \in Workers : pc[w] = "insert" /\ cur[w][1] = ch /\ seen[w].draft = i

\* A step that changes no draft: the senders stay.
LEMMA DraftsQuiet ==
  ASSUME DraftInv, UNCHANGED <<drafts, approving>>, sendFailed \subseteq sendFailed',
         \A w \in Workers :
           /\ pc'[w] \in {"autosend", "insert"} =>
                pc[w] \in {"autosend", "insert"} /\ cur'[w] = cur[w] /\ seen'[w] = seen[w]
           /\ pc[w] = "insert" => pc'[w] = "insert" /\ cur'[w] = cur[w] /\ seen'[w] = seen[w]
  PROVE  DraftInv'
<1>1. DraftsExist'
  BY DEF DraftInv, DraftsExist
<1>2. SuggestionsAgree'
  BY DEF DraftInv, SuggestionsAgree, Suggested
<1>3. SentDraftsHaveMessages'
  BY DEF DraftInv, SentDraftsHaveMessages
<1> QED BY <1>1, <1>2, <1>3 DEF DraftInv

\* A step that changes the drafts of chat c only.
LEMMA DraftsOfOneChat ==
  ASSUME Typed, Typed', DraftInv, NEW c \in Chats,
         \A ch \in Chats \ {c} : drafts'[ch] = drafts[ch] /\ approving'[ch] = approving[ch],
         Len(drafts[c]) <= Len(drafts'[c]), approving'[c] <= Len(drafts'[c]),
         sendFailed \subseteq sendFailed',
         c \notin sendFailed' =>
           /\ \A i, j \in DOMAIN drafts'[c] :
                drafts'[c][i].st = "suggested" /\ drafts'[c][j].st = "suggested" => i = j
           /\ \A i \in DOMAIN drafts'[c] : drafts'[c][i].st = "sent" => Dispatched(c, i)',
         \A w \in Workers :
           /\ pc'[w] \in {"autosend", "insert"} =>
                /\ pc[w] # "idle" /\ cur'[w] = cur[w]
                /\ \/ pc[w] \in {"autosend", "insert"} /\ seen'[w].draft = seen[w].draft
                   \/ cur[w][1] = c /\ seen'[w].draft \in DOMAIN drafts'[c]
           /\ pc[w] = "insert" /\ cur[w][1] # c =>
                pc'[w] = "insert" /\ cur'[w] = cur[w] /\ seen'[w].draft = seen[w].draft
  PROVE  DraftInv'
<1>0. \A ch \in Chats : /\ Len(drafts[ch]) \in Nat /\ DOMAIN drafts[ch] = 1..Len(drafts[ch])
                        /\ Len(drafts'[ch]) \in Nat /\ DOMAIN drafts'[ch] = 1..Len(drafts'[ch])
  BY DraftsAreRows DEF Typed, StoreTyped
<1>1. \A ch \in Chats : DOMAIN drafts[ch] \subseteq DOMAIN drafts'[ch]
  BY <1>0
<1>2. \A w \in Workers : pc[w] # "idle" => cur[w][1] \in Chats
  BY JobFacts DEF Typed, WorkersTyped, WorkersHoldJobs
<1>3. DraftsExist'
  <2>1. \A ch \in Chats : approving'[ch] <= Len(drafts'[ch])
    BY DEF DraftInv, DraftsExist
  <2>2. ASSUME NEW w \in Workers, pc'[w] \in {"autosend", "insert"}
        PROVE  seen'[w].draft \in DOMAIN drafts'[cur'[w][1]]
    BY <1>1, <1>2, <2>2 DEF DraftInv, DraftsExist
  <2> QED BY <2>1, <2>2 DEF DraftsExist
<1>4. SuggestionsAgree'
  <2>1. ASSUME NEW ch \in Chats \ sendFailed',
               NEW i \in DOMAIN drafts'[ch], NEW j \in DOMAIN drafts'[ch],
               drafts'[ch][i].st = "suggested", drafts'[ch][j].st = "suggested"
        PROVE  i = j
    <3>1. CASE ch = c BY <2>1, <3>1
    <3>2. CASE ch # c BY <2>1, <3>2 DEF DraftInv, SuggestionsAgree, Suggested
    <3> QED BY <3>1, <3>2
  <2> QED BY <2>1 DEF SuggestionsAgree, Suggested
<1>5. SentDraftsHaveMessages'
  <2>1. ASSUME NEW ch \in Chats \ sendFailed', NEW i \in DOMAIN drafts'[ch],
               drafts'[ch][i].st = "sent"
        PROVE  Dispatched(ch, i)'
    <3>1. CASE ch = c BY <2>1, <3>1
    <3>2. CASE ch # c
      <4>1. Dispatched(ch, i)
        BY <2>1, <3>2 DEF DraftInv, SentDraftsHaveMessages, Dispatched
      <4> QED BY <2>1, <3>2, <4>1 DEF Dispatched
    <3> QED BY <3>1, <3>2
  <2> QED BY <2>1 DEF SentDraftsHaveMessages, Dispatched
<1> QED BY <1>3, <1>4, <1>5 DEF DraftInv

\* A worker's step that is neither the write, nor the claim, nor the send.
LEMMA WorkerLeavesDrafts ==
  ASSUME Typed, DraftInv, NEW w \in Workers, NEW to \in WorkerPc \ {"autosend", "insert"},
         pc[w] # "insert", UNCHANGED <<drafts, approving, sendFailed>>,
         Leave(w) \/ Goto(w, to),
         \A v \in Workers \ {w} : cur'[v] = cur[v] /\ seen'[v] = seen[v]
  PROVE  DraftInv'
<1>1. \A v \in Workers \ {w} : pc'[v] = pc[v]
  BY DEF Leave, Goto, Typed, WorkersTyped
<1>2. pc'[w] \notin {"autosend", "insert"}
  BY DEF Leave, Goto, Typed, WorkersTyped
<1> QED BY <1>1, <1>2, DraftsQuiet

LEMMA WorkerDrafts ==
  ASSUME Typed, Typed', DraftInv, NEW w \in Workers, Run(w) \/ \E id \in JobIds : Take(w, id)
  PROVE  DraftInv'
<1>0. /\ pc[w] # "idle" => cur[w] \in JobIds /\ cur[w][1] \in Chats
      /\ pc \in [Workers -> WorkerPc] /\ cur \in [Workers -> JobIds \cup {NoJob}]
      /\ seen \in [Workers -> SeenRows]
      /\ \A ch \in Chats : drafts[ch] \in Seq(DraftRows)
  BY JobFacts DEF Typed, StoreTyped, WorkersTyped, WorkersHoldJobs
<1>a. {"idle", "owned", "claim", "settings", "load", "write", "delete", "failed"}
        \subseteq WorkerPc \ {"autosend", "insert"}
  BY DEF WorkerPc
<1>1. ASSUME NEW id \in JobIds, Take(w, id) PROVE DraftInv'
  <2>1. /\ pc[w] = "idle" /\ UNCHANGED <<drafts, approving, sendFailed>>
        /\ UNCHANGED <<pc, cur, seen>> \/ Goto(w, "owned") \/ Goto(w, "claim")
        /\ \A v \in Workers \ {w} : cur'[v] = cur[v] /\ seen'[v] = seen[v]
    BY <1>0, <1>1 DEF Take, store, history
  <2>2. CASE UNCHANGED <<pc, cur, seen>>
    BY <2>1, <2>2, DraftsQuiet
  <2>3. CASE Goto(w, "owned") \/ Goto(w, "claim")
    BY <1>a, <2>1, <2>3, WorkerLeavesDrafts
  <2> QED BY <2>1, <2>2, <2>3
<1>2. ASSUME CleanUpOwned(w) \/ ClaimDispatchJob(w) \/ DeleteDispatchJob(w)
      PROVE  DraftInv'
  <2>1. /\ pc[w] # "insert" /\ UNCHANGED <<drafts, approving, sendFailed>>
        /\ Leave(w) \/ Goto(w, "settings")
    BY <1>2 DEF CleanUpOwned, ClaimDispatchJob, DeleteDispatchJob, history
  <2>2. \A v \in Workers \ {w} : cur'[v] = cur[v] /\ seen'[v] = seen[v]
    BY <1>0, <1>2 DEF CleanUpOwned, ClaimDispatchJob, DeleteDispatchJob, Leave
  <2> QED BY <1>a, <2>1, <2>2, WorkerLeavesDrafts
<1>3. ASSUME LoadSettings(w) \/ LoadForResponse(w) \/ GenerationFails(w) \/ GiveUpOrRetry(w)
      PROVE  DraftInv'
  <2>1. /\ pc[w] # "insert" /\ UNCHANGED <<drafts, approving, sendFailed>>
        /\ Leave(w) \/ Goto(w, "load") \/ Goto(w, "write") \/ Goto(w, "failed") \/ Goto(w, "delete")
    BY <1>3 DEF LoadSettings, LoadForResponse, GenerationFails, GiveUpOrRetry, store, history
  <2>2. \A v \in Workers \ {w} : cur'[v] = cur[v] /\ seen'[v] = seen[v]
    BY <1>0, <1>3 DEF LoadSettings, LoadForResponse, GenerationFails, GiveUpOrRetry, Leave
  <2> QED BY <1>a, <2>1, <2>2, WorkerLeavesDrafts
<1>4. CASE WriteDraft(w)
  <2>0. /\ pc[w] = "write" /\ UNCHANGED <<cur, approving, sendFailed>>
        /\ cur[w][1] \in Chats /\ seen[w].trig \in Nat /\ drafts[cur[w][1]] \in Seq(DraftRows)
    BY <1>0, <1>4, RowEdits DEF WriteDraft, history
  <2>1. CASE Goto(w, "delete") /\ UNCHANGED <<drafts, seen>>
    BY <1>a, <2>0, <2>1, WorkerLeavesDrafts
  <2>2. CASE /\ drafts' = [drafts EXCEPT ![cur[w][1]] = WithDraft(@, seen[w].trig)]
             /\ seen' = [seen EXCEPT ![w].draft = Len(drafts[cur[w][1]]) + 1]
             /\ Goto(w, IF seen[w].auto THEN "autosend" ELSE "delete")
    <3> DEFINE c == cur[w][1]
    <3>1. /\ drafts'[c] = WithDraft(drafts[c], seen[w].trig)
          /\ \A ch \in Chats \ {c} : drafts'[ch] = drafts[ch]
      BY <2>0, <2>2 DEF Typed, StoreTyped
    <3>2. /\ Len(drafts'[c]) = Len(drafts[c]) + 1 /\ Len(drafts[c]) \in Nat
          /\ DOMAIN drafts'[c] = 1..(Len(drafts[c]) + 1) /\ DOMAIN drafts[c] = 1..Len(drafts[c])
      BY <2>0, <3>1, WithDraftFacts
    <3>3. \A i \in DOMAIN drafts[c] :
            /\ drafts'[c][i].st # "suggested" /\ drafts'[c][i].msg = drafts[c][i].msg
            /\ drafts'[c][i].st = "sent" => drafts[c][i].st = "sent"
      BY <2>0, <3>1, WithDraftFacts
    <3>a. drafts'[c][Len(drafts[c]) + 1].st = "suggested"
      BY <2>0, <3>1, WithDraftFacts
    <3>4. /\ \A v \in Workers \ {w} : pc'[v] = pc[v] /\ seen'[v] = seen[v]
          /\ pc'[w] \in {"autosend", "delete"} /\ seen'[w].draft = Len(drafts[c]) + 1
      BY <1>0, <2>2 DEF Goto, SeenRows
    <3>5. c \notin sendFailed' =>
            \A i \in DOMAIN drafts'[c] : drafts'[c][i].st = "sent" => Dispatched(c, i)'
      <4>1. ASSUME c \notin sendFailed, NEW i \in DOMAIN drafts'[c], drafts'[c][i].st = "sent"
            PROVE  Dispatched(c, i)'
        <5>1. i \in DOMAIN drafts[c] BY <3>2, <3>a, <4>1
        <5>2. Dispatched(c, i)
          BY <2>0, <3>3, <4>1, <5>1 DEF DraftInv, SentDraftsHaveMessages, Dispatched
        <5> QED BY <2>0, <3>3, <3>4, <5>1, <5>2 DEF Dispatched
      <4> QED BY <2>0, <4>1
    <3>6. \A i, j \in DOMAIN drafts'[c] :
            drafts'[c][i].st = "suggested" /\ drafts'[c][j].st = "suggested" => i = j
      BY <3>2, <3>3
    <3>7. approving[c] <= Len(drafts'[c])
      BY <2>0, <3>2 DEF DraftInv, DraftsExist, Typed, RestTyped
    <3>8. \A v \in Workers :
            /\ pc'[v] \in {"autosend", "insert"} =>
                 /\ pc[v] # "idle" /\ cur'[v] = cur[v]
                 /\ \/ pc[v] \in {"autosend", "insert"} /\ seen'[v].draft = seen[v].draft
                    \/ cur[v][1] = c /\ seen'[v].draft \in DOMAIN drafts'[c]
            /\ pc[v] = "insert" /\ cur[v][1] # c =>
                 pc'[v] = "insert" /\ cur'[v] = cur[v] /\ seen'[v].draft = seen[v].draft
      BY <2>0, <3>2, <3>4
    <3>9. Len(drafts[c]) <= Len(drafts'[c])
      BY <3>2
    <3> HIDE DEF c
    <3> QED BY <2>0, <3>1, <3>5, <3>6, <3>7, <3>8, <3>9, DraftsOfOneChat DEF c
  <2> QED BY <1>4, <2>1, <2>2 DEF WriteDraft
<1>5. CASE ClaimDraftForAutoSend(w)
  <2>0. /\ pc[w] = "autosend" /\ UNCHANGED <<cur, seen, approving, sendFailed>>
        /\ cur[w][1] \in Chats /\ drafts[cur[w][1]] \in Seq(DraftRows)
    BY <1>0, <1>5 DEF ClaimDraftForAutoSend
  <2>1. CASE Goto(w, "delete") /\ UNCHANGED drafts
    BY <1>a, <2>0, <2>1, WorkerLeavesDrafts
  <2>2. CASE /\ drafts' = [drafts EXCEPT ![cur[w][1]] = Claimed(@, seen[w].draft, "auto")]
             /\ Goto(w, "insert")
    <3> DEFINE c == cur[w][1]
    <3>1. /\ drafts'[c] = Claimed(drafts[c], seen[w].draft, "auto")
          /\ \A ch \in Chats \ {c} : drafts'[ch] = drafts[ch]
      BY <2>0, <2>2 DEF Typed, StoreTyped
    <3>2. /\ Len(drafts'[c]) = Len(drafts[c]) /\ DOMAIN drafts'[c] = DOMAIN drafts[c]
          /\ Len(drafts[c]) \in Nat
      BY <2>0, <3>1, ClaimedFacts
    <3>3. \A i \in DOMAIN drafts[c] :
            /\ drafts'[c][i].st # "suggested" /\ drafts'[c][i].msg = drafts[c][i].msg
            /\ drafts'[c][i].st = "sent" => drafts[c][i].st = "sent" \/ i = seen[w].draft
      BY <2>0, <3>1, ClaimedFacts
    <3>4. /\ \A v \in Workers \ {w} : pc'[v] = pc[v]
          /\ pc'[w] = "insert"
      BY <1>0, <2>2 DEF Goto
    <3>5. c \notin sendFailed' =>
            \A i \in DOMAIN drafts'[c] : drafts'[c][i].st = "sent" => Dispatched(c, i)'
      <4>1. ASSUME c \notin sendFailed, NEW i \in DOMAIN drafts[c], drafts'[c][i].st = "sent"
            PROVE  Dispatched(c, i)'
        <5>1. CASE i = seen[w].draft BY <2>0, <3>4, <5>1 DEF Dispatched
        <5>2. CASE i # seen[w].draft
          <6>1. Dispatched(c, i)
            BY <2>0, <3>3, <4>1, <5>2 DEF DraftInv, SentDraftsHaveMessages, Dispatched
          <6> QED BY <2>0, <3>3, <3>4, <4>1, <6>1 DEF Dispatched
        <5> QED BY <5>1, <5>2
      <4> QED BY <2>0, <3>2, <4>1
    <3>6. \A i, j \in DOMAIN drafts'[c] :
            drafts'[c][i].st = "suggested" /\ drafts'[c][j].st = "suggested" => i = j
      BY <3>2, <3>3
    <3>7. approving[c] <= Len(drafts'[c])
      BY <2>0, <3>2 DEF DraftInv, DraftsExist
    <3>8. \A v \in Workers :
            /\ pc'[v] \in {"autosend", "insert"} => pc[v] \in {"autosend", "insert"}
            /\ pc[v] = "insert" => pc'[v] = "insert"
      BY <2>0, <3>4
    <3>9. Len(drafts[c]) <= Len(drafts'[c])
      BY <3>2
    <3> HIDE DEF c
    <3> QED BY <2>0, <3>1, <3>5, <3>6, <3>7, <3>8, <3>9, DraftsOfOneChat DEF c
  <2> QED BY <1>5, <2>1, <2>2 DEF ClaimDraftForAutoSend
<1>6. CASE DispatchSend(w)
  <2> DEFINE c == cur[w][1]
  <2>0. /\ pc[w] = "insert" /\ UNCHANGED <<cur, seen, approving>>
        /\ c \in Chats /\ drafts[c] \in Seq(DraftRows) /\ seen[w].draft \in Nat
        /\ sendFailed \subseteq sendFailed'
    BY <1>0, <1>6, RowEdits DEF DispatchSend
  <2>1. /\ \A v \in Workers \ {w} : pc'[v] = pc[v]
        /\ pc'[w] = "delete"
    BY <1>0, <1>6 DEF DispatchSend, Goto
  <2>2. \/ drafts' = drafts /\ c \in sendFailed'
        \/ drafts'[c] = [drafts[c] EXCEPT ![seen[w].draft].msg = TRUE]
    BY <1>6, <2>0 DEF DispatchSend, Typed, StoreTyped
  <2>3. \A ch \in Chats \ {c} : drafts'[ch] = drafts[ch]
    BY <1>6 DEF DispatchSend, Typed, StoreTyped
  <2>4. /\ Len(drafts'[c]) = Len(drafts[c]) /\ DOMAIN drafts'[c] = DOMAIN drafts[c]
        /\ Len(drafts[c]) \in Nat
    BY <2>0, <2>2, MessageFacts, DraftsAreRows
  <2>5. c \notin sendFailed' => \A i \in DOMAIN drafts[c] :
          /\ drafts'[c][i].st = drafts[c][i].st
          /\ drafts[c][i].msg \/ i = seen[w].draft => drafts'[c][i].msg
    <3>1. ASSUME c \notin sendFailed'
          PROVE  \A i \in DOMAIN drafts[c] :
                   /\ drafts'[c][i].st = drafts[c][i].st
                   /\ drafts[c][i].msg \/ i = seen[w].draft => drafts'[c][i].msg
      <4>1. drafts'[c] = [drafts[c] EXCEPT ![seen[w].draft].msg = TRUE]
        BY <2>2, <3>1
      <4> HIDE DEF c
      <4> QED BY <2>0, <4>1, MessageFacts
    <3> QED BY <3>1
  <2>6. c \notin sendFailed' =>
          \A i \in DOMAIN drafts'[c] : drafts'[c][i].st = "sent" => Dispatched(c, i)'
    <3>1. ASSUME c \notin sendFailed', NEW i \in DOMAIN drafts[c], drafts'[c][i].st = "sent"
          PROVE  Dispatched(c, i)'
      <4>1. Dispatched(c, i)
        BY <2>0, <2>5, <3>1 DEF DraftInv, SentDraftsHaveMessages, Dispatched
      <4> QED BY <2>0, <2>1, <2>5, <3>1, <4>1 DEF Dispatched
    <3> QED BY <2>4, <3>1
  <2>7. c \notin sendFailed' => \A i, j \in DOMAIN drafts'[c] :
          drafts'[c][i].st = "suggested" /\ drafts'[c][j].st = "suggested" => i = j
    <3>1. c \notin sendFailed => \A i, j \in Suggested(c) : i = j
      BY <2>0 DEF DraftInv, SuggestionsAgree
    <3> QED BY <2>0, <2>4, <2>5, <3>1 DEF Suggested
  <2>8. approving[c] <= Len(drafts'[c])
    BY <2>0, <2>4 DEF DraftInv, DraftsExist
  <2>9. \A v \in Workers :
          /\ pc'[v] \in {"autosend", "insert"} => pc[v] \in {"autosend", "insert"}
          /\ pc[v] = "insert" /\ cur[v][1] # c => pc'[v] = "insert"
    BY <2>0, <2>1
  <2>10. Len(drafts[c]) <= Len(drafts'[c])
    BY <2>4
  <2> HIDE DEF c
  <2> QED BY <2>0, <2>3, <2>6, <2>7, <2>8, <2>9, <2>10, DraftsOfOneChat DEF c
<1> QED BY <1>1, <1>2, <1>3, <1>4, <1>5, <1>6 DEF Run

\* The operators' writers.
LEMMA OperatorDrafts ==
  ASSUME Typed, Typed', DraftInv, NEW c \in Chats,
         \/ ApproveSend(c) \/ DismissDrafts(c) \/ SuggestWrite(c)
         \/ \E i \in DOMAIN drafts[c] : ApproveClaim(c, i)
  PROVE  DraftInv'
<1>0. /\ drafts[c] \in Seq(DraftRows) /\ Len(drafts[c]) \in Nat
      /\ DOMAIN drafts[c] = 1..Len(drafts[c]) /\ approving[c] \in Nat
      /\ drafts \in [Chats -> Seq(DraftRows)] /\ approving \in [Chats -> Nat]
      /\ approving[c] <= Len(drafts[c])
      /\ \A i \in DOMAIN drafts[c] : drafts[c][i] \in DraftRows
  BY DraftsAreRows DEF Typed, StoreTyped, RestTyped, DraftInv, DraftsExist
<1>a. c \notin sendFailed =>
        /\ \A i \in DOMAIN drafts[c] : drafts[c][i].st = "sent" => Dispatched(c, i)
        /\ \A i, j \in DOMAIN drafts[c] :
             drafts[c][i].st = "suggested" /\ drafts[c][j].st = "suggested" => i = j
  BY DEF DraftInv, SentDraftsHaveMessages, Dispatched, SuggestionsAgree, Suggested
<1>1. CASE SuggestWrite(c)
  <2>1. /\ UNCHANGED <<pc, cur, seen, approving, sendFailed>>
        /\ drafts'[c] = WithDraft(drafts[c], manual[c].trig)
        /\ \A ch \in Chats \ {c} : drafts'[ch] = drafts[ch]
        /\ manual[c] \in SuggestRows
    BY <1>0, <1>1 DEF SuggestWrite, history, Typed, RestTyped
  <2>2. manual[c].trig \in Nat
    BY <2>1, RowEdits
  <2>3. /\ Len(drafts'[c]) = Len(drafts[c]) + 1 /\ DOMAIN drafts'[c] = 1..(Len(drafts[c]) + 1)
        /\ \A i \in DOMAIN drafts[c] :
             /\ drafts'[c][i].st # "suggested" /\ drafts'[c][i].msg = drafts[c][i].msg
             /\ drafts'[c][i].st = "sent" => drafts[c][i].st = "sent"
        /\ drafts'[c][Len(drafts[c]) + 1].st = "suggested"
    BY <1>0, <2>1, <2>2, WithDraftFacts
  <2>4. c \notin sendFailed' =>
          \A i \in DOMAIN drafts'[c] : drafts'[c][i].st = "sent" => Dispatched(c, i)'
    <3>1. ASSUME c \notin sendFailed, NEW i \in DOMAIN drafts'[c], drafts'[c][i].st = "sent"
          PROVE  Dispatched(c, i)'
      <4>1. i \in DOMAIN drafts[c] BY <1>0, <2>3, <3>1
      <4>2. Dispatched(c, i) BY <1>a, <2>3, <3>1, <4>1
      <4> QED BY <2>1, <2>3, <4>1, <4>2 DEF Dispatched
    <3> QED BY <2>1, <3>1
  <2>5. \A i, j \in DOMAIN drafts'[c] :
          drafts'[c][i].st = "suggested" /\ drafts'[c][j].st = "suggested" => i = j
    BY <1>0, <2>3
  <2>6. Len(drafts[c]) <= Len(drafts'[c]) /\ approving'[c] <= Len(drafts'[c])
    BY <1>0, <2>1, <2>3
  <2> QED BY <2>1, <2>4, <2>5, <2>6, DraftsOfOneChat
<1>2. ASSUME NEW i \in DOMAIN drafts[c], ApproveClaim(c, i) PROVE DraftInv'
  <2>1. /\ UNCHANGED <<pc, cur, seen, sendFailed>>
        /\ drafts'[c] = Claimed(drafts[c], i, "operator")
        /\ approving[c] = 0 /\ approving'[c] = i
        /\ \A ch \in Chats \ {c} : drafts'[ch] = drafts[ch] /\ approving'[ch] = approving[ch]
    BY <1>0, <1>2 DEF ApproveClaim, history
  <2>2. /\ Len(drafts'[c]) = Len(drafts[c]) /\ DOMAIN drafts'[c] = DOMAIN drafts[c]
        /\ \A j \in DOMAIN drafts[c] :
             /\ drafts'[c][j].st # "suggested" /\ drafts'[c][j].msg = drafts[c][j].msg
             /\ drafts'[c][j].st = "sent" => drafts[c][j].st = "sent" \/ j = i
    BY <1>0, <2>1, ClaimedFacts
  <2>3. c \notin sendFailed' =>
          \A j \in DOMAIN drafts'[c] : drafts'[c][j].st = "sent" => Dispatched(c, j)'
    <3>1. ASSUME c \notin sendFailed, NEW j \in DOMAIN drafts[c], drafts'[c][j].st = "sent"
          PROVE  Dispatched(c, j)'
      <4>1. CASE j = i BY <2>1, <4>1 DEF Dispatched
      <4>2. CASE j # i
        <5>1. Dispatched(c, j) BY <1>a, <2>2, <3>1, <4>2
        <5>2. approving[c] # j BY <1>0, <2>1
        <5> QED BY <2>1, <2>2, <3>1, <5>1, <5>2 DEF Dispatched
      <4> QED BY <4>1, <4>2
    <3> QED BY <2>1, <2>2, <3>1
  <2>4. \A j, k \in DOMAIN drafts'[c] :
          drafts'[c][j].st = "suggested" /\ drafts'[c][k].st = "suggested" => j = k
    BY <2>2
  <2>5. Len(drafts[c]) <= Len(drafts'[c]) /\ approving'[c] <= Len(drafts'[c])
    BY <1>0, <2>1, <2>2
  <2> QED BY <2>1, <2>3, <2>4, <2>5, DraftsOfOneChat
<1>3. CASE ApproveSend(c)
  <2>1. /\ UNCHANGED <<pc, cur, seen>> /\ approving'[c] = 0 /\ sendFailed \subseteq sendFailed'
        /\ \A ch \in Chats \ {c} : drafts'[ch] = drafts[ch] /\ approving'[ch] = approving[ch]
    BY <1>0, <1>3 DEF ApproveSend
  <2>2. \/ drafts'[c] = [drafts[c] EXCEPT ![approving[c]].msg = TRUE]
        \/ /\ c \in sendFailed'
           /\ drafts'[c] = [drafts[c] EXCEPT ![approving[c]].st = "suggested"]
    BY <1>0, <1>3 DEF ApproveSend
  <2>3. Len(drafts'[c]) = Len(drafts[c])
    <3>1. /\ Len([drafts[c] EXCEPT ![approving[c]].msg = TRUE]) = Len(drafts[c])
          /\ Len([drafts[c] EXCEPT ![approving[c]].st = "suggested"]) = Len(drafts[c])
      BY <1>0, RowSet
    <3> QED BY <2>2, <3>1
  <2>4. ASSUME c \notin sendFailed'
        PROVE  /\ \A i, j \in DOMAIN drafts'[c] :
                    drafts'[c][i].st = "suggested" /\ drafts'[c][j].st = "suggested" => i = j
               /\ \A i \in DOMAIN drafts'[c] : drafts'[c][i].st = "sent" => Dispatched(c, i)'
    <3>1. /\ DOMAIN drafts'[c] = DOMAIN drafts[c]
          /\ \A i \in DOMAIN drafts[c] :
               /\ drafts'[c][i].st = drafts[c][i].st
               /\ drafts[c][i].msg \/ i = approving[c] => drafts'[c][i].msg
      <4>1. drafts'[c] = [drafts[c] EXCEPT ![approving[c]].msg = TRUE]
        BY <2>2, <2>4
      <4> QED BY <1>0, <4>1, MessageFacts
    <3>2. ASSUME NEW i \in DOMAIN drafts[c], drafts'[c][i].st = "sent"
          PROVE  Dispatched(c, i)'
      <4>1. Dispatched(c, i) BY <1>a, <2>1, <2>4, <3>1, <3>2
      <4> QED BY <2>1, <3>1, <3>2, <4>1 DEF Dispatched
    <3> QED BY <1>a, <2>1, <2>4, <3>1, <3>2
  <2>5. Len(drafts[c]) <= Len(drafts'[c]) /\ approving'[c] <= Len(drafts'[c])
    BY <1>0, <2>1, <2>3
  <2> QED BY <2>1, <2>4, <2>5, DraftsOfOneChat
<1>4. CASE DismissDrafts(c)
  <2>1. /\ UNCHANGED <<pc, cur, seen, approving, sendFailed>>
        /\ drafts'[c] = [i \in DOMAIN drafts[c] |-> IF drafts[c][i].st = "suggested"
             THEN [drafts[c][i] EXCEPT !.st = "dismissed"] ELSE drafts[c][i]]
        /\ \A ch \in Chats \ {c} : drafts'[ch] = drafts[ch]
    BY <1>0, <1>4 DEF DismissDrafts, process, history
  <2>2. Len(drafts'[c]) = Len(drafts[c]) /\ DOMAIN drafts'[c] = DOMAIN drafts[c]
    BY <1>0, <2>1, DismissedRows
  <2>3. ASSUME NEW i \in DOMAIN drafts[c]
        PROVE  /\ drafts'[c][i].st # "suggested" /\ drafts'[c][i].msg = drafts[c][i].msg
               /\ drafts'[c][i].st = "sent" => drafts[c][i].st = "sent"
    <3>1. /\ drafts[c][i] \in DraftRows
          /\ drafts'[c][i] = IF drafts[c][i].st = "suggested"
               THEN [drafts[c][i] EXCEPT !.st = "dismissed"] ELSE drafts[c][i]
      BY <1>0, <2>1
    <3> QED BY <3>1 DEF DraftRows
  <2>4. c \notin sendFailed' =>
          \A i \in DOMAIN drafts'[c] : drafts'[c][i].st = "sent" => Dispatched(c, i)'
    <3>1. ASSUME c \notin sendFailed, NEW i \in DOMAIN drafts[c], drafts'[c][i].st = "sent"
          PROVE  Dispatched(c, i)'
      <4>1. Dispatched(c, i) BY <1>a, <2>3, <3>1
      <4> QED BY <2>1, <2>3, <3>1, <4>1 DEF Dispatched
    <3> QED BY <2>1, <2>2, <3>1
  <2>5. \A i, j \in DOMAIN drafts'[c] :
          drafts'[c][i].st = "suggested" /\ drafts'[c][j].st = "suggested" => i = j
    BY <2>2, <2>3
  <2>6. Len(drafts[c]) <= Len(drafts'[c]) /\ approving'[c] <= Len(drafts'[c])
    BY <1>0, <2>1, <2>2
  <2> QED BY <2>1, <2>4, <2>5, <2>6, DraftsOfOneChat
<1> QED BY <1>1, <1>2, <1>3, <1>4

\* A crash: whoever was sending is remembered in sendFailed.
LEMMA CrashDrafts ==
  ASSUME Typed, DraftInv, CrashRestart
  PROVE  DraftInv'
<1>1. /\ UNCHANGED drafts /\ \A ch \in Chats : approving'[ch] = 0
      /\ \A w \in Workers : pc'[w] = "idle"
      /\ sendFailed' = sendFailed \cup {ch \in Chats :
           approving[ch] # 0 \/ \E w \in Workers : pc[w] = "insert" /\ cur[w][1] = ch}
  BY DEF CrashRestart, store
<1>2. DraftsExist'
  <2>1. \A ch \in Chats : Len(drafts[ch]) \in Nat
    BY DraftsAreRows DEF Typed, StoreTyped
  <2> QED BY <1>1, <2>1 DEF DraftsExist
<1>3. SuggestionsAgree'
  BY <1>1 DEF DraftInv, SuggestionsAgree, Suggested
<1>4. SentDraftsHaveMessages'
  <2>1. ASSUME NEW ch \in Chats \ sendFailed', NEW i \in DOMAIN drafts[ch], drafts[ch][i].st = "sent"
        PROVE  drafts[ch][i].msg
    <3>1. Dispatched(ch, i)
      BY <1>1, <2>1 DEF DraftInv, SentDraftsHaveMessages, Dispatched
    <3>2. approving[ch] = 0 /\ ~\E w \in Workers : pc[w] = "insert" /\ cur[w][1] = ch
      BY <1>1, <2>1
    <3>3. i # 0
      BY DraftsAreRows DEF Typed, StoreTyped
    <3> QED BY <3>1, <3>2, <3>3 DEF Dispatched
  <2> QED BY <1>1, <2>1 DEF SentDraftsHaveMessages
<1> QED BY <1>2, <1>3, <1>4 DEF DraftInv

LEMMA DraftStep ==
  ASSUME Typed, Typed', DraftInv, [Next]_vars
  PROVE  DraftInv'
<1>1. ASSUME UNCHANGED <<drafts, approving, sendFailed, pc, cur, seen>> PROVE DraftInv'
  BY <1>1, DraftsQuiet
<1>2. ASSUME NEW ch \in Chats, ChatStep(ch) PROVE DraftInv'
  <2>1. CASE Ingest(ch) \/ Rearm(ch) \/ Arming(ch) \/ DeadlinePasses(ch) \/ HumanReplies(ch)
    BY <1>1, <2>1 DEF Ingest, Rearm, Arming, OnInboundMessage, ArmDebounce, DeadlinePasses,
                      HumanReplies, store, process, history
  <2>2. CASE \/ \E m \in 1..MaxInbound : ReenqueueMissingDraft(ch, m)
             \/ Suggest(ch) \/ SuggestLoad(ch)
    BY <1>1, <2>2 DEF ReenqueueMissingDraft, Suggest, SuggestLoad, store, history
  <2> QED BY <1>2, <2>1, <2>2, OperatorDrafts DEF ChatStep
<1>3. CASE Loop \/ \E id \in JobIds : JobAges(id)
  BY <1>1, <1>3 DEF Loop, ClaimDueDispatchJobs, RecoverDispatchJobs, Enqueue, JobAges, store,
                    process, history
<1>4. ASSUME NEW m \in Modes, SetAutomationSettings(m) PROVE DraftInv'
  BY <1>1, <1>4 DEF SetAutomationSettings, process
<1>5. CASE UNCHANGED vars
  BY <1>1, <1>5 DEF vars, store, process, history
<1> QED BY <1>2, <1>3, <1>4, <1>5, NextSteps, WorkerDrafts, CrashDrafts

LEMMA InitDrafts == Init => DraftInv
<1> SUFFICES ASSUME Init PROVE DraftInv
  OBVIOUS
<1>1. \A ch \in Chats : drafts[ch] = <<>> /\ approving[ch] = 0
  BY DEF Init
<1>2. Len(<<>>) = 0 /\ DOMAIN <<>> = {}
  OBVIOUS
<1>3. \A w \in Workers : pc[w] = "idle"
  BY DEF Init
<1> QED BY <1>1, <1>2, <1>3 DEF DraftInv, DraftsExist, SuggestionsAgree, Suggested,
                                SentDraftsHaveMessages

LEMMA DraftInvariant == Spec => []DraftInv
BY InitTyped, TypedStep, InitDrafts, DraftStep, PTL DEF Spec

\* A chat shows one suggestion at a time, as long as no claimed draft had to
\* be put back.
THEOREM ChatsShowOneSuggestion == Spec => []OneSuggestion
<1>1. DraftInv => OneSuggestion
  <2> SUFFICES ASSUME DraftInv, NEW ch \in Chats \ sendFailed
               PROVE  Cardinality(Suggested(ch)) <= 1
    BY DEF OneSuggestion, Suggested
  <2>1. CASE Suggested(ch) = {}
    BY <2>1, FS_EmptySet
  <2>2. ASSUME NEW i \in Suggested(ch) PROVE Cardinality(Suggested(ch)) <= 1
    <3>1. Suggested(ch) = {i}
      BY <2>2 DEF DraftInv, SuggestionsAgree
    <3> QED BY <3>1, FS_Singleton
  <2> QED BY <2>1, <2>2
<1> QED BY <1>1, DraftInvariant, PTL

\* A draft shown as sent has its message, is being sent, or its send failed.
THEOREM SentDraftsAreSent == Spec => []SentDraftsHaveMessages
<1>1. DraftInv => SentDraftsHaveMessages
  BY DEF DraftInv
<1> QED BY <1>1, DraftInvariant, PTL

----------------------------------------------------------------------------
(* Superseded generations are discarded.                                    *)

\* A step that arms no burst and hands out no version.
LEMMA VersionsQuiet ==
  ASSUME Typed, Typed', VersionsArePast,
         UNCHANGED armedAt, \A ch \in Chats : inbound[ch] <= inbound'[ch],
         restarted \subseteq restarted',
         \A ch \in Chats \ restarted' : debounce'[ch].ver = debounce[ch].ver,
         \A id \in JobIds : jobs'[id] # NoJob => jobs[id] # NoJob /\ jobs'[id].ver = jobs[id].ver,
         \A w \in Workers : pc'[w] # "idle" =>
           /\ pc[w] # "idle" /\ cur'[w] = cur[w] /\ seen'[w].ver = seen[w].ver
           /\ pc'[w] = "write" => pc[w] = "write" /\ seen'[w].trig = seen[w].trig
  PROVE  VersionsArePast'
<1>1. \A ch \in Chats : armedAt'[ch] <= inbound'[ch]
  BY DEF VersionsArePast, Typed, StoreTyped, HistoryTyped
<1>2. ASSUME NEW id \in JobIds, id[1] \notin restarted', jobs'[id] # NoJob
      PROVE  jobs'[id].ver <= debounce'[id[1]].ver
  BY <1>2, JobFacts DEF VersionsArePast, Exists
<1>3. ASSUME NEW w \in Workers, pc'[w] # "idle", cur'[w][1] \notin restarted'
      PROVE  /\ seen'[w].ver <= debounce'[cur'[w][1]].ver
             /\ pc'[w] = "write" /\ BurstIsCurrent(w)' => seen'[w].trig >= armedAt'[cur'[w][1]]
  <2>1. cur[w][1] \in Chats \ restarted'
    BY <1>3, JobFacts DEF Typed, WorkersTyped, WorkersHoldJobs
  <2> QED BY <1>3, <2>1 DEF VersionsArePast, BurstIsCurrent
<1> QED BY <1>1, <1>2, <1>3 DEF VersionsArePast, Exists

LEMMA InboundVersions ==
  ASSUME Typed, Typed', VersionsArePast, NEW c \in Chats, ChatStep(c)
  PROVE  VersionsArePast'
<1>0. /\ inbound \in [Chats -> Nat] /\ debounce \in [Chats -> DebounceRows]
      /\ armedAt \in [Chats -> Nat]
  BY DEF Typed, StoreTyped, HistoryTyped
<1>1. CASE UNCHANGED <<inbound, debounce, jobs, pc, cur, seen, armedAt, restarted>>
  BY <1>0, <1>1, VersionsQuiet
<1>2. CASE Ingest(c)
  <2>1. /\ UNCHANGED <<debounce, jobs, pc, cur, seen, armedAt, restarted>>
        /\ \A ch \in Chats : inbound[ch] <= inbound'[ch]
    BY <1>0, <1>2 DEF Ingest, history
  <2> QED BY <2>1, VersionsQuiet
<1>3. CASE DeadlinePasses(c)
  <2>1. /\ UNCHANGED <<inbound, jobs, pc, cur, seen, armedAt, restarted>>
        /\ debounce' = [debounce EXCEPT ![c].due = TRUE]
    BY <1>3 DEF DeadlinePasses, process, history
  <2>2. \A ch \in Chats : debounce'[ch].ver = debounce[ch].ver
    BY <1>0, <2>1 DEF DebounceRows
  <2> QED BY <1>0, <2>1, <2>2, VersionsQuiet
<1>4. CASE ArmDebounce(c) /\ ~UNCHANGED <<debounce, armedAt>>
  <2>1. /\ UNCHANGED <<inbound, jobs, pc, cur, seen, restarted>>
        /\ armedAt' = [armedAt EXCEPT ![c] = inbound[c]]
        /\ debounce' = [debounce EXCEPT
             ![c] = [st |-> "pending", ver |-> debounce[c].ver + 1, due |-> FALSE]]
    BY <1>4 DEF ArmDebounce, Latest
  <2>2. /\ debounce'[c].ver = debounce[c].ver + 1 /\ armedAt'[c] = inbound[c]
        /\ \A ch \in Chats \ {c} : debounce'[ch] = debounce[ch] /\ armedAt'[ch] = armedAt[ch]
    BY <1>0, <2>1
  <2>3. \A ch \in Chats : debounce[ch].ver \in Nat
    BY <1>0, RowEdits
  <2>4. \A ch \in Chats : armedAt'[ch] <= inbound[ch]
    BY <1>0, <2>2 DEF VersionsArePast
  <2>5. ASSUME NEW id \in JobIds, id[1] \notin restarted, jobs[id] # NoJob
        PROVE  jobs[id].ver <= debounce'[id[1]].ver
    <3>1. jobs[id].ver <= debounce[id[1]].ver /\ id[1] \in Chats /\ jobs[id] \in JobRows
      BY <2>5, JobFacts DEF VersionsArePast, Exists, Typed, StoreTyped
    <3>2. jobs[id].ver \in Nat BY <3>1, RowEdits
    <3> QED BY <2>2, <2>3, <3>1, <3>2
  <2>6. ASSUME NEW w \in Workers, pc[w] # "idle", cur[w][1] \notin restarted
        PROVE  /\ seen[w].ver <= debounce'[cur[w][1]].ver
               /\ pc[w] = "write" /\ debounce'[cur[w][1]].ver = seen[w].ver =>
                    seen[w].trig >= armedAt'[cur[w][1]]
    <3>1. /\ seen[w].ver <= debounce[cur[w][1]].ver /\ cur[w][1] \in Chats /\ seen[w] \in SeenRows
          /\ pc[w] = "write" /\ debounce[cur[w][1]].ver = seen[w].ver =>
               seen[w].trig >= armedAt[cur[w][1]]
      BY <2>6, JobFacts
      DEF VersionsArePast, BurstIsCurrent, Typed, WorkersTyped, WorkersHoldJobs
    <3>2. seen[w].ver \in Nat BY <3>1, RowEdits
    <3> QED BY <2>2, <2>3, <3>1, <3>2
  <2> QED BY <2>1, <2>4, <2>5, <2>6 DEF VersionsArePast, Exists, BurstIsCurrent
<1>7. CASE ArmDebounce(c) /\ UNCHANGED <<debounce, armedAt>>
  BY <1>1, <1>7 DEF ArmDebounce
<1>5. CASE Rearm(c) \/ OnInboundMessage(c) \/ HumanReplies(c) \/ ApproveSend(c) \/ DismissDrafts(c)
  BY <1>1, <1>5 DEF Rearm, OnInboundMessage, HumanReplies, ApproveSend, DismissDrafts, store,
                    process, history
<1>6. CASE \/ \E m \in 1..MaxInbound : ReenqueueMissingDraft(c, m)
           \/ Suggest(c) \/ SuggestLoad(c) \/ SuggestWrite(c)
           \/ \E i \in DOMAIN drafts[c] : ApproveClaim(c, i)
  BY <1>1, <1>6 DEF ReenqueueMissingDraft, Suggest, SuggestLoad, SuggestWrite, ApproveClaim,
                    store, process, history
<1> QED BY <1>2, <1>3, <1>4, <1>5, <1>6, <1>7 DEF ChatStep, Arming

LEMMA LoopVersions ==
  ASSUME Typed, Typed', VersionsArePast,
         \/ Loop \/ \E id \in JobIds : JobAges(id)
         \/ \E m \in Modes : SetAutomationSettings(m)
         \/ CrashRestart \/ UNCHANGED vars
  PROVE  VersionsArePast'
<1>0. /\ inbound \in [Chats -> Nat] /\ debounce \in [Chats -> DebounceRows]
      /\ jobs \in [JobIds -> JobRows \cup {NoJob}]
  BY DEF Typed, StoreTyped
<1>1. CASE UNCHANGED <<inbound, debounce, jobs, pc, cur, seen, armedAt, restarted>>
  BY <1>0, <1>1, VersionsQuiet
<1>2. CASE ClaimDueDispatchJobs
  <2>1. /\ UNCHANGED <<inbound, pc, cur, seen, armedAt, restarted>>
        /\ \A ch \in Chats : debounce'[ch].ver = debounce[ch].ver
        /\ \A id \in JobIds : \/ jobs'[id] = jobs[id]
                              \/ jobs'[id].ver = debounce[id[1]].ver
    <3>1. \A ch \in Chats : debounce'[ch] = debounce[ch]
                            \/ debounce'[ch] = [debounce[ch] EXCEPT !.st = "claimed"]
      BY <1>2 DEF ClaimDueDispatchJobs
    <3>2. \A ch \in Chats : debounce'[ch].ver = debounce[ch].ver
      BY <1>0, <3>1 DEF DebounceRows
    <3> QED BY <1>2, <3>2 DEF ClaimDueDispatchJobs, history
  <2>2. \A ch \in Chats : debounce[ch].ver \in Nat
    BY <1>0, RowEdits
  <2>3. ASSUME NEW id \in JobIds, id[1] \notin restarted, jobs'[id] # NoJob
        PROVE  jobs'[id].ver <= debounce'[id[1]].ver
    <3>1. id[1] \in Chats BY JobFacts
    <3>2. CASE jobs'[id] = jobs[id] BY <2>1, <2>3, <3>1, <3>2 DEF VersionsArePast, Exists
    <3>3. CASE jobs'[id].ver = debounce[id[1]].ver BY <2>1, <2>2, <3>1, <3>3
    <3> QED BY <2>1, <3>2, <3>3
  <2>4. ASSUME NEW w \in Workers, pc[w] # "idle", cur[w][1] \notin restarted
        PROVE  /\ seen[w].ver <= debounce'[cur[w][1]].ver
               /\ pc[w] = "write" /\ debounce'[cur[w][1]].ver = seen[w].ver =>
                    seen[w].trig >= armedAt[cur[w][1]]
    <3>1. cur[w][1] \in Chats
      BY <2>4, JobFacts DEF Typed, WorkersTyped, WorkersHoldJobs
    <3> QED BY <2>1, <2>4, <3>1 DEF VersionsArePast, BurstIsCurrent
  <2> QED BY <2>1, <2>3, <2>4 DEF VersionsArePast, Exists, BurstIsCurrent
<1>3. CASE RecoverDispatchJobs \/ \E id \in JobIds : JobAges(id)
  <2>1. UNCHANGED <<inbound, debounce, pc, cur, seen, armedAt, restarted>>
    BY <1>3 DEF RecoverDispatchJobs, JobAges, process, history
  <2>2. \A id \in JobIds : \/ jobs'[id] = jobs[id]
                           \/ /\ jobs[id] \in JobRows
                              /\ \/ jobs'[id] = [jobs[id] EXCEPT !.st = "pending", !.old = FALSE]
                                 \/ jobs'[id] = [jobs[id] EXCEPT !.old = TRUE]
    BY <1>0, <1>3 DEF RecoverDispatchJobs, RecoverableDispatchJobs, JobAges, Exists
  <2>3. \A id \in JobIds : jobs'[id] # NoJob => jobs[id] # NoJob /\ jobs'[id].ver = jobs[id].ver
    BY <2>2, NoJobAssumption DEF JobRows
  <2> QED BY <1>0, <2>1, <2>3, VersionsQuiet
<1>4. ASSUME NEW id \in JobIds, Enqueue(id) PROVE VersionsArePast'
  BY <1>1, <1>4 DEF Enqueue, store, history
<1>5. ASSUME NEW m \in Modes, SetAutomationSettings(m) PROVE VersionsArePast'
  <2>1. /\ UNCHANGED <<inbound, pc, cur, seen, armedAt>>
        /\ restarted' = restarted \cup {ch \in Chats : debounce'[ch] # debounce[ch]}
        /\ \A id \in JobIds : jobs'[id] # NoJob => jobs'[id] = jobs[id]
    BY <1>0, <1>5 DEF SetAutomationSettings, process
  <2> QED BY <1>0, <2>1, VersionsQuiet
<1>6. CASE CrashRestart
  <2>1. /\ UNCHANGED <<inbound, debounce, jobs, armedAt, restarted>>
        /\ \A w \in Workers : pc'[w] = "idle"
    BY <1>6 DEF CrashRestart, store
  <2> QED BY <1>0, <2>1, VersionsQuiet
<1>7. CASE UNCHANGED vars
  BY <1>1, <1>7 DEF vars, store, process, history
<1> QED BY <1>2, <1>3, <1>4, <1>5, <1>6, <1>7 DEF Loop

LEMMA WorkerVersions ==
  ASSUME Typed, Typed', VersionsArePast, NEW w \in Workers,
         Run(w) \/ \E id \in JobIds : Take(w, id)
  PROVE  VersionsArePast'
<1>0. /\ inbound \in [Chats -> Nat] /\ jobs \in [JobIds -> JobRows \cup {NoJob}]
      /\ pc \in [Workers -> WorkerPc] /\ cur \in [Workers -> JobIds \cup {NoJob}]
      /\ seen \in [Workers -> SeenRows]
      /\ pc[w] # "idle" => cur[w] \in JobIds /\ cur[w][1] \in Chats
  BY JobFacts DEF Typed, StoreTyped, WorkersTyped, WorkersHoldJobs
<1>1. /\ UNCHANGED <<inbound, debounce, armedAt, restarted>>
      /\ \A v \in Workers \ {w} : pc'[v] = pc[v] /\ cur'[v] = cur[v] /\ seen'[v] = seen[v]
  <2>1. CASE \E id \in JobIds : Take(w, id)
    BY <1>0, <2>1 DEF Take, Goto, store, history
  <2>2. CASE CleanUpOwned(w) \/ ClaimDispatchJob(w) \/ LoadSettings(w) \/ LoadForResponse(w)
    BY <1>0, <2>2 DEF CleanUpOwned, ClaimDispatchJob, LoadSettings, LoadForResponse, Leave, Goto,
                      store, history
  <2>3. CASE WriteDraft(w) \/ ClaimDraftForAutoSend(w) \/ DispatchSend(w)
    BY <1>0, <2>3 DEF WriteDraft, ClaimDraftForAutoSend, DispatchSend, Goto, history
  <2>4. CASE DeleteDispatchJob(w) \/ GenerationFails(w) \/ GiveUpOrRetry(w)
    BY <1>0, <2>4 DEF DeleteDispatchJob, GenerationFails, GiveUpOrRetry, Leave, Goto, store,
                      history
  <2> QED BY <2>1, <2>2, <2>3, <2>4 DEF Run
<1>2. ASSUME pc'[w] # "idle" => /\ pc[w] # "idle" /\ cur'[w] = cur[w] /\ pc'[w] # "write"
                                /\ seen'[w].ver = seen[w].ver,
             \A id \in JobIds : jobs'[id] # NoJob => jobs[id] # NoJob /\ jobs'[id].ver = jobs[id].ver
      PROVE  VersionsArePast'
  BY <1>0, <1>1, <1>2, VersionsQuiet
<1>3. ASSUME NEW id \in JobIds, Take(w, id) PROVE VersionsArePast'
  <2>1. UNCHANGED jobs BY <1>3 DEF Take, store
  <2>2. CASE UNCHANGED <<pc, cur, seen>>
    BY <1>0, <1>1, <2>1, <2>2, VersionsQuiet
  <2>3. CASE /\ Exists(id) /\ (Goto(w, "owned") \/ Goto(w, "claim"))
             /\ cur' = [cur EXCEPT ![w] = id]
             /\ seen' = [seen EXCEPT ![w].ver = jobs[id].ver]
    <3>1. /\ pc'[w] \in {"owned", "claim"} /\ cur'[w] = id
          /\ seen'[w] = [seen[w] EXCEPT !.ver = jobs[id].ver]
      BY <1>0, <2>3 DEF Goto
    <3>2. seen'[w].ver = jobs[id].ver
      BY <1>0, <3>1 DEF SeenRows
    <3>3. ASSUME NEW v \in Workers, pc'[v] # "idle", cur'[v][1] \notin restarted
          PROVE  /\ seen'[v].ver <= debounce[cur'[v][1]].ver
                 /\ pc'[v] = "write" /\ debounce[cur'[v][1]].ver = seen'[v].ver =>
                      seen'[v].trig >= armedAt[cur'[v][1]]
      <4>1. CASE v = w
        <5>1. jobs[id].ver <= debounce[id[1]].ver
          <6>1. Exists(id) /\ id[1] \notin restarted
            BY <1>1, <2>3, <3>1, <3>3, <4>1
          <6> QED BY <6>1 DEF VersionsArePast
        <5>2. pc'[w] # "write"
          BY <3>1
        <5> QED BY <3>1, <3>2, <4>1, <5>1, <5>2
      <4>2. CASE v # w BY <1>1, <3>3, <4>2 DEF VersionsArePast, BurstIsCurrent
      <4> QED BY <4>1, <4>2
    <3> QED BY <1>1, <2>1, <3>3 DEF VersionsArePast, Exists, BurstIsCurrent
  <2> QED BY <1>3, <2>2, <2>3 DEF Take
<1>4. CASE LoadForResponse(w)
  <2>1. /\ UNCHANGED <<jobs, cur>> /\ pc[w] = "load" /\ cur[w][1] \in Chats
        /\ seen'[w] = [seen[w] EXCEPT !.trig = inbound[cur[w][1]]]
    BY <1>0, <1>4 DEF LoadForResponse, Latest, store
  <2>2. seen'[w].ver = seen[w].ver /\ seen'[w].trig = inbound[cur[w][1]]
    BY <1>0, <2>1 DEF SeenRows
  <2>3. ASSUME NEW v \in Workers, pc'[v] # "idle", cur[v][1] \notin restarted
        PROVE  /\ seen'[v].ver <= debounce[cur[v][1]].ver
               /\ pc'[v] = "write" /\ debounce[cur[v][1]].ver = seen'[v].ver =>
                    seen'[v].trig >= armedAt[cur[v][1]]
    <3>1. CASE v = w
      <4>1. armedAt[cur[w][1]] <= inbound[cur[w][1]] /\ armedAt[cur[w][1]] \in Nat
            /\ inbound[cur[w][1]] \in Nat
        BY <1>0, <2>1 DEF VersionsArePast, Typed, HistoryTyped
      <4> QED BY <2>1, <2>2, <2>3, <3>1, <4>1 DEF VersionsArePast
    <3>2. CASE v # w BY <1>1, <2>1, <2>3, <3>2 DEF VersionsArePast, BurstIsCurrent
    <3> QED BY <3>1, <3>2
  <2> QED BY <1>1, <2>1, <2>3 DEF VersionsArePast, Exists, BurstIsCurrent
<1>a. (UNCHANGED jobs \/ \E d : DeleteJob(d)) =>
        \A id \in JobIds : jobs'[id] # NoJob => jobs[id] # NoJob /\ jobs'[id].ver = jobs[id].ver
  BY <1>0 DEF DeleteJob
<1>5. CASE CleanUpOwned(w) \/ LoadSettings(w) \/ DeleteDispatchJob(w)
  <2>1. UNCHANGED jobs \/ \E d : DeleteJob(d)
    BY <1>5 DEF CleanUpOwned, LoadSettings, DeleteDispatchJob
  <2>2. pc'[w] # "idle" => /\ pc[w] # "idle" /\ cur'[w] = cur[w] /\ pc'[w] # "write"
                           /\ seen'[w].ver = seen[w].ver
    <3>1. \/ pc'[w] = "idle"
          \/ /\ pc[w] = "settings" /\ pc'[w] = "load" /\ UNCHANGED cur
             /\ seen' = [seen EXCEPT ![w].auto = (mode = "scheduled_auto")]
      BY <1>0, <1>5 DEF CleanUpOwned, LoadSettings, DeleteDispatchJob, Leave, Goto
    <3> QED BY <1>0, <3>1 DEF SeenRows
  <2> QED BY <1>2, <1>a, <2>1, <2>2
<1>6. CASE ClaimDispatchJob(w) \/ GiveUpOrRetry(w)
  <2>0. cur[w] \in JobIds BY <1>0, <1>6 DEF ClaimDispatchJob, GiveUpOrRetry
  <2>1. \A id \in JobIds : \/ jobs'[id] = jobs[id]
                           \/ /\ jobs[id] \in JobRows
                              /\ \/ jobs'[id] = [jobs[id] EXCEPT !.st = "processing", !.old = FALSE]
                                 \/ jobs'[id] = [jobs[id] EXCEPT !.attempts = jobs[id].attempts + 1,
                                                   !.st = "pending", !.old = FALSE]
    BY <1>0, <1>6, <2>0 DEF ClaimDispatchJob, GiveUpOrRetry, Claimable, Exists
  <2>2. \A id \in JobIds : jobs'[id] # NoJob => jobs[id] # NoJob /\ jobs'[id].ver = jobs[id].ver
    BY <2>1, NoJobAssumption DEF JobRows
  <2>3. pc'[w] # "idle" => /\ pc[w] # "idle" /\ cur'[w] = cur[w] /\ pc'[w] # "write"
                           /\ seen'[w].ver = seen[w].ver
    BY <1>0, <1>6 DEF ClaimDispatchJob, GiveUpOrRetry, Leave, Goto
  <2> QED BY <1>2, <2>2, <2>3
<1>7. CASE ClaimDraftForAutoSend(w) \/ DispatchSend(w) \/ GenerationFails(w)
  <2>1. /\ UNCHANGED <<jobs, cur, seen>> /\ pc[w] # "idle" /\ pc'[w] # "write"
    BY <1>0, <1>7 DEF ClaimDraftForAutoSend, DispatchSend, GenerationFails, Goto, store
  <2> QED BY <1>2, <1>a, <2>1
<1>8. CASE WriteDraft(w)
  <2>1. /\ UNCHANGED <<jobs, cur>> /\ pc[w] # "idle" /\ pc'[w] # "write"
        /\ UNCHANGED seen \/ seen'[w] = [seen[w] EXCEPT !.draft = Len(drafts[cur[w][1]]) + 1]
    BY <1>0, <1>8 DEF WriteDraft, Goto
  <2>2. seen'[w].ver = seen[w].ver
    BY <1>0, <2>1 DEF SeenRows
  <2> QED BY <1>2, <1>a, <2>1, <2>2
<1> QED BY <1>3, <1>4, <1>5, <1>6, <1>7, <1>8 DEF Run

LEMMA VersionStep ==
  ASSUME Typed, Typed', VersionsArePast, [Next]_vars
  PROVE  VersionsArePast'
BY NextSteps, InboundVersions, LoopVersions, WorkerVersions

LEMMA InitVersions == Init => VersionsArePast
BY DEF Init, VersionsArePast, Exists

\* The version gate: in a chat whose burst counter was never restarted, a
\* draft written by a dispatch job has seen the message that armed the
\* current burst.
THEOREM SupersededIsDiscarded == Spec => StaleIsDiscarded
<1>1. ASSUME Typed, VersionsArePast, NEW w \in Workers,
             WriteDraft(w), drafts' # drafts, cur[w][1] \notin restarted
      PROVE  seen[w].trig >= armedAt[cur[w][1]]
  BY <1>1 DEF WriteDraft, VersionsArePast
<1>2. Typed /\ VersionsArePast =>
        \A w \in Workers : WriteDraft(w) /\ drafts' # drafts /\ cur[w][1] \notin restarted =>
          seen[w].trig >= armedAt[cur[w][1]]
  BY <1>1
<1> QED BY <1>2, InitTyped, TypedStep, InitVersions, VersionStep, PTL DEF Spec, StaleIsDiscarded

=============================================================================
