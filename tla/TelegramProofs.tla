--------------------------- MODULE TelegramProofs ---------------------------
(***************************************************************************)
(* Proofs about Telegram polling, for any requests, sessions, bounds, and  *)
(* kinds of operation and fault.                                           *)
(*                                                                         *)
(* Updates: a session asks for what comes after the stored offset or after *)
(* the update it last went past, so all before its next one is handled,    *)
(* however many sessions run at once and whatever order they store the     *)
(* offset in.  The registry: only the holder of the mutex waits for the    *)
(* registered session, and a session taken out is cancelled first and has  *)
(* a waiter.  Deletes: once a delete has taken the session out nothing     *)
(* registers one, unless the run had a failure or a race the model records *)
(* in missed.  Tokens: whoever stores one, or takes out the session that     *)
(* polls it, is still on the way to register its successor.                *)
(***************************************************************************)
EXTENDS Telegram, TLAPS

Batch == {"process", "recheck", "arm", "advance"}

\* A session in a batch is at one of its updates, and stores it before it
\* looks at it again or arms automation.
BatchesRun ==
  \A s \in Sessions : ses[s].pc \in Batch =>
    /\ 1 <= ses[s].next /\ ses[s].next <= ses[s].last
    /\ ses[s].pc \in {"recheck", "arm"} => ses[s].next \in stored

Handled == Ignored \cup armed \cup drafted \cup settled

\* Everything before the stored offset, before what a session asks for next,
\* and before what Telegram has forgotten is handled.
HandledInOrder ==
  /\ \A u \in 1..offset : u \in Handled
  /\ \A u \in 1..confirmed : u \in Handled
  /\ \A s \in Sessions :
       /\ \A u \in 1..(ses[s].next - 1) : u \in Handled
       /\ ses[s].pc = "advance" => ses[s].next \in Handled

\* Who waits for a session, and who holds the mutex meanwhile.
WaitersHold ==
  /\ mu # NoOne => call[mu].pc = "hold"
  /\ \A c \in Callers :
       /\ call[c].old # NoOne <=> call[c].pc \in {"await", "hold"}
       /\ call[c].pc = "hold" => mu = c /\ call[c].old = reg

\* Who is deleting, and how far a delete is.
DeletesRun ==
  \A c \in Callers :
    /\ call[c].deletes => call[c].pc \in {"remove", "await", "pending", "confirm"}
    /\ call[c].pc \in {"pending", "confirm"} => call[c].deletes
    /\ call[c].pc = "remove" => c = Boot \/ call[c].deletes

\* A delete has nothing registered once it took the session out, and after it
\* only the boot pass may be on its way, with nothing to do.
DeletesHold ==
  ~missed =>
    /\ \A c \in Callers : call[c].deletes /\ call[c].pc # "remove" => reg = NoOne
    /\ ~acct.live =>
         /\ reg = NoOne
         /\ \A c \in Callers : call[c].pc \in {"idle", "list", "remove"} /\ ~call[c].deletes

\* The stored token is the newest, and a session's is as new as its version.
TokensGrow ==
  /\ acct.ver \in {0, issued}
  /\ \A s \in Sessions : ses[s].token # 0 => ses[s].ver <= ses[s].token

\* Who will see to it that the stored token is polled, or is deleting the bot.
InCharge(c) ==
  \/ call[c].pc = "list"
  \/ call[c].pc \in {"upsert", "await", "install", "hold"} /\ call[c].spec = acct.ver
  \/ call[c].deletes

Polled == reg # NoOne /\ (ses[reg].pc = "done" \/ ses[reg].token \in {0, acct.ver})

SomeoneSeesToIt ==
  acct.live /\ acct.ver # 0 /\ ~missed /\ ~leftOut => Polled \/ \E c \in Callers : InCharge(c)

----------------------------------------------------------------------------
(* Types: the shape of the records, and the bounds of what is in them.      *)

CallPcs == {"idle", "probe", "list", "upsert", "await", "install", "hold", "remove", "pending",
            "confirm"}
SesPcs  == {"done", "token", "webhook", "mark", "offset", "poll", "dead", "process", "recheck",
            "arm", "advance"}
CallRecs == [pc: CallPcs, spec: Nat, old: Sessions \cup {NoOne}, deletes: BOOLEAN]
SesRecs  == [pc: SesPcs, ver: Nat, token: Nat, cancelled: BOOLEAN, next: Nat, last: Nat]

CallShape == call \in [Callers -> CallRecs]
SesShape  == ses \in [Sessions -> SesRecs]

CallBounds == \A c \in Callers : call[c].spec <= issued
SesBounds ==
  \A s \in Sessions : /\ ses[s].ver <= issued /\ ses[s].token <= issued
                      /\ ses[s].next <= sent + 1 /\ ses[s].last <= sent

AccountTyped ==
  /\ acct \in [st: States, live: BOOLEAN, ver: 0..issued]
  /\ issued \in 0..MaxVersion /\ revoked \in 0..issued

UpdatesTyped ==
  /\ offset \in 0..sent /\ stored \subseteq 1..sent /\ armed \subseteq stored
  /\ drafted \subseteq stored
  /\ sent \in 0..MaxUpdates /\ confirmed \in 0..sent /\ settled \subseteq stored

RestTyped ==
  /\ reg \in Sessions \cup {NoOne} /\ mu \in Callers \cup {NoOne}
  /\ events \in Nat /\ missed \in BOOLEAN /\ leftOut \in BOOLEAN

Typed == CallShape /\ CallBounds /\ SesShape /\ SesBounds /\ AccountTyped /\ UpdatesTyped /\ RestTyped

\* The parts say what TypeOK says.
LEMMA TypesInParts == TypeOK <=> Typed
<1>1. ASSUME AccountTyped, UpdatesTyped PROVE (CallShape /\ CallBounds) <=>
        call \in [Callers -> [pc: CallPcs, spec: 0..issued, old: Sessions \cup {NoOne}, deletes: BOOLEAN]]
  BY <1>1, TelegramAssumption DEF CallShape, CallBounds, CallRecs, AccountTyped
<1>2. ASSUME AccountTyped, UpdatesTyped PROVE (SesShape /\ SesBounds) <=>
        ses \in [Sessions -> [pc: SesPcs, ver: 0..issued, token: 0..issued, cancelled: BOOLEAN,
                             next: 0..sent + 1, last: 0..sent]]
  BY <1>2, TelegramAssumption DEF SesShape, SesBounds, SesRecs, AccountTyped, UpdatesTyped
<1>3. TypeOK => AccountTyped /\ UpdatesTyped
  BY DEF TypeOK, AccountTyped, UpdatesTyped
<1> QED
  BY <1>1, <1>2, <1>3 DEF TypeOK, Typed, CallPcs, SesPcs, AccountTyped, UpdatesTyped, RestTyped

\* The initial state has the types.
LEMMA InitTyped == Init => Typed
<1> SUFFICES ASSUME Init PROVE Typed
  OBVIOUS
<1> USE TelegramAssumption DEF Init, Callers
<1>1. CallShape /\ CallBounds
  <2>1. Idle \in CallRecs /\ Idle.spec = 0
    BY DEF Idle, CallRecs, CallPcs
  <2>2. AtBoot \in CallRecs /\ AtBoot.spec = 0
    BY DEF AtBoot, Idle, CallRecs, CallPcs
  <2> QED
    BY <2>1, <2>2 DEF CallShape, CallBounds
<1>2. SesShape /\ SesBounds
  BY DEF SesShape, SesBounds, SesRecs, SesPcs, Over
<1>3. AccountTyped /\ UpdatesTyped
  BY DEF AccountTyped, UpdatesTyped, States
<1>4. RestTyped
  BY DEF RestTyped
<1> QED
  BY <1>1, <1>2, <1>3, <1>4 DEF Typed

(* Writing one record.                                                      *)

LEMMA PutCall ==
  ASSUME CallShape, NEW c \in Callers, NEW r \in CallRecs, call' = [call EXCEPT ![c] = r]
  PROVE  CallShape'
  BY DEF CallShape

LEMMA MoveCall ==
  ASSUME CallShape, NEW c \in Callers, NEW p \in CallPcs, call' = [call EXCEPT ![c].pc = p]
  PROVE  CallShape'
  BY DEF CallShape, CallRecs

LEMMA MoveCallOld ==
  ASSUME CallShape, NEW c \in Callers, NEW p \in CallPcs, NEW o \in Sessions \cup {NoOne},
         call' = [call EXCEPT ![c].pc = p, ![c].old = o]
  PROVE  CallShape'
  BY DEF CallShape, CallRecs

\* The records requests are set to are call records.
LEMMA IdleCalls ==
  /\ Idle \in CallRecs
  /\ \A p \in CallPcs : \A v \in Nat : [Idle EXCEPT !.pc = p, !.spec = v] \in CallRecs
  /\ \A p \in CallPcs : \A d \in BOOLEAN : [Idle EXCEPT !.pc = p, !.deletes = d] \in CallRecs
  /\ \A r \in CallRecs : \A p \in CallPcs : [r EXCEPT !.pc = p] \in CallRecs
  /\ \A r \in CallRecs : \A p \in CallPcs : \A v \in Nat : [r EXCEPT !.pc = p, !.spec = v] \in CallRecs
  BY DEF Idle, CallRecs, CallPcs

LEMMA PutSes ==
  ASSUME SesShape, NEW s \in Sessions, NEW r \in SesRecs, ses' = [ses EXCEPT ![s] = r]
  PROVE  SesShape'
  BY DEF SesShape

\* Cancelling a session keeps the shape of the sessions.
LEMMA CancelSes == ASSUME SesShape, NEW s \in Sessions, Cancel(s) PROVE SesShape'
  BY DEF SesShape, SesRecs, Cancel

\* A fresh session and one that is over are session records.
LEMMA OverSessions ==
  /\ Over \in SesRecs
  /\ \A v \in Nat : [Over EXCEPT !.pc = "token", !.ver = v] \in SesRecs
  /\ \A v \in Nat : [Over EXCEPT !.ver = v] \in SesRecs
  BY DEF Over, SesRecs, SesPcs

LEMMA SesFields ==
  ASSUME NEW r \in SesRecs, NEW p \in SesPcs, NEW n \in Nat, NEW l \in Nat
  PROVE  /\ [r EXCEPT !.pc = p, !.next = n] \in SesRecs
         /\ [r EXCEPT !.pc = p, !.next = n, !.last = l] \in SesRecs
  BY DEF SesRecs

\* Starting a session keeps the types.
LEMMA SpawnTyped ==
  ASSUME CallShape, CallBounds, SesShape, SesBounds, AccountTyped, UpdatesTyped, NEW c \in Callers,
         Spawn(call[c].spec), UNCHANGED <<issued, sent>>
  PROVE  SesShape' /\ SesBounds'
<1>1. /\ call[c].spec \in Nat /\ call[c].spec <= issued
      /\ issued \in Nat /\ sent \in Nat
  BY TelegramAssumption DEF CallShape, CallRecs, CallBounds, AccountTyped, UpdatesTyped
<1>2. PICK s \in Sessions : ses' = [ses EXCEPT ![s] = [Over EXCEPT !.pc = "token", !.ver = call[c].spec]]
  BY DEF Spawn, Free
<1>3. SesShape'
  BY <1>1, <1>2, OverSessions, PutSes
<1>4. /\ \A t \in Sessions \ {s} : ses'[t] = ses[t]
      /\ ses'[s].ver = call[c].spec /\ ses'[s].token = 0 /\ ses'[s].next = 0 /\ ses'[s].last = 0
  BY <1>2 DEF SesShape, Over
<1> QED
  BY <1>1, <1>3, <1>4 DEF SesBounds

\* What persisting the offset does to its session: the next update or the next
\* poll, with the offset raised, or the next poll with nothing written.
LEMMA AdvanceMoves ==
  ASSUME SesShape, NEW s \in Sessions, Advance(s)
  PROVE  /\ SesShape'
         /\ \A t \in Sessions \ {s} : ses'[t] = ses[t]
         /\ ses'[s].ver = ses[s].ver /\ ses'[s].token = ses[s].token
         /\ ses'[s].cancelled = ses[s].cancelled
         /\ ses'[s].last \in {ses[s].last, 0}
         /\ \/ /\ ses'[s].next = ses[s].next + 1 /\ offset' = Higher(offset, ses[s].next)
               /\ \/ ses'[s].pc = "poll"
                  \/ /\ ses'[s].pc = "process" /\ ses'[s].last = ses[s].last
                     /\ ses[s].next < ses[s].last
            \/ ses'[s].pc = "poll" /\ ses'[s].next = ses[s].next /\ offset' = offset
<1>1. CASE Again(s) /\ offset' = offset
  BY <1>1 DEF Again, SesShape, SesRecs, SesPcs
<1>2. CASE /\ ses[s].next < ses[s].last /\ offset' = Higher(offset, ses[s].next)
           /\ ses' = [ses EXCEPT ![s].pc = "process", ![s].next = @ + 1]
  BY <1>2 DEF SesShape, SesRecs, SesPcs
<1>3. CASE /\ offset' = Higher(offset, ses[s].next)
           /\ ses' = [ses EXCEPT ![s].pc = "poll", ![s].next = @ + 1, ![s].last = 0]
  BY <1>3 DEF SesShape, SesRecs, SesPcs
<1> QED
  BY <1>1, <1>2, <1>3 DEF Advance

\* Requests and the boot pass keep the types.
LEMMA CallersTyped ==
  ASSUME Typed, BatchesRun, NEW c \in Callers, (c \in Requests /\ Request(c)) \/ Serve(c)
  PROVE  Typed'
<1> USE TelegramAssumption DEF store, manager, telegram
<1>0. CallShape /\ CallBounds /\ SesShape /\ SesBounds /\ AccountTyped /\ UpdatesTyped /\ RestTyped
  BY DEF Typed
<1>1. CASE Create(c)
  <2>1. CallShape'
    BY <1>0, <1>1 DEF Create, CallShape, CallRecs, CallPcs, AccountTyped, RestTyped, Idle
  <2>2. CallBounds'
    BY <1>0, <1>1
       DEF Create, CallShape, CallRecs, CallPcs, CallBounds, AccountTyped, RestTyped, Idle
  <2>3. SesShape' /\ SesBounds'
    BY <1>0, <1>1
       DEF Create, SesShape, SesBounds, SesRecs, AccountTyped
  <2>4. AccountTyped' /\ UpdatesTyped'
    BY <1>0, <1>1 DEF Create, AccountTyped, UpdatesTyped, States
  <2>5. RestTyped'
    BY <1>0, <1>1 DEF Create, RestTyped
  <2> QED
    BY <2>1, <2>2, <2>3, <2>4, <2>5 DEF Typed
<1>2. CASE Replace(c)
  <2>1. CallShape'
    BY <1>0, <1>2 DEF Replace, CallShape, CallRecs, CallPcs, AccountTyped, RestTyped, Idle
  <2>2. CallBounds'
    BY <1>0, <1>2
       DEF Replace, CallShape, CallRecs, CallPcs, CallBounds, AccountTyped, RestTyped, Idle
  <2>3. SesShape' /\ SesBounds'
    BY <1>0, <1>2
       DEF Replace, SesShape, SesBounds, SesRecs, AccountTyped
  <2>4. AccountTyped' /\ UpdatesTyped'
    BY <1>0, <1>2 DEF Replace, AccountTyped, UpdatesTyped, States
  <2>5. RestTyped'
    BY <1>0, <1>2 DEF Replace, RestTyped
  <2> QED
    BY <2>1, <2>2, <2>3, <2>4, <2>5 DEF Typed
<1>3. CASE Check(c)
  <2>1. CallShape'
    <3>1. acct.ver \in Nat
      BY <1>0 DEF AccountTyped
    <3>2. [Idle EXCEPT !.pc = "probe", !.spec = acct.ver] \in CallRecs
      BY <3>1, IdleCalls DEF CallPcs
    <3> QED
      BY <1>0, <1>3, <3>2, PutCall DEF Check
  <2>2. CallBounds'
    BY <1>0, <1>3 DEF Check, CallShape, CallRecs, CallPcs, CallBounds, AccountTyped, RestTyped, Idle
  <2>3. SesShape' /\ SesBounds'
    BY <1>0, <1>3
       DEF Check, SesShape, SesBounds, SesRecs, SesPcs, CallShape, CallRecs, CallBounds,
           AccountTyped, RestTyped
  <2>4. AccountTyped' /\ UpdatesTyped'
    BY <1>0, <1>3 DEF Check, AccountTyped, UpdatesTyped, States
  <2>5. RestTyped'
    BY <1>0, <1>3 DEF Check, RestTyped, Event
  <2> QED
    BY <2>1, <2>2, <2>3, <2>4, <2>5 DEF Typed
<1>4. CASE Delete(c)
  <2>1. CallShape'
    BY <1>0, <1>4 DEF Delete, CallShape, CallRecs, CallPcs, AccountTyped, RestTyped, Idle
  <2>2. CallBounds'
    BY <1>0, <1>4
       DEF Delete, CallShape, CallRecs, CallPcs, CallBounds, AccountTyped, RestTyped, Idle
  <2>3. SesShape' /\ SesBounds'
    BY <1>0, <1>4
       DEF Delete, SesShape, SesBounds, SesRecs
  <2>4. AccountTyped' /\ UpdatesTyped'
    BY <1>0, <1>4 DEF Delete, AccountTyped, UpdatesTyped, States
  <2>5. RestTyped'
    BY <1>0, <1>4 DEF Delete, RestTyped, Event
  <2> QED
    BY <2>1, <2>2, <2>3, <2>4, <2>5 DEF Typed
<1>5. CASE Probe(c)
  <2>1. CallShape'
    <3>1. CASE call' = [call EXCEPT ![c] = Idle]
      BY <1>0, <3>1, IdleCalls, PutCall
    <3>2. CASE call' = [call EXCEPT ![c].pc = "list"]
      BY <1>0, <3>2, MoveCall DEF CallPcs
    <3> QED
      BY <1>5, <3>1, <3>2 DEF Probe
  <2>2. CallBounds'
    BY <1>0, <1>5 DEF Probe, CallShape, CallRecs, CallPcs, CallBounds, AccountTyped, RestTyped, Idle
  <2>3. SesShape' /\ SesBounds'
    BY <1>0, <1>5
       DEF Probe, SesShape, SesBounds, SesRecs, SesPcs, CallShape, CallRecs, CallBounds,
           AccountTyped, RestTyped
  <2>4. AccountTyped' /\ UpdatesTyped'
    BY <1>0, <1>5 DEF Probe, AccountTyped, UpdatesTyped, States
  <2>5. RestTyped'
    BY <1>0, <1>5 DEF Probe, RestTyped, Fault, Event
  <2> QED
    BY <2>1, <2>2, <2>3, <2>4, <2>5 DEF Typed
<1>6. CASE ListTelegramPollBots(c)
  <2>1. CallShape'
    <3>1. /\ acct.ver \in Nat /\ call[c] \in CallRecs
          /\ "upsert" \in CallPcs /\ "remove" \in CallPcs
      BY <1>0 DEF AccountTyped, CallShape, CallPcs
    <3>2. \E r \in CallRecs : call' = [call EXCEPT ![c] = r]
      <4>1. [call[c] EXCEPT !.pc = "upsert", !.spec = acct.ver] \in CallRecs
        BY <3>1, IdleCalls
      <4>2. [call[c] EXCEPT !.pc = "remove"] \in CallRecs
        BY <3>1, IdleCalls
      <4> QED
        BY <1>6, <4>1, <4>2, IdleCalls DEF ListTelegramPollBots
    <3> QED
      BY <1>0, <3>2, PutCall
  <2>2. CallBounds'
    <3>1. acct.ver \in Nat /\ acct.ver <= issued /\ issued' = issued
      BY <1>0, <1>6 DEF ListTelegramPollBots, AccountTyped
    <3>2. issued \in Nat /\ \A d \in Callers : call[d].spec \in Nat /\ call[d].spec <= issued
      BY <1>0 DEF AccountTyped, CallShape, CallRecs, CallBounds
    <3>3. \/ call'[c] = [call[c] EXCEPT !.pc = "upsert", !.spec = acct.ver]
          \/ call'[c] = [call[c] EXCEPT !.pc = "remove"]
          \/ call'[c] = Idle
      BY <1>0, <1>6 DEF ListTelegramPollBots, CallShape
    <3>4. \A d \in Callers \ {c} : call'[d] = call[d]
      BY <1>0, <1>6 DEF ListTelegramPollBots, CallShape
    <3>5. call[c] \in CallRecs
      BY <1>0 DEF CallShape
    <3>6. call'[c].spec <= issued
      <4>1. Idle.spec = 0 /\ [call[c] EXCEPT !.pc = "remove"].spec = call[c].spec
        BY <3>5 DEF Idle, CallRecs
      <4>2. [call[c] EXCEPT !.pc = "upsert", !.spec = acct.ver].spec = acct.ver
        BY <3>5 DEF CallRecs
      <4>3. Idle.spec <= issued
        BY <3>2, <4>1
      <4> QED
        BY <3>1, <3>2, <3>3, <4>1, <4>2, <4>3
    <3> QED
      BY <3>1, <3>2, <3>4, <3>6 DEF CallBounds
  <2>3. SesShape' /\ SesBounds'
    BY <1>0, <1>6
       DEF ListTelegramPollBots, SesShape, SesBounds, SesRecs
  <2>4. AccountTyped' /\ UpdatesTyped'
    BY <1>0, <1>6 DEF ListTelegramPollBots, AccountTyped, UpdatesTyped, States
  <2>5. RestTyped'
    <3>1. /\ UNCHANGED <<reg, mu>>
          /\ \/ leftOut' = (leftOut \/ (acct.live /\ acct.ver # 0 /\ ~Eligible))
             \/ UNCHANGED leftOut
      BY <1>6 DEF ListTelegramPollBots
    <3>2. leftOut' \in BOOLEAN
      BY <1>0, <3>1 DEF RestTyped
    <3>3. /\ missed' = missed \/ missed' = TRUE
          /\ events' = events \/ events' = events + 1
      BY <1>6 DEF ListTelegramPollBots, Fault, Event
    <3>4. missed' \in BOOLEAN
      BY <1>0, <3>3 DEF RestTyped
    <3>5. events' \in Nat
      BY <1>0, <3>3 DEF RestTyped
    <3> QED
      BY <1>0, <3>1, <3>2, <3>4, <3>5 DEF RestTyped
  <2> QED
    BY <2>1, <2>2, <2>3, <2>4, <2>5 DEF Typed
<1>7. CASE DisconnectPending(c)
  <2>1. CallShape'
    <3>1. CASE call' = [call EXCEPT ![c] = Idle]
      BY <1>0, <3>1, IdleCalls, PutCall
    <3>2. CASE call' = [call EXCEPT ![c].pc = "confirm"]
      BY <1>0, <3>2, MoveCall DEF CallPcs
    <3> QED
      BY <1>7, <3>1, <3>2 DEF DisconnectPending
  <2>2. CallBounds'
    BY <1>0, <1>7
       DEF DisconnectPending, CallShape, CallRecs, CallPcs, CallBounds, AccountTyped, RestTyped,
           Idle
  <2>3. SesShape' /\ SesBounds'
    BY <1>0, <1>7
       DEF DisconnectPending, SesShape, SesBounds, SesRecs
  <2>4. AccountTyped' /\ UpdatesTyped'
    BY <1>0, <1>7 DEF DisconnectPending, AccountTyped, UpdatesTyped, States
  <2>5. RestTyped'
    <3>1. /\ UNCHANGED <<reg, mu, leftOut>>
          /\ missed' = missed \/ missed' = TRUE
          /\ events' = events \/ events' = events + 1
      BY <1>7 DEF DisconnectPending, Fault, Event
    <3>2. missed' \in BOOLEAN
      BY <1>0, <3>1 DEF RestTyped
    <3>3. events' \in Nat
      BY <1>0, <3>1 DEF RestTyped
    <3> QED
      BY <1>0, <3>1, <3>2, <3>3 DEF RestTyped
  <2> QED
    BY <2>1, <2>2, <2>3, <2>4, <2>5 DEF Typed
<1>8. CASE ConfirmTelegramDisconnect(c)
  <2>1. CallShape'
    BY <1>0, <1>8
       DEF ConfirmTelegramDisconnect, CallShape, CallRecs, CallPcs, AccountTyped, RestTyped, Idle
  <2>2. CallBounds'
    BY <1>0, <1>8
       DEF ConfirmTelegramDisconnect, CallShape, CallRecs, CallPcs, CallBounds, AccountTyped,
           RestTyped, Idle
  <2>3. SesShape' /\ SesBounds'
    BY <1>0, <1>8
       DEF ConfirmTelegramDisconnect, SesShape, SesBounds, SesRecs
  <2>4. AccountTyped' /\ UpdatesTyped'
    <3>1. /\ UNCHANGED <<issued, revoked, offset, stored, armed, drafted, sent, confirmed, settled>>
          /\ \/ acct' = acct
             \/ acct' = [st |-> "disconnected", live |-> FALSE, ver |-> 0]
             \/ acct' = [acct EXCEPT !.ver = 0]
      BY <1>8 DEF ConfirmTelegramDisconnect
    <3>2. [st |-> "disconnected", live |-> FALSE, ver |-> 0] \in [st: States, live: BOOLEAN, ver: 0..issued]
      BY <1>0 DEF AccountTyped, States
    <3>3. [acct EXCEPT !.ver = 0] \in [st: States, live: BOOLEAN, ver: 0..issued]
      BY <1>0 DEF AccountTyped
    <3> QED
      BY <1>0, <3>1, <3>2, <3>3 DEF AccountTyped, UpdatesTyped
  <2>5. RestTyped'
    <3>1. /\ UNCHANGED <<reg, mu, leftOut>>
          /\ \/ missed' = (missed \/ \E d \in Callers \ {c} : call[d].pc # "idle")
             \/ missed' = TRUE
          /\ events' = events \/ events' = events + 1
      BY <1>8 DEF ConfirmTelegramDisconnect, Fault, Event
    <3>2. missed' \in BOOLEAN
      BY <1>0, <3>1 DEF RestTyped
    <3> QED
      BY <1>0, <3>1, <3>2 DEF RestTyped
  <2> QED
    BY <2>1, <2>2, <2>3, <2>4, <2>5 DEF Typed
<1>9. CASE Upsert(c)
  <2>1. CallShape'
    <3>1. reg # NoOne => reg \in Sessions
      BY <1>0 DEF RestTyped
    <3>2. CASE call' = [call EXCEPT ![c] = Idle]
      BY <1>0, <3>2, IdleCalls, PutCall
    <3>3. CASE reg # NoOne /\ call' = [call EXCEPT ![c].pc = "await", ![c].old = reg]
      BY <1>0, <3>1, <3>3, MoveCallOld DEF CallPcs
    <3>4. CASE call' = [call EXCEPT ![c].pc = "install"]
      BY <1>0, <3>4, MoveCall DEF CallPcs
    <3> QED
      BY <1>9, <3>2, <3>3, <3>4 DEF Upsert
  <2>2. CallBounds'
    BY <1>0, <1>9
       DEF Upsert, CallShape, CallRecs, CallPcs, CallBounds, AccountTyped, RestTyped, Idle
  <2>3. SesShape' /\ SesBounds'
    <3>1. reg # NoOne => reg \in Sessions
      BY <1>0 DEF RestTyped
    <3>2. UNCHANGED <<issued, sent>> /\ (ses' = ses \/ (reg # NoOne /\ Cancel(reg)))
      BY <1>9 DEF Upsert
    <3>3. SesShape'
      BY <1>0, <3>1, <3>2, CancelSes DEF SesShape
    <3>4. \A s \in Sessions : /\ ses'[s].ver = ses[s].ver /\ ses'[s].token = ses[s].token
                              /\ ses'[s].next = ses[s].next /\ ses'[s].last = ses[s].last
      BY <1>0, <3>1, <3>2 DEF SesShape, SesRecs, Cancel
    <3> QED
      BY <1>0, <3>2, <3>3, <3>4 DEF SesBounds
  <2>4. AccountTyped' /\ UpdatesTyped'
    BY <1>0, <1>9 DEF Upsert, AccountTyped, UpdatesTyped, States
  <2>5. RestTyped'
    BY <1>0, <1>9 DEF Upsert, RestTyped
  <2> QED
    BY <2>1, <2>2, <2>3, <2>4, <2>5 DEF Typed
<1>10. CASE Await(c)
  <2>1. CallShape'
    <3> DEFINE p == IF call[c].deletes THEN "pending" ELSE IF call[c].spec = 0 THEN "idle" ELSE "install"
    <3>1. p \in CallPcs
      BY DEF CallPcs
    <3>2. call' = [call EXCEPT ![c].pc = p, ![c].old = NoOne]
      BY <1>10 DEF Await
    <3> QED
      BY <1>0, <3>1, <3>2, MoveCallOld
  <2>2. CallBounds'
    BY <1>0, <1>10 DEF Await, CallShape, CallRecs, CallPcs, CallBounds, AccountTyped, RestTyped
  <2>3. SesShape' /\ SesBounds'
    BY <1>0, <1>10
       DEF Await, SesShape, SesBounds, SesRecs, SesPcs, CallShape, CallRecs, CallBounds,
           AccountTyped, RestTyped
  <2>4. AccountTyped' /\ UpdatesTyped'
    BY <1>0, <1>10 DEF Await, AccountTyped, UpdatesTyped, States
  <2>5. RestTyped'
    BY <1>0, <1>10 DEF Await, RestTyped
  <2> QED
    BY <2>1, <2>2, <2>3, <2>4, <2>5 DEF Typed
<1>11. CASE Install(c)
  <2>1. CallShape'
    <3>1. reg # NoOne => reg \in Sessions
      BY <1>0 DEF RestTyped
    <3>2. CASE call' = [call EXCEPT ![c] = Idle]
      BY <1>0, <3>2, IdleCalls, PutCall
    <3>3. CASE reg # NoOne /\ call' = [call EXCEPT ![c].pc = "hold", ![c].old = reg]
      BY <1>0, <3>1, <3>3, MoveCallOld DEF CallPcs
    <3> QED
      BY <1>11, <3>2, <3>3 DEF Install
  <2>2. CallBounds'
    BY <1>0, <1>11
       DEF Install, CallShape, CallRecs, CallPcs, CallBounds, AccountTyped, RestTyped, Idle
  <2>3. SesShape' /\ SesBounds'
    <3>1. reg # NoOne => reg \in Sessions
      BY <1>0 DEF RestTyped
    <3>2. UNCHANGED <<issued, sent>>
      BY <1>11 DEF Install
    <3>3. CASE ses' = ses
      BY <1>0, <3>2, <3>3 DEF SesShape, SesBounds
    <3>4. CASE reg # NoOne /\ Cancel(reg)
      <4>1. \A s \in Sessions : /\ ses'[s].ver = ses[s].ver /\ ses'[s].token = ses[s].token
                                /\ ses'[s].next = ses[s].next /\ ses'[s].last = ses[s].last
        BY <1>0, <3>1, <3>4 DEF SesShape, SesRecs, Cancel
      <4> QED
        BY <1>0, <3>1, <3>2, <3>4, <4>1, CancelSes DEF SesBounds
    <3>5. CASE Spawn(call[c].spec)
      BY <1>0, <3>2, <3>5, SpawnTyped
    <3> QED
      BY <1>11, <3>3, <3>4, <3>5 DEF Install
  <2>4. AccountTyped' /\ UpdatesTyped'
    BY <1>0, <1>11 DEF Install, AccountTyped, UpdatesTyped, States
  <2>5. RestTyped'
    BY <1>0, <1>11 DEF Install, RestTyped, Spawn, Free
  <2> QED
    BY <2>1, <2>2, <2>3, <2>4, <2>5 DEF Typed
<1>12. CASE Held(c)
  <2>1. CallShape'
    BY <1>0, <1>12 DEF Held, CallShape, CallRecs, CallPcs, AccountTyped, RestTyped, Idle
  <2>2. CallBounds'
    BY <1>0, <1>12 DEF Held, CallShape, CallRecs, CallPcs, CallBounds, AccountTyped, RestTyped, Idle
  <2>3. SesShape' /\ SesBounds'
    BY <1>0, <1>12, SpawnTyped DEF Held
  <2>4. AccountTyped' /\ UpdatesTyped'
    BY <1>0, <1>12 DEF Held, AccountTyped, UpdatesTyped, States
  <2>5. RestTyped'
    BY <1>0, <1>12 DEF Held, RestTyped, Spawn, Free
  <2> QED
    BY <2>1, <2>2, <2>3, <2>4, <2>5 DEF Typed
<1>13. CASE Remove(c)
  <2>1. CallShape'
    <3>1. reg # NoOne => reg \in Sessions
      BY <1>0 DEF RestTyped
    <3>2. CASE call' = [call EXCEPT ![c] = Idle]
      BY <1>0, <3>2, IdleCalls, PutCall
    <3>3. CASE reg # NoOne /\ call' = [call EXCEPT ![c].pc = "await", ![c].old = reg]
      BY <1>0, <3>1, <3>3, MoveCallOld DEF CallPcs
    <3>4. CASE call' = [call EXCEPT ![c] = [@ EXCEPT !.pc = "pending"]]
      <4>1. [call[c] EXCEPT !.pc = "pending"] \in CallRecs
        BY <1>0, IdleCalls DEF CallShape, CallPcs
      <4> QED
        BY <1>0, <3>4, <4>1, PutCall
    <3> QED
      BY <1>13, <3>2, <3>3, <3>4 DEF Remove
  <2>2. CallBounds'
    BY <1>0, <1>13
       DEF Remove, CallShape, CallRecs, CallPcs, CallBounds, AccountTyped, RestTyped, Idle
  <2>3. SesShape' /\ SesBounds'
    <3>1. reg # NoOne => reg \in Sessions
      BY <1>0 DEF RestTyped
    <3>2. UNCHANGED <<issued, sent>> /\ (ses' = ses \/ (reg # NoOne /\ Cancel(reg)))
      BY <1>13 DEF Remove
    <3>3. SesShape'
      BY <1>0, <3>1, <3>2, CancelSes DEF SesShape
    <3>4. \A s \in Sessions : /\ ses'[s].ver = ses[s].ver /\ ses'[s].token = ses[s].token
                              /\ ses'[s].next = ses[s].next /\ ses'[s].last = ses[s].last
      BY <1>0, <3>1, <3>2 DEF SesShape, SesRecs, Cancel
    <3> QED
      BY <1>0, <3>2, <3>3, <3>4 DEF SesBounds
  <2>4. AccountTyped' /\ UpdatesTyped'
    BY <1>0, <1>13 DEF Remove, AccountTyped, UpdatesTyped, States
  <2>5. RestTyped'
    BY <1>0, <1>13 DEF Remove, RestTyped
  <2> QED
    BY <2>1, <2>2, <2>3, <2>4, <2>5 DEF Typed
<1> QED
  BY <1>1, <1>2, <1>3, <1>4, <1>5, <1>6, <1>7, <1>8, <1>9, <1>10, <1>11, <1>12, <1>13 DEF Request,
                                                                                          Serve

\* Sessions keep the types.
LEMMA SessionsTyped ==
  ASSUME Typed, BatchesRun, NEW s \in Sessions, Run(s) \/ Exit(s)
  PROVE  Typed'
<1> USE TelegramAssumption DEF store, manager, telegram
<1>0. CallShape /\ CallBounds /\ SesShape /\ SesBounds /\ AccountTyped /\ UpdatesTyped /\ RestTyped
  BY DEF Typed
<1>1. CASE ResolveToken(s)
  <2>1. CallShape' /\ CallBounds' /\ RestTyped'
    BY <1>0, <1>1 DEF ResolveToken, CallShape, CallBounds, RestTyped
  <2>2. SesShape'
    <3>1. acct.ver \in Nat
      BY <1>0 DEF AccountTyped
    <3> QED
      BY <1>0, <1>1, <3>1 DEF ResolveToken, SesShape, SesRecs, SesPcs
  <2>3. SesBounds'
    BY <1>0, <1>1
       DEF ResolveToken, SesShape, SesBounds, SesRecs, SesPcs, AccountTyped, UpdatesTyped,
           BatchesRun, Batch
  <2>4. AccountTyped' /\ UpdatesTyped'
    BY <1>0, <1>1
       DEF ResolveToken, SesShape, SesRecs, SesBounds, AccountTyped, UpdatesTyped, States,
           BatchesRun, Batch
  <2> QED
    BY <2>1, <2>2, <2>3, <2>4 DEF Typed
<1>2. CASE DeleteWebhook(s)
  <2>1. CallShape' /\ CallBounds' /\ RestTyped'
    BY <1>0, <1>2 DEF DeleteWebhook, CallShape, CallBounds, RestTyped
  <2>2. SesShape'
    BY <1>0, <1>2 DEF DeleteWebhook, SesShape, SesRecs, SesPcs, AccountTyped, UpdatesTyped, Step
  <2>3. SesBounds'
    BY <1>0, <1>2
       DEF DeleteWebhook, SesShape, SesBounds, SesRecs, SesPcs, AccountTyped, UpdatesTyped,
           BatchesRun, Batch, Step
  <2>4. AccountTyped' /\ UpdatesTyped'
    BY <1>0, <1>2
       DEF DeleteWebhook, SesShape, SesRecs, SesBounds, AccountTyped, UpdatesTyped, States,
           BatchesRun, Batch
  <2> QED
    BY <2>1, <2>2, <2>3, <2>4 DEF Typed
<1>3. CASE MarkConnected(s)
  <2>1. CallShape' /\ CallBounds' /\ RestTyped'
    BY <1>0, <1>3 DEF MarkConnected, CallShape, CallBounds, RestTyped, Event, Fault
  <2>2. SesShape'
    BY <1>0, <1>3 DEF MarkConnected, SesShape, SesRecs, SesPcs, AccountTyped, UpdatesTyped, Step
  <2>3. SesBounds'
    BY <1>0, <1>3
       DEF MarkConnected, SesShape, SesBounds, SesRecs, SesPcs, AccountTyped, UpdatesTyped,
           BatchesRun, Batch, Step
  <2>4. AccountTyped' /\ UpdatesTyped'
    BY <1>0, <1>3
       DEF MarkConnected, SesShape, SesRecs, SesBounds, AccountTyped, UpdatesTyped, States,
           BatchesRun, Batch
  <2> QED
    BY <2>1, <2>2, <2>3, <2>4 DEF Typed
<1>4. CASE ReadOffset(s)
  <2>1. CallShape' /\ CallBounds' /\ RestTyped'
    BY <1>0, <1>4 DEF ReadOffset, CallShape, CallBounds, RestTyped, Event, Fault
  <2>2. SesShape'
    BY <1>0, <1>4 DEF ReadOffset, SesShape, SesRecs, SesPcs, AccountTyped, UpdatesTyped
  <2>3. SesBounds'
    BY <1>0, <1>4
       DEF ReadOffset, SesShape, SesBounds, SesRecs, SesPcs, AccountTyped, UpdatesTyped,
           BatchesRun, Batch
  <2>4. AccountTyped' /\ UpdatesTyped'
    BY <1>0, <1>4
       DEF ReadOffset, SesShape, SesRecs, SesBounds, AccountTyped, UpdatesTyped, States,
           BatchesRun, Batch
  <2> QED
    BY <2>1, <2>2, <2>3, <2>4 DEF Typed
<1>5. CASE GetUpdates(s)
  <2>1. CallShape' /\ CallBounds' /\ RestTyped'
    BY <1>0, <1>5 DEF GetUpdates, CallShape, CallBounds, RestTyped
  <2>2. SesShape'
    <3>1. /\ ses[s] \in SesRecs /\ sent \in Nat /\ confirmed \in Nat
      BY <1>0 DEF SesShape, UpdatesTyped
    <3>2. confirmed' = Asked(s) /\ Asked(s) \in Nat
      BY <1>5, <3>1 DEF GetUpdates, Asked, Higher, SesRecs
    <3>3. CASE ses' = [ses EXCEPT ![s] = [@ EXCEPT !.pc = "process", !.next = confirmed' + 1, !.last = sent]]
      <4>0. "process" \in SesPcs /\ confirmed' + 1 \in Nat
        BY <3>2 DEF SesPcs
      <4>1. [ses[s] EXCEPT !.pc = "process", !.next = confirmed' + 1, !.last = sent] \in SesRecs
        BY <3>1, <3>2, <4>0, SesFields
      <4> QED
        BY <1>0, <3>3, <4>1, PutSes
    <3>4. CASE ses' = [ses EXCEPT ![s] = @]
      BY <1>0, <3>4 DEF SesShape
    <3> QED
      BY <1>5, <3>3, <3>4 DEF GetUpdates
  <2>3. SesBounds'
    BY <1>0, <1>5
       DEF GetUpdates, SesShape, SesBounds, SesRecs, SesPcs, AccountTyped, UpdatesTyped,
           BatchesRun, Batch, Asked, Higher
  <2>4. AccountTyped' /\ UpdatesTyped'
    BY <1>0, <1>5
       DEF GetUpdates, SesShape, SesRecs, SesBounds, AccountTyped, UpdatesTyped, States,
           BatchesRun, Batch, Asked, Higher
  <2> QED
    BY <2>1, <2>2, <2>3, <2>4 DEF Typed
<1>6. CASE GetUpdatesFails(s)
  <2>1. CallShape' /\ CallBounds' /\ RestTyped'
    BY <1>0, <1>6 DEF GetUpdatesFails, CallShape, CallBounds, RestTyped, Event, Fault
  <2>2. SesShape'
    BY <1>0, <1>6 DEF GetUpdatesFails, SesShape, SesRecs, SesPcs, AccountTyped, UpdatesTyped, Step
  <2>3. SesBounds'
    BY <1>0, <1>6
       DEF GetUpdatesFails, SesShape, SesBounds, SesRecs, SesPcs, AccountTyped, UpdatesTyped,
           BatchesRun, Batch, Step
  <2>4. AccountTyped' /\ UpdatesTyped'
    BY <1>0, <1>6
       DEF GetUpdatesFails, SesShape, SesRecs, SesBounds, AccountTyped, UpdatesTyped, States,
           BatchesRun, Batch
  <2> QED
    BY <2>1, <2>2, <2>3, <2>4 DEF Typed
<1>7. CASE RecordTokenError(s)
  <2>1. CallShape' /\ CallBounds' /\ RestTyped'
    BY <1>0, <1>7 DEF RecordTokenError, CallShape, CallBounds, RestTyped, Event, Fault
  <2>2. SesShape'
    BY <1>0, <1>7
       DEF RecordTokenError, SesShape, SesRecs, SesPcs, AccountTyped, UpdatesTyped, Over, Ends
  <2>3. SesBounds'
    BY <1>0, <1>7
       DEF RecordTokenError, SesShape, SesBounds, SesRecs, SesPcs, AccountTyped, UpdatesTyped,
           BatchesRun, Batch, Over, Ends
  <2>4. AccountTyped' /\ UpdatesTyped'
    BY <1>0, <1>7
       DEF RecordTokenError, SesShape, SesRecs, SesBounds, AccountTyped, UpdatesTyped, States,
           BatchesRun, Batch
  <2> QED
    BY <2>1, <2>2, <2>3, <2>4 DEF Typed
<1>8. CASE Ingest(s)
  <2>1. CallShape' /\ CallBounds' /\ RestTyped'
    BY <1>0, <1>8 DEF Ingest, CallShape, CallBounds, RestTyped, Event, Fault
  <2>2. SesShape'
    BY <1>0, <1>8 DEF Ingest, SesShape, SesRecs, SesPcs, AccountTyped, UpdatesTyped, Step, Again
  <2>3. SesBounds'
    BY <1>0, <1>8
       DEF Ingest, SesShape, SesBounds, SesRecs, SesPcs, AccountTyped, UpdatesTyped, BatchesRun,
           Batch, Step, Again
  <2>4. AccountTyped' /\ UpdatesTyped'
    <3>1. /\ UNCHANGED <<acct, issued, revoked, offset, armed, drafted, sent, confirmed, settled>>
          /\ stored' = stored \/ stored' = stored \cup {ses[s].next}
          /\ ses[s].pc = "process"
      BY <1>8 DEF Ingest
    <3>2. ses[s].next \in 1..sent
      BY <1>0, <3>1 DEF BatchesRun, Batch, SesShape, SesRecs, SesBounds, UpdatesTyped
    <3> QED
      BY <1>0, <3>1, <3>2 DEF AccountTyped, UpdatesTyped
  <2> QED
    BY <2>1, <2>2, <2>3, <2>4 DEF Typed
<1>9. CASE ReenqueueMissingDraft(s)
  <2>1. CallShape' /\ CallBounds' /\ RestTyped'
    BY <1>0, <1>9 DEF ReenqueueMissingDraft, CallShape, CallBounds, RestTyped, Event, Fault
  <2>2. SesShape'
    BY <1>0, <1>9
       DEF ReenqueueMissingDraft, SesShape, SesRecs, SesPcs, AccountTyped, UpdatesTyped, Step
  <2>3. SesBounds'
    BY <1>0, <1>9
       DEF ReenqueueMissingDraft, SesShape, SesBounds, SesRecs, SesPcs, AccountTyped, UpdatesTyped,
           BatchesRun, Batch, Step
  <2>4. AccountTyped' /\ UpdatesTyped'
    BY <1>0, <1>9
       DEF ReenqueueMissingDraft, SesShape, SesRecs, SesBounds, AccountTyped, UpdatesTyped, States,
           BatchesRun, Batch
  <2> QED
    BY <2>1, <2>2, <2>3, <2>4 DEF Typed
<1>10. CASE ArmAutomation(s)
  <2>1. CallShape' /\ CallBounds' /\ RestTyped'
    BY <1>0, <1>10 DEF ArmAutomation, CallShape, CallBounds, RestTyped, Event, Fault
  <2>2. SesShape'
    BY <1>0, <1>10
       DEF ArmAutomation, SesShape, SesRecs, SesPcs, AccountTyped, UpdatesTyped, Step, Again
  <2>3. SesBounds'
    BY <1>0, <1>10
       DEF ArmAutomation, SesShape, SesBounds, SesRecs, SesPcs, AccountTyped, UpdatesTyped,
           BatchesRun, Batch, Step, Again
  <2>4. AccountTyped' /\ UpdatesTyped'
    BY <1>0, <1>10
       DEF ArmAutomation, SesShape, SesRecs, SesBounds, AccountTyped, UpdatesTyped, States,
           BatchesRun, Batch
  <2> QED
    BY <2>1, <2>2, <2>3, <2>4 DEF Typed
<1>11. CASE Advance(s)
  <2>1. CallShape' /\ CallBounds' /\ RestTyped'
    BY <1>0, <1>11 DEF Advance, CallShape, CallBounds, RestTyped, Event, Fault
  <2>2. SesShape'
    BY <1>0, <1>11, AdvanceMoves
  <2>3. SesBounds'
    <3>1. /\ UNCHANGED <<issued, sent>> /\ issued \in Nat /\ sent \in Nat
          /\ \A t \in Sessions : ses[t] \in SesRecs
      BY <1>0, <1>11 DEF Advance, AccountTyped, UpdatesTyped, SesShape
    <3>2. ses[s].pc = "advance" /\ ses[s].next <= ses[s].last /\ ses[s].last <= sent
      BY <1>0, <1>11 DEF Advance, BatchesRun, Batch, SesBounds
    <3>3. /\ \A t \in Sessions \ {s} : ses'[t] = ses[t]
          /\ ses'[s].ver = ses[s].ver /\ ses'[s].token = ses[s].token
          /\ ses'[s].next \in {ses[s].next, ses[s].next + 1} /\ ses'[s].last \in {ses[s].last, 0}
      BY <1>0, <1>11, AdvanceMoves
    <3> QED
      BY <1>0, <3>1, <3>2, <3>3 DEF SesBounds, SesRecs
  <2>4. AccountTyped' /\ UpdatesTyped'
    BY <1>0, <1>11
       DEF Advance, SesShape, SesRecs, SesBounds, AccountTyped, UpdatesTyped, States, BatchesRun,
           Batch, Higher
  <2> QED
    BY <2>1, <2>2, <2>3, <2>4 DEF Typed
<1>12. CASE Exit(s)
  <2>1. CallShape' /\ CallBounds' /\ RestTyped'
    BY <1>0, <1>12 DEF Exit, CallShape, CallBounds, RestTyped
  <2>2. SesShape'
    BY <1>0, <1>12 DEF Exit, SesShape, SesRecs, SesPcs, AccountTyped, UpdatesTyped, Over, Ends
  <2>3. SesBounds'
    BY <1>0, <1>12
       DEF Exit, SesShape, SesBounds, SesRecs, SesPcs, AccountTyped, UpdatesTyped, BatchesRun,
           Batch, Over, Ends
  <2>4. AccountTyped' /\ UpdatesTyped'
    BY <1>0, <1>12
       DEF Exit, SesShape, SesRecs, SesBounds, AccountTyped, UpdatesTyped, States, BatchesRun, Batch
  <2> QED
    BY <2>1, <2>2, <2>3, <2>4 DEF Typed
<1> QED
  BY <1>1, <1>2, <1>3, <1>4, <1>5, <1>6, <1>7, <1>8, <1>9, <1>10, <1>11, <1>12 DEF Run

----------------------------------------------------------------------------
(* What the callers and the world do to the sessions.                       *)

\* The session is where it was, perhaps cancelled.
Stays(t) ==
  /\ ses'[t].pc = ses[t].pc /\ ses'[t].ver = ses[t].ver /\ ses'[t].token = ses[t].token
  /\ ses'[t].next = ses[t].next /\ ses'[t].last = ses[t].last
  /\ ses[t].cancelled => ses'[t].cancelled

\* The slot stands for another goroutine, which is at its start.
Starts(t) ==
  /\ ses[t].pc = "done" /\ ses'[t].pc = "token" /\ ses'[t].token = 0
  /\ ses'[t].next = 0 /\ ses'[t].last = 0

\* A new session asks from the first update on.
LEMMA SpawnStarts ==
  ASSUME SesShape, NEW v, Spawn(v)
  PROVE  /\ reg' \in Sessions /\ Starts(reg') /\ ses'[reg'].ver = v
         /\ \A t \in Sessions \ {reg'} : ses'[t] = ses[t]
         /\ \A c \in Callers : call[c].old # reg'
<1>1. reg' \in Free /\ ses' = [ses EXCEPT ![reg'] = [Over EXCEPT !.pc = "token", !.ver = v]]
  BY DEF Spawn
<1>2. reg' \in Sessions /\ ses[reg'].pc = "done" /\ \A c \in Callers : call[c].old # reg'
  BY <1>1 DEF Free
<1> QED
  BY <1>1, <1>2 DEF SesShape, Starts, Over

\* Cancelling moves no session on.
LEMMA CancelStays ==
  ASSUME SesShape, NEW s \in Sessions, Cancel(s)
  PROVE  ses'[s].cancelled /\ \A t \in Sessions : Stays(t) /\ (t # s => ses'[t] = ses[t])
  BY DEF Cancel, SesShape, SesRecs, Stays

\* Whatever a request does, each session stays where it is, is over, or is new.
LEMMA CallersKeepSessions ==
  ASSUME Typed, NEW c \in Callers, (c \in Requests /\ Request(c)) \/ Serve(c)
  PROVE  /\ UNCHANGED <<offset, stored, armed, drafted, sent, confirmed, settled>>
         /\ \A t \in Sessions : Stays(t) \/ Starts(t)
<1> USE DEF store, manager, telegram
<1>0. SesShape /\ (reg # NoOne => reg \in Sessions)
  BY DEF Typed, RestTyped
<1>1. UNCHANGED <<offset, stored, armed, drafted, sent, confirmed, settled>>
  BY DEF Request, Serve, Create, Replace, Check, Delete, Probe, ListTelegramPollBots,
         DisconnectPending, ConfirmTelegramDisconnect, Upsert, Await, Install, Held, Remove
<1>2. \/ ses' = ses
      \/ reg # NoOne /\ Cancel(reg)
      \/ \E v : Spawn(v)
  BY DEF Request, Serve, Create, Replace, Check, Delete, Probe, ListTelegramPollBots,
         DisconnectPending, ConfirmTelegramDisconnect, Upsert, Await, Install, Held, Remove
<1>3. CASE ses' = ses
  BY <1>1, <1>3 DEF Stays
<1>4. CASE reg # NoOne /\ Cancel(reg)
  BY <1>0, <1>1, <1>4, CancelStays
<1>5. CASE \E v : Spawn(v)
  <2>1. PICK v : Spawn(v)
    BY <1>5
  <2> QED
    BY <1>0, <1>1, <2>1, SpawnStarts DEF Stays
<1> QED
  BY <1>2, <1>3, <1>4, <1>5

----------------------------------------------------------------------------
(* Updates are handled in order.                                            *)

Progress == BatchesRun /\ HandledInOrder

\* What callers and the world do leaves all that was handled handled.
LEMMA ProgressKept ==
  ASSUME Progress, Typed, UNCHANGED <<offset, stored, armed, confirmed, settled>>,
         drafted \subseteq drafted',
         \A t \in Sessions : Stays(t) \/ Starts(t)
  PROVE  Progress'
<1>1. Handled \subseteq Handled'
  BY DEF Handled
<1>2. BatchesRun'
  BY DEF Progress, BatchesRun, Batch, Stays, Starts
<1>3. ASSUME NEW t \in Sessions
      PROVE  /\ \A u \in 1..(ses'[t].next - 1) : u \in Handled
             /\ ses'[t].pc = "advance" => ses'[t].next \in Handled
  <2>1. CASE Stays(t)
    BY <2>1 DEF Progress, HandledInOrder, Stays
  <2>2. CASE Starts(t)
    BY <2>2 DEF Starts
  <2> QED
    BY <2>1, <2>2
<1> QED
  BY <1>1, <1>2, <1>3 DEF Progress, HandledInOrder

\* What a session's move must leave when it handles nothing new.
LEMMA ProgressMoves ==
  ASSUME Progress, Typed, NEW s \in Sessions,
         \A t \in Sessions \ {s} : ses'[t] = ses[t],
         stored \subseteq stored', armed \subseteq armed', drafted \subseteq drafted',
         settled \subseteq settled',
         \A u \in 1..offset' : u \in Handled',
         \A u \in 1..confirmed' : u \in Handled',
         ses'[s].pc \in Batch =>
           /\ 1 <= ses'[s].next /\ ses'[s].next <= ses'[s].last
           /\ ses'[s].pc \in {"recheck", "arm"} => ses'[s].next \in stored',
         \A u \in 1..(ses'[s].next - 1) : u \in Handled',
         ses'[s].pc = "advance" => ses'[s].next \in Handled'
  PROVE  Progress'
<1>1. Handled \subseteq Handled'
  BY DEF Handled
<1>2. BatchesRun'
  BY DEF Progress, BatchesRun
<1>3. ASSUME NEW t \in Sessions
      PROVE  /\ \A u \in 1..(ses'[t].next - 1) : u \in Handled'
             /\ ses'[t].pc = "advance" => ses'[t].next \in Handled'
  BY <1>1 DEF Progress, HandledInOrder
<1> QED
  BY <1>2, <1>3 DEF Progress, HandledInOrder

\* A session that leaves its batch, or is not in one, and handles nothing.
LEMMA ProgressQuietly ==
  ASSUME Progress, Typed, NEW s \in Sessions, UNCHANGED <<offset, stored, armed, drafted, confirmed, settled>>,
         \A t \in Sessions \ {s} : ses'[t] = ses[t],
         ses'[s].pc \notin Batch, ses'[s].next \in {0, ses[s].next}
  PROVE  Progress'
<1>1. Handled' = Handled
  BY DEF Handled
<1>2. \A u \in 1..(ses'[s].next - 1) : u \in Handled
  BY DEF Progress, HandledInOrder
<1>3. ses'[s].pc # "advance"
  BY DEF Batch
<1>4. (\A u \in 1..offset : u \in Handled) /\ (\A u \in 1..confirmed : u \in Handled)
  BY DEF Progress, HandledInOrder
<1> QED
  BY <1>1, <1>2, <1>3, <1>4, ProgressMoves

\* Sessions handle their batches in order and confirm only what is handled.
LEMMA SessionsProgress ==
  ASSUME Progress, Typed, NEW s \in Sessions, Run(s) \/ Exit(s)
  PROVE  Progress'
<1> USE DEF store, manager, telegram
<1>0. /\ SesShape /\ ses[s] \in SesRecs /\ sent \in Nat /\ confirmed \in Nat /\ offset \in Nat
  BY TelegramAssumption DEF Typed, SesShape, UpdatesTyped
<1>01. /\ \A u \in 1..offset : u \in Handled
       /\ \A u \in 1..confirmed : u \in Handled
       /\ \A u \in 1..(ses[s].next - 1) : u \in Handled
  BY DEF Progress, HandledInOrder
<1>02. ses[s].pc \in Batch =>
         /\ 1 <= ses[s].next /\ ses[s].next <= ses[s].last
         /\ ses[s].pc \in {"recheck", "arm"} => ses[s].next \in stored
  BY DEF Progress, BatchesRun
<1>1. CASE \/ ResolveToken(s) \/ DeleteWebhook(s) \/ MarkConnected(s) \/ GetUpdatesFails(s)
           \/ RecordTokenError(s) \/ Exit(s)
  <2>1. UNCHANGED <<offset, stored, armed, drafted, confirmed, settled>>
    BY <1>1 DEF ResolveToken, DeleteWebhook, MarkConnected, GetUpdatesFails, RecordTokenError, Exit
  <2>2. /\ \A t \in Sessions \ {s} : ses'[t] = ses[t]
        /\ ses'[s].pc \notin Batch /\ ses'[s].next \in {0, ses[s].next}
    BY <1>0, <1>1 DEF ResolveToken, DeleteWebhook, MarkConnected, GetUpdatesFails,
                      RecordTokenError, Exit,
                      Step, Ends, Over, Batch, SesShape, SesRecs
  <2> QED
    BY <2>1, <2>2, ProgressQuietly
<1>2. CASE ReadOffset(s)
  <2>1. UNCHANGED <<offset, stored, armed, drafted, confirmed, settled>>
    BY <1>2 DEF ReadOffset
  <2>2. /\ \A t \in Sessions \ {s} : ses'[t] = ses[t]
        /\ ses'[s].pc = "poll" /\ ses'[s].next \in {0, offset + 1}
    BY <1>0, <1>2 DEF ReadOffset, SesShape, SesRecs
  <2>3. \A u \in 1..(ses'[s].next - 1) : u \in Handled
    BY <1>0, <1>01, <2>2
  <2> QED
    BY <1>01, <2>1, <2>2, <2>3, ProgressMoves DEF Batch, Handled
<1>3. CASE GetUpdates(s)
  <2>1. /\ UNCHANGED <<offset, stored, armed, drafted, settled, sent>>
        /\ confirmed' = Asked(s) /\ ses[s].pc = "poll"
    BY <1>3 DEF GetUpdates
  <2>2. confirmed' \in Nat /\ \A u \in 1..confirmed' : u \in Handled
    BY <1>0, <1>01, <2>1 DEF Asked, Higher, SesRecs
  <2>3. /\ \A t \in Sessions \ {s} : ses'[t] = ses[t]
        /\ \/ ses'[s].pc = "process" /\ ses'[s].next = confirmed' + 1 /\ ses'[s].last = sent
              /\ confirmed' < sent
           \/ ses'[s] = ses[s]
    BY <1>0, <1>3 DEF GetUpdates, SesShape, SesRecs
  <2>4. \A u \in 1..(ses'[s].next - 1) : u \in Handled
    BY <1>01, <2>2, <2>3
  <2>5. Handled' = Handled
    BY <2>1 DEF Handled
  <2>6. /\ ses'[s].pc # "advance" /\ ses'[s].pc \notin {"recheck", "arm"}
        /\ ses'[s].pc \in Batch => 1 <= ses'[s].next /\ ses'[s].next <= ses'[s].last
    BY <1>0, <2>1, <2>2, <2>3 DEF Batch
  <2> QED
    BY <1>01, <2>1, <2>2, <2>3, <2>4, <2>5, <2>6, ProgressMoves
<1>4. CASE Ingest(s)
  <2>1. /\ UNCHANGED <<offset, armed, drafted, settled, confirmed>> /\ stored \subseteq stored'
        /\ ses[s].pc = "process"
    BY <1>4 DEF Ingest
  <2>2. /\ \A t \in Sessions \ {s} : ses'[t] = ses[t]
        /\ ses'[s].next = ses[s].next
        /\ ses'[s].pc \in {"recheck", "arm", "advance"} => ses'[s].last = ses[s].last
        /\ ses'[s].pc \in {"recheck", "arm", "advance", "poll"}
    BY <1>0, <1>4 DEF Ingest, Step, Again, SesShape, SesRecs
  <2>3. /\ ses'[s].pc \in {"recheck", "arm"} => ses[s].next \in stored'
        /\ ses'[s].pc = "advance" => ses[s].next \in Ignored
    BY <1>0, <1>4 DEF Ingest, Step, Again, SesShape, SesRecs
  <2>4. Handled' = Handled
    BY <2>1 DEF Handled
  <2>5. ses'[s].pc \in Batch =>
          /\ 1 <= ses'[s].next /\ ses'[s].next <= ses'[s].last
          /\ ses'[s].pc \in {"recheck", "arm"} => ses'[s].next \in stored'
    BY <1>02, <2>1, <2>2, <2>3 DEF Batch
  <2>6. ses'[s].pc = "advance" => ses'[s].next \in Handled
    BY <2>2, <2>3 DEF Handled
  <2> QED
    BY <1>01, <2>1, <2>2, <2>4, <2>5, <2>6, ProgressMoves
<1>5. CASE ReenqueueMissingDraft(s)
  <2>1. /\ UNCHANGED <<offset, stored, armed, drafted, confirmed>> /\ settled \subseteq settled'
        /\ ses[s].pc = "recheck"
    BY <1>5 DEF ReenqueueMissingDraft
  <2>2. /\ \A t \in Sessions \ {s} : ses'[t] = ses[t]
        /\ ses'[s].next = ses[s].next /\ ses'[s].last = ses[s].last
        /\ ses'[s].pc = "arm" \/ (ses'[s].pc = "advance" /\ ses[s].next \in drafted \cup settled')
    BY <1>0, <1>5 DEF ReenqueueMissingDraft, Step, SesShape, SesRecs
  <2>3. Handled \subseteq Handled'
    BY <2>1 DEF Handled
  <2>4. ses'[s].pc \in Batch =>
          /\ 1 <= ses'[s].next /\ ses'[s].next <= ses'[s].last
          /\ ses'[s].pc \in {"recheck", "arm"} => ses'[s].next \in stored'
    BY <1>02, <2>1, <2>2 DEF Batch
  <2>5. ses'[s].pc = "advance" => ses'[s].next \in Handled'
    BY <2>1, <2>2 DEF Handled
  <2> QED
    BY <1>01, <2>1, <2>2, <2>3, <2>4, <2>5, ProgressMoves
<1>6. CASE ArmAutomation(s)
  <2>1. /\ UNCHANGED <<offset, stored, drafted, settled, confirmed>> /\ armed \subseteq armed'
        /\ ses[s].pc = "arm"
    BY <1>6 DEF ArmAutomation
  <2>2. /\ \A t \in Sessions \ {s} : ses'[t] = ses[t]
        /\ ses'[s].next = ses[s].next
        /\ \/ ses'[s].pc = "poll"
           \/ ses'[s].pc = "advance" /\ ses[s].next \in armed' /\ ses'[s].last = ses[s].last
    BY <1>0, <1>6 DEF ArmAutomation, Step, Again, SesShape, SesRecs
  <2>3. Handled \subseteq Handled'
    BY <2>1 DEF Handled
  <2>4. ses'[s].pc \in Batch =>
          /\ 1 <= ses'[s].next /\ ses'[s].next <= ses'[s].last
          /\ ses'[s].pc \in {"recheck", "arm"} => ses'[s].next \in stored'
    BY <1>02, <2>1, <2>2 DEF Batch
  <2>5. ses'[s].pc = "advance" => ses'[s].next \in Handled'
    BY <2>1, <2>2 DEF Handled
  <2> QED
    BY <1>01, <2>1, <2>2, <2>3, <2>4, <2>5, ProgressMoves
<1>7. CASE Advance(s)
  <2>1. UNCHANGED <<stored, armed, drafted, settled, confirmed>> /\ ses[s].pc = "advance"
    BY <1>7 DEF Advance
  <2>2. ses[s].next \in Nat /\ ses[s].next \in Handled
    BY <1>0, <2>1 DEF Progress, HandledInOrder, SesRecs
  <2>3. \A u \in 1..ses[s].next : u \in Handled
    BY <1>01, <2>2
  <2>4. \A u \in 1..offset' : u \in Handled
    BY <1>0, <1>01, <1>7, <2>2, <2>3, AdvanceMoves DEF Higher
  <2>5. \A u \in 1..(ses'[s].next - 1) : u \in Handled
    BY <1>0, <1>01, <1>7, <2>2, <2>3, AdvanceMoves
  <2>6. Handled' = Handled
    BY <2>1 DEF Handled
  <2>7. /\ ses'[s].pc \notin {"recheck", "arm", "advance"}
        /\ ses'[s].pc \in Batch => 1 <= ses'[s].next /\ ses'[s].next <= ses'[s].last
    <3>1. ses[s].last \in Nat
      BY <1>0 DEF SesRecs
    <3> QED
      BY <1>0, <1>7, <2>2, <3>1, AdvanceMoves DEF Batch
  <2> QED
    BY <1>0, <1>01, <1>7, <2>1, <2>4, <2>5, <2>6, <2>7, AdvanceMoves, ProgressMoves
<1> QED
  BY <1>1, <1>2, <1>3, <1>4, <1>5, <1>6, <1>7 DEF Run

----------------------------------------------------------------------------
(* What a caller's step does to its own record.                             *)

Becomes(c, p) ==
  /\ call'[c].pc = p /\ call'[c].spec = call[c].spec /\ call'[c].old = call[c].old
  /\ call'[c].deletes = call[c].deletes

Opens(c, p, v, d) ==
  call'[c].pc = p /\ call'[c].spec = v /\ call'[c].old = NoOne /\ call'[c].deletes = d

Resets(c) == Opens(c, "idle", 0, FALSE)

Awaits(c, p) ==
  /\ call'[c].pc = p /\ call'[c].spec = call[c].spec /\ call'[c].old = reg
  /\ call'[c].deletes = call[c].deletes

\* Who may start, and in which state.
LEMMA RequestsMove ==
  ASSUME Typed, NEW c \in Callers
  PROVE  /\ Create(c) \/ Replace(c) => Opens(c, "list", 0, FALSE)
         /\ Check(c) => Opens(c, "probe", acct.ver, FALSE)
         /\ Delete(c) => Opens(c, "remove", 0, TRUE)
<1>1. CallShape /\ call[c] \in CallRecs
  BY DEF Typed, CallShape
<1>2. Create(c) \/ Replace(c) => Opens(c, "list", 0, FALSE)
  BY <1>1 DEF Create, Replace, Opens, Idle, CallShape
<1>3. Check(c) => Opens(c, "probe", acct.ver, FALSE)
  BY <1>1 DEF Check, Opens, Idle, CallShape
<1>4. Delete(c) => Opens(c, "remove", 0, TRUE)
  BY <1>1 DEF Delete, Opens, Idle, CallShape
<1> QED
  BY <1>2, <1>3, <1>4

\* What a caller past its check may become.
LEMMA CallersMove ==
  ASSUME Typed, NEW c \in Callers
  PROVE  /\ Probe(c) => Resets(c) \/ Becomes(c, "list")
         /\ ListTelegramPollBots(c) =>
              \/ Resets(c)
              \/ c = Boot /\ ~Eligible /\ Becomes(c, "remove")
              \/ /\ Eligible /\ call'[c].pc = "upsert" /\ call'[c].spec = acct.ver
                 /\ call'[c].old = call[c].old /\ call'[c].deletes = call[c].deletes
         /\ DisconnectPending(c) => Resets(c) \/ Becomes(c, "confirm")
         /\ ConfirmTelegramDisconnect(c) => Resets(c)
         /\ Upsert(c) => Resets(c) \/ Awaits(c, "await") \/ Becomes(c, "install")
         /\ Await(c) => /\ call'[c].old = NoOne /\ call'[c].spec = call[c].spec
                        /\ call'[c].deletes = call[c].deletes
                        /\ call'[c].pc = IF call[c].deletes THEN "pending"
                                         ELSE IF call[c].spec = 0 THEN "idle" ELSE "install"
         /\ Install(c) => Resets(c) \/ Awaits(c, "hold")
         /\ Held(c) => Resets(c)
         /\ Remove(c) => \/ Awaits(c, "await")
                         \/ call[c].deletes /\ Becomes(c, "pending")
                         \/ ~call[c].deletes /\ Resets(c)
<1>1. CallShape /\ call[c] \in CallRecs
  BY DEF Typed, CallShape
<1> USE DEF Resets, Opens, Becomes, Awaits, Idle, CallShape, CallRecs
<1>2. Probe(c) => Resets(c) \/ Becomes(c, "list")
  BY <1>1 DEF Probe
<1>3. ListTelegramPollBots(c) =>
              \/ Resets(c)
              \/ c = Boot /\ ~Eligible /\ Becomes(c, "remove")
              \/ /\ Eligible /\ call'[c].pc = "upsert" /\ call'[c].spec = acct.ver
                 /\ call'[c].old = call[c].old /\ call'[c].deletes = call[c].deletes
  <2>1. CASE call' = [call EXCEPT ![c] = Idle]
    BY <1>1, <2>1
  <2>2. CASE Eligible /\ call' = [call EXCEPT ![c] = [call[c] EXCEPT !.pc = "upsert", !.spec = acct.ver]]
    BY <1>1, <2>2
  <2>3. CASE c = Boot /\ ~Eligible /\ call' = [call EXCEPT ![c] = [call[c] EXCEPT !.pc = "remove"]]
    BY <1>1, <2>3
  <2> HIDE DEF Resets, Opens, Becomes, Idle, CallShape, CallRecs
  <2> QED
    BY <2>1, <2>2, <2>3 DEF ListTelegramPollBots
<1>4. /\ DisconnectPending(c) => Resets(c) \/ Becomes(c, "confirm")
      /\ ConfirmTelegramDisconnect(c) => Resets(c)
  BY <1>1 DEF DisconnectPending, ConfirmTelegramDisconnect
<1>5. Upsert(c) => Resets(c) \/ Awaits(c, "await") \/ Becomes(c, "install")
  BY <1>1 DEF Upsert
<1>6. Await(c) => /\ call'[c].old = NoOne /\ call'[c].spec = call[c].spec
                  /\ call'[c].deletes = call[c].deletes
                  /\ call'[c].pc = IF call[c].deletes THEN "pending"
                                   ELSE IF call[c].spec = 0 THEN "idle" ELSE "install"
  BY <1>1 DEF Await
<1>7. /\ Install(c) => Resets(c) \/ Awaits(c, "hold")
      /\ Held(c) => Resets(c)
  BY <1>1 DEF Install, Held
<1>8. Remove(c) => \/ Awaits(c, "await")
                   \/ call[c].deletes /\ Becomes(c, "pending")
                   \/ ~call[c].deletes /\ Resets(c)
  BY <1>1 DEF Remove
<1> QED
  BY <1>2, <1>3, <1>4, <1>5, <1>6, <1>7, <1>8

\* A step that leaves the registry and the mutex alone leaves waiters alone.
LEMMA OthersWait ==
  ASSUME Typed, NEW c \in Callers, (c \in Requests /\ Request(c)) \/ Serve(c)
  PROVE  \A d \in Callers \ {c} : call'[d] = call[d]
  BY DEF Typed, CallShape, Request, Serve, Create, Replace, Check, Delete, Probe,
         ListTelegramPollBots,
         DisconnectPending, ConfirmTelegramDisconnect, Upsert, Await, Install, Held, Remove

----------------------------------------------------------------------------
(* The registry and those who wait.                                         *)

Registry == WaitersHold /\ NoOrphans

\* A caller that neither waits before nor after.
LEMMA RegistryQuiet ==
  ASSUME Registry, Typed, NEW c \in Callers, UNCHANGED <<reg, mu, ses>>,
         \A d \in Callers \ {c} : call'[d] = call[d],
         call[c].pc \notin {"await", "hold"}, call'[c].pc \notin {"await", "hold"},
         call'[c].old = NoOne
  PROVE  Registry'
<1>1. mu # c
  BY TelegramAssumption DEF Registry, WaitersHold, Callers
<1>2. WaitersHold'
  BY <1>1 DEF Registry, WaitersHold, Typed, RestTyped
<1>3. call[c].old = NoOne
  BY DEF Registry, WaitersHold
<1>4. NoOrphans'
  BY <1>3, TelegramAssumption DEF Registry, NoOrphans, Running
<1> QED
  BY <1>2, <1>4 DEF Registry

\* A caller that takes the registered session, cancels and awaits it.
LEMMA RegistryAwait ==
  ASSUME Registry, Typed, NEW c \in Callers, mu = NoOne, reg # NoOne, Cancel(reg),
         \A d \in Callers \ {c} : call'[d] = call[d],
         call[c].pc \notin {"await", "hold"}, call'[c].old = reg,
         \/ call'[c].pc = "await" /\ mu' = NoOne /\ reg' \in {reg, NoOne}
         \/ call'[c].pc = "hold" /\ mu' = c /\ reg' = reg
  PROVE  Registry'
<1>1. \A d \in Callers : call[d].pc # "hold"
  BY TelegramAssumption DEF Registry, WaitersHold, Callers
<1>2. WaitersHold'
  BY <1>1, TelegramAssumption DEF Registry, WaitersHold, Callers
<1>3. reg \in Sessions /\ SesShape
  BY DEF Typed, RestTyped
<1>4. /\ ses'[reg].cancelled
      /\ \A t \in Sessions \ {reg} : ses'[t] = ses[t]
  BY <1>3, CancelStays
<1>5. call[c].old = NoOne
  BY DEF Registry, WaitersHold
<1>6. ASSUME NEW t \in Sessions, ses'[t].pc # "done"
      PROVE  t = reg' \/ (ses'[t].cancelled /\ \E d \in Callers : call'[d].old = t)
  <2>1. CASE t = reg
    BY <1>4, <2>1
  <2>2. CASE t # reg
    BY <1>4, <1>5, <1>6, <2>2, TelegramAssumption DEF Registry, NoOrphans, Running
  <2> QED
    BY <2>1, <2>2
<1>7. NoOrphans'
  BY <1>6 DEF NoOrphans, Running
<1> QED
  BY <1>2, <1>7 DEF Registry

\* A caller that registers a new session, where the registered one is over.
LEMMA RegistrySpawn ==
  ASSUME Registry, Typed, NEW c \in Callers, NEW v, Spawn(v), mu \in {NoOne, c}, mu' = NoOne,
         reg # NoOne => ses[reg].pc = "done",
         \A d \in Callers \ {c} : call'[d] = call[d],
         call[c].pc = IF mu = c THEN "hold" ELSE "install", Resets(c)
  PROVE  Registry'
<1>1. SesShape
  BY DEF Typed
<1>2. \A d \in Callers \ {c} : call[d].pc # "hold"
  BY TelegramAssumption DEF Registry, WaitersHold, Callers
<1>3. WaitersHold'
  BY <1>2, TelegramAssumption DEF Registry, WaitersHold, Resets, Opens
<1>4. call[c].old = reg \/ call[c].old = NoOne
  BY TelegramAssumption DEF Registry, WaitersHold, Callers
<1>5. ASSUME NEW t \in Sessions, ses'[t].pc # "done", t # reg'
      PROVE  ses'[t].cancelled /\ \E d \in Callers : call'[d].old = t
  <2>1. ses'[t] = ses[t]
    BY <1>1, <1>5, SpawnStarts
  <2>2. t # reg
    BY <1>5, <2>1, TelegramAssumption
  <2> QED
    BY <1>4, <1>5, <2>1, <2>2, TelegramAssumption DEF Registry, NoOrphans, Running
<1>6. NoOrphans'
  BY <1>5 DEF NoOrphans, Running
<1> QED
  BY <1>3, <1>6 DEF Registry

\* Callers keep the mutex with its holder, and leave no session behind unawaited.
LEMMA CallersKeepRegistry ==
  ASSUME Registry, Typed, NEW c \in Callers, (c \in Requests /\ Request(c)) \/ Serve(c)
  PROVE  Registry'
<1> USE DEF store, manager, telegram
<1>1. \A d \in Callers \ {c} : call'[d] = call[d]
  BY OthersWait
<1>2. call[c].pc \notin {"await", "hold"} => call[c].old = NoOne
  BY DEF Registry, WaitersHold
<1>3. CASE c \in Requests /\ Request(c)
  <2>1. UNCHANGED <<reg, mu, ses>> /\ call[c].pc = "idle"
    BY <1>3 DEF Request, Create, Replace, Check, Delete
  <2>2. call'[c].pc \notin {"await", "hold"} /\ call'[c].old = NoOne
    BY <1>3, RequestsMove DEF Request, Opens
  <2> QED
    BY <1>1, <2>1, <2>2, RegistryQuiet
<1>4. CASE Probe(c) \/ ListTelegramPollBots(c) \/ DisconnectPending(c) \/ ConfirmTelegramDisconnect(c)
  <2>1. UNCHANGED <<reg, mu, ses>> /\ call[c].pc \in {"probe", "list", "pending", "confirm"}
    BY <1>4 DEF Probe, ListTelegramPollBots, DisconnectPending, ConfirmTelegramDisconnect
  <2>2. call'[c].pc \notin {"await", "hold"} /\ call'[c].old = NoOne
    BY <1>2, <1>4, <2>1, CallersMove DEF Resets, Opens, Becomes
  <2> QED
    BY <1>1, <2>1, <2>2, RegistryQuiet
<1>5. CASE Upsert(c)
  <2>1. call[c].pc = "upsert" /\ mu = NoOne /\ UNCHANGED <<reg, mu>>
    BY <1>5 DEF Upsert
  <2>2. CASE reg # NoOne /\ Cancel(reg) /\ call' = [call EXCEPT ![c].pc = "await", ![c].old = reg]
    <3>1. call'[c].pc = "await" /\ call'[c].old = reg
      BY <2>2 DEF Typed, CallShape, CallRecs
    <3> QED
      BY <1>1, <2>1, <2>2, <3>1, RegistryAwait
  <2>3. CASE ses' = ses /\ (call' = [call EXCEPT ![c] = Idle] \/ call' = [call EXCEPT ![c].pc = "install"])
    <3>1. call'[c].pc \notin {"await", "hold"} /\ call'[c].old = NoOne
      BY <1>2, <2>1, <2>3 DEF Typed, CallShape, CallRecs, Idle
    <3> QED
      BY <1>1, <2>1, <2>3, <3>1, RegistryQuiet
  <2> QED
    BY <1>5, <2>2, <2>3 DEF Upsert
<1>6. CASE Await(c)
  <2>1. /\ UNCHANGED <<reg, mu, ses>> /\ call[c].pc = "await" /\ ses[call[c].old].pc = "done"
    BY <1>6 DEF Await
  <2>2. call'[c].old = NoOne /\ call'[c].pc \notin {"await", "hold"}
    BY <1>6, CallersMove
  <2>3. mu # c
    BY <2>1, TelegramAssumption DEF Registry, WaitersHold, Callers
  <2>4. WaitersHold'
    BY <1>1, <2>1, <2>2, <2>3 DEF Registry, WaitersHold, Typed, RestTyped
  <2>5. NoOrphans'
    BY <1>1, <2>1, <2>2 DEF Registry, NoOrphans, Running
  <2> QED
    BY <2>4, <2>5 DEF Registry
<1>7. CASE Install(c)
  <2>1. call[c].pc = "install" /\ mu = NoOne
    BY <1>7 DEF Install
  <2>2. CASE call' = [call EXCEPT ![c] = Idle] /\ UNCHANGED <<reg, mu, ses>>
    <3>1. call'[c].pc = "idle" /\ call'[c].old = NoOne
      BY <2>2 DEF Typed, CallShape, Idle
    <3> QED
      BY <1>1, <2>1, <2>2, <3>1, RegistryQuiet
  <2>3. CASE /\ reg # NoOne /\ Cancel(reg) /\ mu' = c /\ reg' = reg
             /\ call' = [call EXCEPT ![c].pc = "hold", ![c].old = reg]
    <3>1. call'[c].pc = "hold" /\ call'[c].old = reg
      BY <2>3 DEF Typed, CallShape, CallRecs
    <3> QED
      BY <1>1, <2>1, <2>3, <3>1, RegistryAwait
  <2>4. CASE /\ reg # NoOne => ses[reg].pc = "done"
             /\ Spawn(call[c].spec) /\ mu' = mu /\ call' = [call EXCEPT ![c] = Idle]
    <3>1. Resets(c)
      BY <2>4 DEF Typed, CallShape, Idle, Resets, Opens
    <3>2. mu # c
      BY <2>1, TelegramAssumption DEF Callers
    <3> QED
      BY <1>1, <2>1, <2>4, <3>1, <3>2, RegistrySpawn
  <2> QED
    BY <1>7, <2>2, <2>3, <2>4 DEF Install
<1>8. CASE Held(c)
  <2>1. /\ call[c].pc = "hold" /\ ses[call[c].old].pc = "done" /\ Spawn(call[c].spec) /\ mu' = NoOne
    BY <1>8 DEF Held
  <2>2. mu = c /\ ses[reg].pc = "done"
    BY <2>1 DEF Registry, WaitersHold
  <2> QED
    BY <1>1, <1>8, <2>1, <2>2, CallersMove, RegistrySpawn
<1>9. CASE Remove(c)
  <2>1. call[c].pc = "remove" /\ mu = NoOne /\ mu' = mu
    BY <1>9 DEF Remove
  <2>2. CASE /\ reg # NoOne /\ reg' = NoOne /\ Cancel(reg)
             /\ call' = [call EXCEPT ![c].pc = "await", ![c].old = reg]
    <3>1. call'[c].pc = "await" /\ call'[c].old = reg
      BY <2>2 DEF Typed, CallShape, CallRecs
    <3> QED
      BY <1>1, <2>1, <2>2, <3>1, RegistryAwait
  <2>3. CASE reg = NoOne /\ UNCHANGED <<reg, ses>>
    <3>1. ~Awaits(c, "await") \/ call'[c].old = NoOne
      BY <2>3 DEF Awaits
    <3>2. call'[c].pc \in {"pending", "idle"} /\ call'[c].old = NoOne
      BY <1>2, <1>9, <2>1, <2>3 DEF Remove, Typed, CallShape, CallRecs, Idle
    <3> QED
      BY <1>1, <2>1, <2>3, <3>2, RegistryQuiet
  <2> QED
    BY <1>9, <2>2, <2>3 DEF Remove
<1> QED
  BY <1>3, <1>4, <1>5, <1>6, <1>7, <1>8, <1>9 DEF Serve

\* What a session's step does to what it shares with the callers.
LEMMA SessionsMove ==
  ASSUME Typed, NEW s \in Sessions, Run(s) \/ Exit(s)
  PROVE  /\ UNCHANGED <<reg, mu, call, issued, missed, leftOut>>
         /\ acct'.live = acct.live /\ acct'.ver = acct.ver
         /\ \A t \in Sessions \ {s} : ses'[t] = ses[t]
         /\ ses[s].pc # "done"
         /\ \/ ses'[s].pc = "done" /\ ses'[s].token = 0
            \/ /\ ses'[s].pc # "done" /\ ses'[s].cancelled = ses[s].cancelled
               /\ ses'[s].ver = ses[s].ver /\ ses'[s].token \in {ses[s].token, acct.ver}
<1> USE DEF store, manager, telegram
<1>1. SesShape /\ ses[s] \in SesRecs
  BY DEF Typed, SesShape
<1>2. UNCHANGED <<reg, mu, call, issued, missed, leftOut>>
  BY DEF Run, Exit, ResolveToken, DeleteWebhook, MarkConnected, ReadOffset, GetUpdates,
         GetUpdatesFails,
         RecordTokenError, Ingest, ReenqueueMissingDraft, ArmAutomation, Advance
<1>3. acct' = acct \/ \E st : acct' = [acct EXCEPT !.st = st]
  BY DEF Run, Exit, ResolveToken, DeleteWebhook, MarkConnected, ReadOffset, GetUpdates,
         GetUpdatesFails,
         RecordTokenError, Ingest, ReenqueueMissingDraft, ArmAutomation, Advance
<1>4. acct'.live = acct.live /\ acct'.ver = acct.ver
  BY <1>3 DEF Typed, AccountTyped
<1> DEFINE Result ==
  /\ \A t \in Sessions \ {s} : ses'[t] = ses[t]
  /\ ses[s].pc # "done"
  /\ \/ ses'[s].pc = "done" /\ ses'[s].token = 0
     \/ /\ ses'[s].pc # "done" /\ ses'[s].cancelled = ses[s].cancelled
        /\ ses'[s].ver = ses[s].ver /\ ses'[s].token \in {ses[s].token, acct.ver}
<1>5. CASE Exit(s) \/ RecordTokenError(s)
  <2>1. Result
    BY <1>1, <1>5 DEF Exit, RecordTokenError, Ends, Over, SesShape, SesRecs
  <2> QED
    BY <1>2, <1>4, <2>1
<1>6. CASE ResolveToken(s) \/ DeleteWebhook(s) \/ MarkConnected(s) \/ ReadOffset(s) \/ GetUpdates(s)
  <2>1. Result
    <3>1. CASE ResolveToken(s)
      BY <1>1, <3>1 DEF ResolveToken, SesShape, SesRecs
    <3>2. CASE DeleteWebhook(s) \/ MarkConnected(s)
      BY <1>1, <3>2 DEF DeleteWebhook, MarkConnected, Step, SesShape, SesRecs
    <3>3. CASE ReadOffset(s)
      BY <1>1, <3>3 DEF ReadOffset, SesShape, SesRecs
    <3>4. CASE GetUpdates(s)
      BY <1>1, <3>4 DEF GetUpdates, SesShape, SesRecs
    <3> QED
      BY <1>6, <3>1, <3>2, <3>3, <3>4
  <2> QED
    BY <1>2, <1>4, <2>1
<1>7. CASE GetUpdatesFails(s) \/ Ingest(s) \/ ReenqueueMissingDraft(s) \/ ArmAutomation(s)
  <2>1. Result
    BY <1>1, <1>7 DEF GetUpdatesFails, Ingest, ReenqueueMissingDraft, ArmAutomation, Step, Again,
                      SesShape, SesRecs
  <2> QED
    BY <1>2, <1>4, <2>1
<1>8. CASE Advance(s)
  <2>1. Result
    BY <1>1, <1>8, AdvanceMoves DEF Advance
  <2> QED
    BY <1>2, <1>4, <2>1
<1> QED
  BY <1>5, <1>6, <1>7, <1>8 DEF Run

\* Sessions touch neither the registry nor a waiter.
LEMMA SessionsKeepRegistry ==
  ASSUME Registry, Typed, NEW s \in Sessions, Run(s) \/ Exit(s)
  PROVE  Registry'
<1>1. WaitersHold'
  BY SessionsMove DEF Registry, WaitersHold
<1>2. NoOrphans'
  BY SessionsMove DEF Registry, NoOrphans, Running
<1> QED
  BY <1>1, <1>2 DEF Registry

----------------------------------------------------------------------------
(* Deletes.                                                                 *)

\* A delete passes through its own steps only.
LEMMA CallersRunDeletes ==
  ASSUME DeletesRun, Typed, NEW c \in Callers, (c \in Requests /\ Request(c)) \/ Serve(c)
  PROVE  DeletesRun'
<1>1. \A d \in Callers \ {c} : call'[d] = call[d]
  BY OthersWait
<1>2. /\ call'[c].deletes => call'[c].pc \in {"remove", "await", "pending", "confirm"}
      /\ call'[c].pc \in {"pending", "confirm"} => call'[c].deletes
      /\ call'[c].pc = "remove" => c = Boot \/ call'[c].deletes
  <2>0. /\ call[c].deletes => call[c].pc \in {"remove", "await", "pending", "confirm"}
        /\ call[c].pc \in {"pending", "confirm"} => call[c].deletes
        /\ call[c].pc = "remove" => c = Boot \/ call[c].deletes
    BY DEF DeletesRun
  <2>1. CASE c \in Requests /\ Request(c)
    BY <2>1, RequestsMove DEF Request, Opens
  <2>2. CASE Probe(c) \/ ListTelegramPollBots(c)
    <3>1. call[c].pc \in {"probe", "list"}
      BY <2>2 DEF Probe, ListTelegramPollBots
    <3> QED
      BY <2>0, <2>2, <3>1, CallersMove DEF Resets, Opens, Becomes
  <2>3. CASE DisconnectPending(c) \/ ConfirmTelegramDisconnect(c)
    <3>1. call[c].pc \in {"pending", "confirm"}
      BY <2>3 DEF DisconnectPending, ConfirmTelegramDisconnect
    <3> QED
      BY <2>0, <2>3, <3>1, CallersMove DEF Resets, Opens, Becomes
  <2>4. CASE Upsert(c) \/ Install(c) \/ Held(c)
    <3>1. call[c].pc \in {"upsert", "install", "hold"}
      BY <2>4 DEF Upsert, Install, Held
    <3> QED
      BY <2>0, <2>4, <3>1, CallersMove DEF Resets, Opens, Becomes, Awaits
  <2>5. CASE Await(c) \/ Remove(c)
    BY <2>0, <2>5, CallersMove DEF Resets, Opens, Becomes, Awaits
  <2> QED
    BY <2>1, <2>2, <2>3, <2>4, <2>5 DEF Serve
<1> QED
  BY <1>1, <1>2 DEF DeletesRun

\* Nobody forgets that a write failed or a request was crossed.
LEMMA MissedStays ==
  ASSUME Typed, NEW c \in Callers, (c \in Requests /\ Request(c)) \/ Serve(c)
  PROVE  (missed => missed') /\ (leftOut => leftOut')
  BY DEF Request, Serve, Create, Replace, Check, Delete, Probe, ListTelegramPollBots,
         DisconnectPending, ConfirmTelegramDisconnect, Upsert, Await, Install, Held, Remove, Spawn, Typed, RestTyped

\* Nothing is registered for a bot being deleted or deleted.
LEMMA CallersHoldDeletes ==
  ASSUME DeletesHold, DeletesRun, Typed, NEW c \in Callers, (c \in Requests /\ Request(c)) \/ Serve(c)
  PROVE  DeletesHold'
<1> USE DEF store, manager, telegram
<1> SUFFICES ASSUME ~missed'
             PROVE  /\ \A d \in Callers : call'[d].deletes /\ call'[d].pc # "remove" => reg' = NoOne
                    /\ ~acct'.live =>
                         /\ reg' = NoOne
                         /\ \A d \in Callers : call'[d].pc \in {"idle", "list", "remove"} /\ ~call'[d].deletes
  BY DEF DeletesHold
<1>1. \A d \in Callers \ {c} : call'[d] = call[d]
  BY OthersWait
<1>2. /\ ~missed
      /\ \A d \in Callers : call[d].deletes /\ call[d].pc # "remove" => reg = NoOne
      /\ ~acct.live =>
           /\ reg = NoOne
           /\ \A d \in Callers : call[d].pc \in {"idle", "list", "remove"} /\ ~call[d].deletes
  BY MissedStays DEF DeletesHold
<1>3. /\ call[c].deletes => call[c].pc \in {"remove", "await", "pending", "confirm"}
      /\ call[c].pc \in {"pending", "confirm"} => call[c].deletes
      /\ call[c].pc = "remove" => c = Boot \/ call[c].deletes
      /\ \A d \in Callers : call[d].deletes => call[d].pc # "idle"
  BY DEF DeletesRun
<1>4. CASE c \in Requests /\ Request(c)
  <2>1. UNCHANGED reg
    BY <1>4 DEF Request, Create, Replace, Check, Delete
  <2>2. acct'.live
    BY <1>4 DEF Request, Create, Replace, Check, Delete, Typed, AccountTyped
  <2>3. call'[c].deletes => call'[c].pc = "remove"
    BY <1>4, RequestsMove DEF Request, Opens
  <2> QED
    BY <1>1, <1>2, <2>1, <2>2, <2>3
<1>5. CASE Probe(c) \/ DisconnectPending(c)
  <2>1. UNCHANGED reg /\ acct'.live = acct.live /\ call[c].pc \in {"probe", "pending"}
    BY <1>5 DEF Probe, DisconnectPending, Typed, AccountTyped
  <2>2. acct.live
    BY <1>2, <2>1
  <2>3. call'[c].deletes => call[c].deletes
    BY <1>5, CallersMove DEF Resets, Opens, Becomes
  <2> QED
    BY <1>1, <1>2, <2>1, <2>2, <2>3
<1>6. CASE ListTelegramPollBots(c)
  <2>1. UNCHANGED <<reg, acct>> /\ call[c].pc = "list"
    BY <1>6 DEF ListTelegramPollBots
  <2>2. ~call'[c].deletes
    BY <1>3, <1>6, <2>1, CallersMove DEF Resets, Opens, Becomes
  <2>3. ~acct.live => call'[c].pc \in {"idle", "list", "remove"}
    BY <1>6, CallersMove DEF Resets, Opens, Becomes, Eligible
  <2> QED
    BY <1>1, <1>2, <2>1, <2>2, <2>3
<1>7. CASE ConfirmTelegramDisconnect(c)
  <2>1. UNCHANGED reg /\ call[c].pc = "confirm"
    BY <1>7 DEF ConfirmTelegramDisconnect
  <2>2. reg = NoOne
    BY <1>2, <1>3, <2>1
  <2>3. \A d \in Callers \ {c} : call[d].pc = "idle"
    BY <1>2, <1>7 DEF ConfirmTelegramDisconnect
  <2>4. call'[c].pc = "idle" /\ ~call'[c].deletes
    BY <1>7, CallersMove DEF Resets, Opens
  <2> QED
    BY <1>1, <1>3, <2>1, <2>2, <2>3, <2>4
<1>8. CASE Upsert(c)
  <2>1. UNCHANGED <<reg, acct>> /\ call[c].pc = "upsert"
    BY <1>8 DEF Upsert
  <2>2. acct.live /\ ~call[c].deletes
    BY <1>2, <1>3, <2>1
  <2>3. ~call'[c].deletes
    BY <1>8, <2>2, CallersMove DEF Resets, Opens, Becomes, Awaits
  <2> QED
    BY <1>1, <1>2, <2>1, <2>2, <2>3
<1>9. CASE Await(c)
  <2>1. UNCHANGED <<reg, acct>> /\ call[c].pc = "await"
    BY <1>9 DEF Await
  <2>2. acct.live /\ call'[c].deletes = call[c].deletes
    BY <1>2, <1>9, <2>1, CallersMove
  <2> QED
    BY <1>1, <1>2, <2>1, <2>2
<1>10. CASE Install(c) \/ Held(c)
  <2>1. UNCHANGED acct /\ call[c].pc \in {"install", "hold"}
    BY <1>10 DEF Install, Held
  <2>2. acct.live /\ ~call[c].deletes
    BY <1>2, <1>3, <2>1
  <2>3. ~call'[c].deletes
    BY <1>10, <2>2, CallersMove DEF Resets, Opens, Awaits
  <2>4. reg' = reg \/ \A d \in Callers : ~(call[d].deletes /\ call[d].pc # "remove")
    BY <1>10 DEF Install, Held, Spawn
  <2> QED
    BY <1>1, <1>2, <2>1, <2>2, <2>3, <2>4
<1>11. CASE Remove(c)
  <2>1. UNCHANGED acct /\ call[c].pc = "remove" /\ reg' = NoOne
    BY <1>11 DEF Remove
  <2>2. ~acct.live => Resets(c)
    BY <1>2, <1>11, CallersMove DEF Remove, Awaits, Typed, CallShape, Resets, Opens, Idle
  <2> QED
    BY <1>1, <1>2, <2>1, <2>2 DEF Resets, Opens
<1> QED
  BY <1>4, <1>5, <1>6, <1>7, <1>8, <1>9, <1>10, <1>11 DEF Serve

----------------------------------------------------------------------------
(* The stored token is polled.                                              *)

\* No session is ahead of the tokens issued.
LEMMA CallersGrowTokens ==
  ASSUME TokensGrow, Typed, NEW c \in Callers, (c \in Requests /\ Request(c)) \/ Serve(c)
  PROVE  TokensGrow'
<1>1. acct'.ver \in {0, issued'}
  BY DEF TokensGrow, Typed, AccountTyped, telegram, store, Request, Serve, Create, Replace, Check,
         Delete,
         Probe, ListTelegramPollBots, DisconnectPending, ConfirmTelegramDisconnect, Upsert, Await, Install,
         Held, Remove
<1>2. \A t \in Sessions : Stays(t) \/ Starts(t)
  BY CallersKeepSessions
<1> QED
  BY <1>1, <1>2 DEF TokensGrow, Stays, Starts

\* A session resolves the newest token there is.
LEMMA SessionsGrowTokens ==
  ASSUME TokensGrow, Typed, NEW s \in Sessions, Run(s) \/ Exit(s)
  PROVE  TokensGrow'
<1>1. ses[s].ver <= issued /\ ses[s].ver \in Nat
  BY DEF Typed, SesShape, SesRecs, SesBounds
<1> QED
  BY <1>1, SessionsMove DEF TokensGrow

\* A session that ends or resolves a token leaves the stored one polled.
LEMMA SessionsSeeToIt ==
  ASSUME SomeoneSeesToIt, Typed, NEW s \in Sessions, Run(s) \/ Exit(s)
  PROVE  SomeoneSeesToIt'
<1>1. Polled => Polled'
  BY SessionsMove DEF Polled, Typed, RestTyped
<1>2. \A c \in Callers : InCharge(c) => InCharge(c)'
  BY SessionsMove DEF InCharge
<1> QED
  BY <1>1, <1>2, SessionsMove DEF SomeoneSeesToIt

\* A session of the newest version has the newest token, or none yet.
LEMMA SameVersionIsPolled ==
  ASSUME TokensGrow, Typed, reg # NoOne, acct.ver # 0, ses[reg].ver = acct.ver
  PROVE  Polled
<1>1. reg \in Sessions
  BY DEF Typed, RestTyped
<1>2. /\ ses[reg].token \in Nat /\ issued \in Nat /\ acct.ver = issued /\ ses[reg].token <= issued
      /\ ses[reg].token # 0 => ses[reg].ver <= ses[reg].token
  BY <1>1 DEF TokensGrow, Typed, AccountTyped, SesShape, SesRecs, SesBounds
<1> QED
  BY <1>2 DEF Polled

\* Whoever stores a token, or takes a session out, sees to the next one.
LEMMA CallersSeeToIt ==
  ASSUME SomeoneSeesToIt, TokensGrow, DeletesRun, WaitersHold, Typed, NEW c \in Callers,
         (c \in Requests /\ Request(c)) \/ Serve(c)
  PROVE  SomeoneSeesToIt'
<1> USE DEF store, manager, telegram
<1> SUFFICES ASSUME acct'.live, acct'.ver # 0, ~missed', ~leftOut'
             PROVE  Polled' \/ \E d \in Callers : InCharge(d)'
  BY DEF SomeoneSeesToIt
<1>1. /\ \A d \in Callers \ {c} : call'[d] = call[d]
      /\ ~missed /\ ~leftOut
      /\ \A t \in Sessions : Stays(t) \/ Starts(t)
  BY OthersWait, MissedStays, CallersKeepSessions
<1>2. /\ SesShape /\ (reg # NoOne => reg \in Sessions) /\ AccountTyped /\ NoOne \notin Sessions
  BY TelegramAssumption DEF Typed, RestTyped
<1>3. /\ call[c].deletes => call[c].pc \in {"remove", "await", "pending", "confirm"}
      /\ call[c].pc \in {"pending", "confirm"} => call[c].deletes
      /\ call[c].pc = "remove" => c = Boot \/ call[c].deletes
  BY DEF DeletesRun
<1>4. \A v : Spawn(v) => Polled'
  <2>1. SUFFICES ASSUME NEW v, Spawn(v) PROVE Polled'
    OBVIOUS
  <2>2. reg' \in Sessions /\ Starts(reg')
    BY <1>2, <2>1, SpawnStarts
  <2> QED
    BY <1>2, <2>2 DEF Polled, Starts
<1>5. ASSUME acct'.live = acct.live, acct'.ver = acct.ver, reg' = reg, Polled PROVE Polled'
  BY <1>1, <1>2, <1>5 DEF Polled, Stays, Starts
<1>6. ASSUME acct'.ver = acct.ver, NEW d \in Callers \ {c}, InCharge(d) PROVE InCharge(d)'
  BY <1>1, <1>6 DEF InCharge
<1>7. ASSUME acct'.live = acct.live, acct'.ver = acct.ver, reg' = reg,
             InCharge(c) => Polled' \/ InCharge(c)'
      PROVE  Polled' \/ \E d \in Callers : InCharge(d)'
  BY <1>1, <1>5, <1>6, <1>7 DEF SomeoneSeesToIt
<1>8. CASE c \in Requests /\ Request(c)
  <2>1. CASE Create(c) \/ Replace(c)
    BY <2>1, RequestsMove DEF Opens, InCharge
  <2>2. CASE Check(c) \/ Delete(c)
    <3>1. UNCHANGED <<acct, reg>> /\ call[c].pc = "idle"
      BY <2>2 DEF Check, Delete
    <3>2. ~InCharge(c)
      BY <1>3, <3>1 DEF InCharge
    <3> QED
      BY <1>7, <3>1, <3>2
  <2> QED
    BY <1>8, <2>1, <2>2 DEF Request
<1>9. CASE Probe(c)
  <2>1. UNCHANGED reg /\ acct'.live = acct.live /\ acct'.ver = acct.ver /\ call[c].pc = "probe"
    BY <1>2, <1>9 DEF Probe, AccountTyped
  <2>2. ~InCharge(c)
    BY <1>3, <2>1 DEF InCharge
  <2> QED
    BY <1>7, <2>1, <2>2
<1>10. CASE ListTelegramPollBots(c)
  <2>1. UNCHANGED <<acct, reg>>
    BY <1>10 DEF ListTelegramPollBots
  <2>2. Eligible /\ call' = [call EXCEPT ![c] = [call[c] EXCEPT !.pc = "upsert", !.spec = acct.ver]]
    BY <1>10, <2>1 DEF ListTelegramPollBots
  <2>3. InCharge(c)'
    BY <2>1, <2>2 DEF InCharge, Typed, CallShape, CallRecs
  <2> QED
    BY <2>3
<1>11. CASE DisconnectPending(c)
  <2>1. UNCHANGED reg /\ acct'.live = acct.live /\ acct'.ver = acct.ver /\ call[c].pc = "pending"
    BY <1>2, <1>11 DEF DisconnectPending, AccountTyped
  <2>2. call' = [call EXCEPT ![c].pc = "confirm"] /\ call[c].deletes
    BY <1>3, <1>11, <2>1 DEF DisconnectPending
  <2>3. InCharge(c)'
    BY <2>2 DEF InCharge, Typed, CallShape, CallRecs
  <2> QED
    BY <2>3
<1>12. CASE ConfirmTelegramDisconnect(c)
  <2>1. acct'.ver = 0
    BY <1>2, <1>12 DEF ConfirmTelegramDisconnect, AccountTyped
  <2> QED
    BY <2>1
<1>13. CASE Upsert(c)
  <2>1. UNCHANGED <<acct, reg>> /\ call[c].pc = "upsert"
    BY <1>13 DEF Upsert
  <2>2. ASSUME InCharge(c) PROVE Polled' \/ InCharge(c)'
    <3>1. call[c].spec = acct.ver
      BY <1>3, <2>1, <2>2 DEF InCharge
    <3>2. CASE reg # NoOne /\ ses[reg].ver = call[c].spec
      BY <1>5, <2>1, <3>1, <3>2, SameVersionIsPolled
    <3>3. CASE call'[c].pc \in {"await", "install"} /\ call'[c].spec = call[c].spec
      BY <2>1, <3>1, <3>3 DEF InCharge
    <3> QED
      BY <1>13, <3>2, <3>3 DEF Upsert, Typed, CallShape, CallRecs
  <2> QED
    BY <1>7, <2>1, <2>2
<1>14. CASE Await(c)
  <2>1. UNCHANGED <<acct, reg>> /\ call[c].pc = "await"
    BY <1>14 DEF Await
  <2>2. InCharge(c) => InCharge(c)'
    BY <1>14, <2>1, CallersMove DEF InCharge
  <2> QED
    BY <1>7, <2>1, <2>2
<1>15. CASE Install(c)
  <2>1. UNCHANGED acct /\ call[c].pc = "install"
    BY <1>15 DEF Install
  <2>2. CASE reg # NoOne /\ ses[reg].ver = call[c].spec /\ UNCHANGED reg
    <3>1. InCharge(c) => call[c].spec = acct.ver
      BY <1>3, <2>1 DEF InCharge
    <3> QED
      BY <1>5, <1>7, <2>1, <2>2, <3>1, SameVersionIsPolled
  <2>3. CASE UNCHANGED reg /\ call' = [call EXCEPT ![c].pc = "hold", ![c].old = reg]
    <3>1. InCharge(c) => InCharge(c)'
      BY <2>1, <2>3 DEF InCharge, Typed, CallShape, CallRecs
    <3> QED
      BY <1>7, <2>1, <2>3, <3>1
  <2>4. CASE Spawn(call[c].spec)
    BY <1>4, <2>4
  <2> QED
    BY <1>15, <2>2, <2>3, <2>4 DEF Install
<1>16. CASE Held(c)
  BY <1>4, <1>16 DEF Held
<1>17. CASE Remove(c)
  <2>1. UNCHANGED acct /\ call[c].pc = "remove"
    BY <1>17 DEF Remove
  <2>2. CASE call[c].deletes
    <3>1. call'[c].deletes
      BY <1>17, <2>2, CallersMove DEF Awaits, Becomes
    <3>2. InCharge(c)'
      BY <3>1 DEF InCharge
    <3> QED
      BY <3>2
  <2>3. CASE ~call[c].deletes
    <3>1. c = Boot /\ ~InCharge(c)
      BY <1>3, <2>1, <2>3 DEF InCharge
    <3>2. UNCHANGED reg
      BY <1>17, <3>1 DEF Remove
    <3> QED
      BY <1>7, <2>1, <3>1, <3>2
  <2> QED
    BY <2>2, <2>3
<1> QED
  BY <1>8, <1>9, <1>10, <1>11, <1>12, <1>13, <1>14, <1>15, <1>16, <1>17 DEF Serve

----------------------------------------------------------------------------
(* The whole invariant.                                                     *)

IInv ==
  /\ Typed /\ BatchesRun /\ HandledInOrder
  /\ WaitersHold /\ NoOrphans
  /\ DeletesRun /\ DeletesHold
  /\ TokensGrow /\ SomeoneSeesToIt

\* The invariant holds at the start.
LEMMA InitHolds == Init => IInv
<1> SUFFICES ASSUME Init PROVE IInv
  OBVIOUS
<1>1. Typed
  BY InitTyped
<1>2. /\ \A s \in Sessions : ses[s].pc = "done" /\ ses[s].next = 0 /\ ses[s].token = 0
      /\ \A c \in Callers : call[c].pc \in {"idle", "list"} /\ call[c].old = NoOne /\ ~call[c].deletes
  BY DEF Init, Over, AtBoot, Idle
<1>3. BatchesRun /\ HandledInOrder
  BY <1>2 DEF Init, BatchesRun, HandledInOrder, Batch
<1>4. WaitersHold /\ NoOrphans
  BY <1>2 DEF Init, WaitersHold, NoOrphans, Running
<1>5. DeletesRun /\ DeletesHold
  BY <1>2 DEF Init, DeletesRun, DeletesHold
<1>6. TokensGrow /\ SomeoneSeesToIt
  BY <1>2 DEF Init, TokensGrow, SomeoneSeesToIt
<1> QED
  BY <1>1, <1>3, <1>4, <1>5, <1>6 DEF IInv

\* A crash empties the registry and leaves it to the boot pass.
LEMMA CrashKeeps == IInv /\ CrashRestart => IInv'
<1> SUFFICES ASSUME IInv, CrashRestart PROVE IInv'
  OBVIOUS
<1> USE DEF store, manager, telegram
<1>0. Typed
  BY DEF IInv
<1>1. /\ reg' = NoOne /\ mu' = NoOne /\ UNCHANGED <<store, telegram, settled, missed, leftOut>>
      /\ ses' = [s \in Sessions |-> Over]
      /\ call' = [c \in Callers |-> IF c = Boot THEN AtBoot ELSE Idle]
      /\ events' = events + 1
  BY DEF CrashRestart, Fault, Event
<1>2. /\ \A s \in Sessions : /\ ses'[s].pc = "done" /\ ses'[s].next = 0 /\ ses'[s].token = 0
                           /\ ses'[s].ver = 0 /\ ses'[s].last = 0
      /\ \A c \in Callers : /\ call'[c].pc = (IF c = Boot THEN "list" ELSE "idle")
                            /\ call'[c].old = NoOne /\ ~call'[c].deletes /\ call'[c].spec = 0
  BY <1>1 DEF Over, AtBoot, Idle
<1>3. Typed'
  <2>1. CallShape' /\ SesShape'
    <3>1. Idle \in CallRecs /\ Over \in SesRecs
      BY OverSessions, IdleCalls
    <3>2. AtBoot \in CallRecs
      BY DEF AtBoot, CallPcs, Idle, CallRecs
    <3> QED
      BY <1>1, <3>1, <3>2 DEF CallShape, SesShape
  <2>2. CallBounds' /\ SesBounds'
    BY <1>0, <1>1, <1>2, TelegramAssumption DEF CallBounds, SesBounds, Typed, AccountTyped,
                                                UpdatesTyped
  <2>3. AccountTyped' /\ UpdatesTyped' /\ RestTyped'
    BY <1>0, <1>1 DEF Typed, AccountTyped, UpdatesTyped, RestTyped
  <2> QED
    BY <2>1, <2>2, <2>3 DEF Typed
<1>4. BatchesRun'
  BY <1>2 DEF BatchesRun, Batch
<1>5. HandledInOrder'
  BY <1>1, <1>2 DEF IInv, HandledInOrder, Handled
<1>6. WaitersHold' /\ NoOrphans'
  BY <1>1, <1>2 DEF WaitersHold, NoOrphans, Running
<1>7. DeletesRun' /\ DeletesHold'
  BY <1>1, <1>2 DEF DeletesRun, DeletesHold
<1>8. TokensGrow'
  BY <1>1, <1>2 DEF IInv, TokensGrow
<1>9. SomeoneSeesToIt'
  BY <1>2 DEF SomeoneSeesToIt, InCharge, Callers
<1> QED
  BY <1>3, <1>4, <1>5, <1>6, <1>7, <1>8, <1>9 DEF IInv

\* A step that only concerns the customer, a draft, the token's acceptance, or
\* nothing.
LEMMA OutsideKeeps == IInv /\ (CustomerWrites \/ Generate \/ Revoke \/ UNCHANGED vars) => IInv'
<1> SUFFICES ASSUME IInv, CustomerWrites \/ Generate \/ Revoke \/ UNCHANGED vars PROVE IInv'
  OBVIOUS
<1> USE DEF store, manager, telegram
<1>0. Typed
  BY DEF IInv
<1>1. /\ UNCHANGED <<acct, offset, stored, armed, manager, ses, call, issued, confirmed, settled,
                     missed, leftOut>>
      /\ drafted \subseteq drafted' /\ drafted' \subseteq drafted \cup stored
      /\ sent' = sent \/ (sent < MaxUpdates /\ sent' = sent + 1)
      /\ revoked' = revoked \/ revoked' = issued
      /\ events' = events \/ events' = events + 1
  BY DEF CustomerWrites, Generate, Revoke, Event, vars
<1>2. Typed'
  <2>1. CallShape' /\ SesShape' /\ CallBounds'
    BY <1>0, <1>1 DEF Typed, CallShape, SesShape, CallBounds
  <2>2. SesBounds'
    BY <1>0, <1>1, TelegramAssumption DEF Typed, SesShape, SesRecs, SesBounds, UpdatesTyped
  <2>3. AccountTyped' /\ UpdatesTyped' /\ RestTyped'
    BY <1>0, <1>1, TelegramAssumption DEF Typed, AccountTyped, UpdatesTyped, RestTyped
  <2> QED
    BY <2>1, <2>2, <2>3 DEF Typed
<1>3. Progress'
  BY <1>0, <1>1, ProgressKept DEF IInv, Progress, Stays
<1>4. WaitersHold' /\ NoOrphans'
  BY <1>1 DEF IInv, WaitersHold, NoOrphans, Running
<1>5. DeletesRun' /\ DeletesHold'
  BY <1>1 DEF IInv, DeletesRun, DeletesHold
<1>6. TokensGrow' /\ SomeoneSeesToIt'
  BY <1>1 DEF IInv, TokensGrow, SomeoneSeesToIt, Polled, InCharge
<1> QED
  BY <1>2, <1>3, <1>4, <1>5, <1>6 DEF IInv, Progress

\* Every step keeps the invariant.
LEMMA StepHolds == IInv /\ [Next]_vars => IInv'
<1> SUFFICES ASSUME IInv, [Next]_vars PROVE IInv'
  OBVIOUS
<1>0. Typed /\ Progress /\ Registry
  BY DEF IInv, Progress, Registry
<1>1. ASSUME NEW c \in Callers, (c \in Requests /\ Request(c)) \/ Serve(c) PROVE IInv'
  <2>1. Typed'
    BY <1>0, <1>1, CallersTyped DEF IInv
  <2>2. Progress'
    BY <1>0, <1>1, CallersKeepSessions, ProgressKept
  <2>3. Registry'
    BY <1>0, <1>1, CallersKeepRegistry
  <2>4. DeletesRun' /\ DeletesHold'
    BY <1>0, <1>1, CallersRunDeletes, CallersHoldDeletes DEF IInv
  <2>5. TokensGrow' /\ SomeoneSeesToIt'
    BY <1>0, <1>1, CallersGrowTokens, CallersSeeToIt DEF IInv
  <2> QED
    BY <2>1, <2>2, <2>3, <2>4, <2>5 DEF IInv, Progress, Registry
<1>2. ASSUME NEW s \in Sessions, Run(s) \/ Exit(s) PROVE IInv'
  <2>1. Typed'
    BY <1>0, <1>2, SessionsTyped DEF IInv
  <2>2. Progress'
    BY <1>0, <1>2, SessionsProgress
  <2>3. Registry'
    BY <1>0, <1>2, SessionsKeepRegistry
  <2>4. DeletesRun' /\ DeletesHold'
    BY <1>0, <1>2, SessionsMove DEF IInv, DeletesRun, DeletesHold
  <2>5. TokensGrow' /\ SomeoneSeesToIt'
    BY <1>0, <1>2, SessionsGrowTokens, SessionsSeeToIt DEF IInv
  <2> QED
    BY <2>1, <2>2, <2>3, <2>4, <2>5 DEF IInv, Progress, Registry
<1>3. Requests \subseteq Callers
  BY DEF Callers
<1> QED
  BY <1>1, <1>2, <1>3, CrashKeeps, OutsideKeeps DEF Next

\* The inductive invariant holds in every reachable state.
THEOREM TelegramInvariance == Spec => []IInv
  BY InitHolds, StepHolds, PTL DEF Spec

\* Every state has the shape TypeOK gives it.
THEOREM TelegramTypeCorrect == Spec => []TypeOK
<1>1. IInv => TypeOK
  BY TypesInParts DEF IInv
<1> QED
  BY TelegramInvariance, <1>1, PTL

\* Whatever Telegram has forgotten was ingested and handed to automation, has a
\* draft already, or was given up with the lookup of its draft.
THEOREM UpdatesAreNotLost == Spec => []NothingLost
<1>1. IInv => NothingLost
  BY DEF IInv, HandledInOrder, Handled, NothingLost
<1> QED
  BY TelegramInvariance, <1>1, PTL

\* No session runs on its own.
THEOREM SessionsAreAccountedFor == Spec => []NoOrphans
<1>1. IInv => NoOrphans
  BY DEF IInv
<1> QED
  BY TelegramInvariance, <1>1, PTL

\* A disconnected bot is not polled.
THEOREM DisconnectedBotsAreQuiet == Spec => []DisconnectedIsQuiet
<1>1. IInv => DisconnectedIsQuiet
  BY TelegramAssumption DEF IInv, DeletesHold, NoOrphans, Running, DisconnectedIsQuiet
<1> QED
  BY TelegramInvariance, <1>1, PTL

\* Once no request is in progress, the stored token is the one that is polled.
THEOREM StoredTokenIsPolled == Spec => []CurrentTokenIsPolled
<1>1. IInv => CurrentTokenIsPolled
  BY DEF IInv, DeletesRun, SomeoneSeesToIt, InCharge, Polled, Quiet, Eligible, CurrentTokenIsPolled
<1> QED
  BY TelegramInvariance, <1>1, PTL
=============================================================================
