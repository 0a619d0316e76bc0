---------------------------- MODULE AccessProofs ----------------------------
(***************************************************************************)
(* Proofs about Access for any codes, keys, callers and drains and any     *)
(* bounds: the types, that no command is queued twice nor tried too often, *)
(* that a command which reads as succeeded was taken by the controller,    *)
(* that a quiet gate opens as the grant says or there is a cause, and that *)
(* a revoked grant comes back only through a race.                         *)
(***************************************************************************)
EXTENDS Access, SequenceTheorems, FiniteSetTheorems, FunctionTheorems, WellFoundedInduction,
        TLAPS

CommandType == GrantCommand \cup {"set_credential", "revoke_credential"}

Command == [type : CommandType, about : Nat \cup Credential,
            status : {"pending", "failed", "succeeded", "dead_lettered"},
            attempts : 0..MaxAttempts]

CallerState == [step : CallerStep, to : GrantState, from : GrantState,
                seen : Nat, pool : {"none", "pin", "key"}, cred : Credential \cup {NoCred}]

KeyedOnce(queued) == \A i, j \in DOMAIN queued :
    queued[i].type = queued[j].type /\ queued[i].about = queued[j].about => i = j

\* The queue and the drains: a command that is still to be sent has attempts
\* left, and a drain that records a success has seen the controller take it.
AttemptsLeft == \A i \in DOMAIN commands :
    commands[i].status \in {"pending", "failed"} => commands[i].attempts < MaxAttempts

DrainsTyped == DOMAIN drain = Drain /\ \A d \in Drain :
    /\ drain[d].step \in {"idle", "sending", "recording"}
    /\ DOMAIN drain[d].batch \subseteq DOMAIN commands
    /\ \A i \in DOMAIN drain[d].batch : drain[d].batch[i] \in 0..(MaxAttempts - 1)

TakenBeforeRecorded == \A d \in Drain :
    drain[d].step = "recording" /\ drain[d].ok => \A i : At(d, i) => i \in delivered

QueueInv == /\ commands \in Seq(Command) /\ KeyedOnce(commands)
            /\ delivered \subseteq DOMAIN commands /\ DrainsTyped
            /\ AttemptsLeft /\ TakenBeforeRecorded /\ SuccessIsReal

\* The callers: who is about to write the grant read it in a state from which
\* the move is allowed, and unless it was written since it is still there.
ReadBeforeWritten(c) == c.step = "write" =>
    /\ CanTransition(c.from, c.to)
    /\ c.seen <= version
    /\ c.seen = version => c.from = grant

CredentialInHand(c) == /\ c.step \in {"send", "retract"} => c.cred \in Credential
                       /\ c.step = "retract" => credential[c.cred] = "revoked"

CallerInv == /\ grant \in GrantState /\ version \in Nat
             /\ credential \in [Credential -> {"none", "active", "revoked"}]
             /\ caller \in [Caller -> CallerState]
             /\ \A p \in Caller : ReadBeforeWritten(caller[p]) /\ CredentialInHand(caller[p])

\* A credential that the queue takes away has been revoked.
Withdrawn == \A i \in DOMAIN commands : commands[i].type = "revoke_credential" =>
    commands[i].about \in Credential /\ credential[commands[i].about] = "revoked"

RestTyped == /\ lease \in {"running", "ended"} /\ owes \in BOOLEAN
             /\ gate \in [Credential -> {"absent", "open", "shut"}]
             /\ requests \in 0..MaxRequests /\ faults \in 0..MaxFaults
             /\ slips \subseteq {"raced", "lost", "overtaken"}

IInv == QueueInv /\ CallerInv /\ Withdrawn /\ RestTyped

\* The invariant contains the types.
LEMMA Typed == IInv => TypeOK
  BY DEF IInv, QueueInv, CallerInv, RestTyped, TypeOK, Command, CommandType, CallerState,
         KeyedOnce, DrainsTyped

-----------------------------------------------------------------------------
\* A call that begins is well typed.
LEMMA CallTyped ==
  ASSUME NEW step \in CallerStep, NEW to \in GrantState, NEW pool \in {"none", "pin", "key"}
  PROVE  /\ Call(step, to, pool) \in CallerState
         /\ Call(step, to, pool).step = step
  BY DEF Call, CallerState, GrantState

\* A caller at rest is well typed.
LEMMA DoneTyped == Done \in CallerState /\ Done.step = "idle"
  BY DEF Done, Call, CallerState, GrantState, CallerStep

\* At the start there is no code, no command and no caller at work.
LEMMA InitHolds == Init => IInv
  <1> SUFFICES ASSUME Init PROVE IInv
    OBVIOUS
  <1>1. commands = << >> /\ DOMAIN commands = {} /\ commands \in Seq(Command)
    BY DEF Init
  <1>2. \A d \in Drain : drain[d].step = "idle" /\ DOMAIN drain[d].batch = {}
    BY DEF Init, Resting
  <1>3. QueueInv
    BY <1>1, <1>2 DEF Init, QueueInv, KeyedOnce, DrainsTyped, AttemptsLeft, TakenBeforeRecorded,
       SuccessIsReal
  <1>4. CallerInv
    BY DoneTyped DEF Init, CallerInv, GrantState, ReadBeforeWritten, CredentialInHand
  <1>5. Withdrawn
    BY <1>1 DEF Withdrawn
  <1>6. 0 \in 0..MaxRequests /\ 0 \in 0..MaxFaults
    BY BoundAssumption
  <1>7. RestTyped
    BY <1>6 DEF Init, RestTyped
  <1> QED
    BY <1>3, <1>4, <1>5, <1>7 DEF IInv

\* A caller moves, and what the others rely on stays as it is.
LEMMA CallerMoves ==
  ASSUME CallerInv, NEW p \in Caller, NEW new \in CallerState,
         caller' = [caller EXCEPT ![p] = new],
         grant' = grant, version' = version,
         credential' \in [Credential -> {"none", "active", "revoked"}],
         \A c \in Credential : credential[c] = "revoked" => credential'[c] = "revoked",
         ReadBeforeWritten(new), CredentialInHand(new)'
  PROVE  CallerInv'
  <1>1. /\ caller' \in [Caller -> CallerState] /\ caller'[p] = new
        /\ \A q \in Caller \ {p} : caller'[q] = caller[q]
    BY DEF CallerInv
  <1>2. \A q \in Caller \ {p} : ReadBeforeWritten(caller[q])'
    BY <1>1 DEF CallerInv, ReadBeforeWritten
  <1>3. \A q \in Caller \ {p} : CredentialInHand(caller[q])'
    BY <1>1 DEF CallerInv, CredentialInHand
  <1>4. ReadBeforeWritten(new)'
    BY DEF ReadBeforeWritten
  <1> QED
    BY <1>1, <1>2, <1>3, <1>4 DEF CallerInv

\* The queue is longer by pending commands, each of another key.
Longer(old, new) ==
    /\ new \in Seq(Command) /\ KeyedOnce(new)
    /\ \A i \in DOMAIN old : i \in DOMAIN new /\ new[i] = old[i]
    /\ \A i \in DOMAIN new \ DOMAIN old : new[i].status = "pending" /\ new[i].attempts = 0

\* A command that is queued is well typed and has its attempts left.
LEMMA FreshTyped ==
  ASSUME NEW type \in CommandType, NEW about \in Nat \cup Credential
  PROVE  /\ Fresh(type, about) \in Command
         /\ Fresh(type, about).type = type /\ Fresh(type, about).about = about
         /\ Fresh(type, about).status = "pending" /\ Fresh(type, about).attempts = 0
  BY AttemptsAssumption DEF Fresh, Command

\* The command that takes a credential back names it.
LEMMA WithdrawalTyped ==
  ASSUME NEW c \in Credential
  PROVE  LET f == Fresh("revoke_credential", c)
         IN  /\ f \in Command /\ f.type = "revoke_credential" /\ f.about = c
             /\ f.status = "pending" /\ f.attempts = 0
  <1>1. "revoke_credential" \in CommandType
    BY DEF CommandType
  <1>2. c \in Nat \cup Credential
    OBVIOUS
  <1> QED
    BY <1>1, <1>2, FreshTyped

\* enqueueCommand keeps what is queued, and queues nothing twice.
LEMMA EnqueueLonger ==
  ASSUME NEW queued \in Seq(Command), KeyedOnce(queued),
         NEW type \in CommandType, NEW about \in Nat \cup Credential
  PROVE  /\ Longer(queued, Enqueue(queued, type, about))
         /\ \A i \in DOMAIN Enqueue(queued, type, about) \ DOMAIN queued :
               Enqueue(queued, type, about)[i] = Fresh(type, about)
  <1>1. CASE \E i \in DOMAIN queued : queued[i].type = type /\ queued[i].about = about
    BY <1>1 DEF Enqueue, Longer
  <1>2. CASE ~\E i \in DOMAIN queued : queued[i].type = type /\ queued[i].about = about
    <2> DEFINE new == Append(queued, Fresh(type, about))
    <2>1. Enqueue(queued, type, about) = new
      BY <1>2 DEF Enqueue
    <2>2. /\ new \in Seq(Command) /\ Len(new) = Len(queued) + 1
          /\ \A i \in 1..Len(queued) : new[i] = queued[i]
          /\ new[Len(queued) + 1] = Fresh(type, about)
      BY FreshTyped, AppendProperties
    <2>3. /\ DOMAIN queued = 1..Len(queued) /\ DOMAIN new = 1..(Len(queued) + 1)
          /\ Len(queued) \in Nat
      BY <2>2
    <2> HIDE DEF new
    <2>4. \A i \in DOMAIN new \ DOMAIN queued : i = Len(queued) + 1
      BY <2>3
    <2>5. KeyedOnce(new)
      BY <1>2, <2>2, <2>3, <2>4, FreshTyped DEF KeyedOnce
    <2> QED
      BY <2>1, <2>2, <2>3, <2>4, <2>5, FreshTyped DEF Longer
  <1> QED
    BY <1>1, <1>2

\* A free key is queued at the end.
LEMMA EnqueueAppends ==
  ASSUME NEW queued \in Seq(Command), NEW type \in CommandType, NEW about \in Nat \cup Credential,
         \A i \in DOMAIN queued : queued[i].type = type => queued[i].about # about
  PROVE  LET new == Enqueue(queued, type, about) IN
         /\ DOMAIN new = 1..(Len(queued) + 1) /\ new[Len(queued) + 1] = Fresh(type, about)
         /\ \A i \in DOMAIN queued : new[i] = queued[i]
  <1>1. Enqueue(queued, type, about) = Append(queued, Fresh(type, about))
    BY DEF Enqueue
  <1> DEFINE new == Append(queued, Fresh(type, about))
  <1>2. /\ new \in Seq(Command) /\ Len(new) = Len(queued) + 1
        /\ \A i \in 1..Len(queued) : new[i] = queued[i]
        /\ new[Len(queued) + 1] = Fresh(type, about)
    <2>1. Fresh(type, about) \in Command
      BY FreshTyped
    <2> QED
      BY <2>1, AppendProperties
  <1>3. DOMAIN queued = 1..Len(queued) /\ DOMAIN new = 1..(Len(queued) + 1)
    BY <1>2
  <1> QED
    BY <1>1, <1>2, <1>3

\* What is to be queued is in the queue afterwards.
LEMMA EnqueuePresent ==
  ASSUME NEW queued \in Seq(Command), NEW type \in CommandType, NEW about \in Nat \cup Credential
  PROVE  LET new == Enqueue(queued, type, about) IN
         \E i \in DOMAIN new : new[i].type = type /\ new[i].about = about
  <1>1. CASE \E i \in DOMAIN queued : queued[i].type = type /\ queued[i].about = about
    BY <1>1 DEF Enqueue
  <1>2. CASE \A i \in DOMAIN queued : queued[i].type = type => queued[i].about # about
    <2>1. LET new == Enqueue(queued, type, about) IN
          /\ DOMAIN new = 1..(Len(queued) + 1) /\ new[Len(queued) + 1] = Fresh(type, about)
          /\ \A i \in DOMAIN queued : new[i] = queued[i]
      BY <1>2, EnqueueAppends
    <2>2. Len(queued) + 1 \in 1..(Len(queued) + 1)
      OBVIOUS
    <2>3. Fresh(type, about).type = type /\ Fresh(type, about).about = about
      BY DEF Fresh
    <2> QED
      BY <2>1, <2>2, <2>3
  <1> QED
    BY <1>1, <1>2

\* A longer queue disturbs no drain.
LEMMA QueueGrows ==
  ASSUME QueueInv, Longer(commands, commands'), drain' = drain, delivered' = delivered
  PROVE  QueueInv'
  <1>1. commands' \in Seq(Command) /\ KeyedOnce(commands)'
    BY DEF Longer, KeyedOnce
  <1>2. delivered' \subseteq DOMAIN commands' /\ DrainsTyped'
    BY DEF QueueInv, Longer, DrainsTyped
  <1>3. AttemptsLeft'
    BY AttemptsAssumption DEF QueueInv, Longer, AttemptsLeft
  <1>4. TakenBeforeRecorded'
    BY DEF QueueInv, TakenBeforeRecorded, At
  <1>5. SuccessIsReal'
    BY DEF QueueInv, Longer, SuccessIsReal
  <1> QED
    BY <1>1, <1>2, <1>3, <1>4, <1>5 DEF QueueInv

\* So does a step that leaves the queue alone.
LEMMA QueueRests ==
  ASSUME QueueInv, UNCHANGED <<commands, drain, delivered>>
  PROVE  QueueInv'
  BY DEF QueueInv, KeyedOnce, DrainsTyped, AttemptsLeft, TakenBeforeRecorded, At, SuccessIsReal

\* The callers keep their invariant while neither they nor the grant change.
LEMMA CallersRest ==
  ASSUME CallerInv, UNCHANGED <<grant, version, credential, caller>>
  PROVE  CallerInv'
  BY DEF CallerInv, ReadBeforeWritten, CredentialInHand

\* Revoked credentials stay revoked.
LEMMA WithdrawnRests ==
  ASSUME Withdrawn, commands' = commands,
         \A c \in Credential : credential[c] = "revoked" => credential'[c] = "revoked"
  PROVE  Withdrawn'
  BY DEF Withdrawn

-----------------------------------------------------------------------------
(* The tenant, and callers that begin *)

\* A request counts against its bound.
LEMMA Requested == Request /\ requests \in 0..MaxRequests => requests' \in 0..MaxRequests
  BY BoundAssumption DEF Request

\* What the tenant does changes no grant, credential or command.
LEMMA TenantHolds == IInv /\ (MoveIn \/ DebtChanges) => IInv'
  <1> SUFFICES ASSUME IInv, MoveIn \/ DebtChanges PROVE IInv'
    OBVIOUS
  <1>1. UNCHANGED <<commands, drain, delivered, grant, version, credential, caller>>
    BY DEF MoveIn, DebtChanges, queue
  <1>2. requests' \in 0..MaxRequests
    BY Requested DEF MoveIn, DebtChanges, IInv, RestTyped
  <1>3. RestTyped'
    BY <1>2 DEF MoveIn, DebtChanges, IInv, RestTyped, queue
  <1> QED
    BY <1>1, <1>3, QueueRests, CallersRest, WithdrawnRests DEF IInv

\* A caller that moves and touches nothing else of what the invariant is about.
LEMMA CallerMovesHolds ==
  ASSUME IInv, NEW p \in Caller, NEW new \in CallerState, Goto(p, new), RestTyped',
         UNCHANGED <<commands, drain, delivered, grant, version>>,
         credential' \in [Credential -> {"none", "active", "revoked"}],
         \A c \in Credential : credential[c] = "revoked" => credential'[c] = "revoked",
         ReadBeforeWritten(new), CredentialInHand(new)'
  PROVE  IInv'
  <1>1. CallerInv'
    BY CallerMoves DEF IInv, Goto
  <1> QED
    BY <1>1, QueueRests, WithdrawnRests DEF IInv

\* The steps that neither write the grant nor have a credential in hand.
Light == {"idle", "judge", "count", "read", "queue", "mint", "issue"}

\* A caller that goes to a step with nothing read keeps the invariant.
LEMMA LightMoves ==
  ASSUME IInv, NEW p \in Caller, NEW new \in CallerState, Goto(p, new), RestTyped',
         new.step \in Light,
         UNCHANGED <<commands, drain, delivered, grant, version, credential>>
  PROVE  IInv'
  <1>1. ReadBeforeWritten(new) /\ CredentialInHand(new)'
    BY DEF Light, ReadBeforeWritten, CredentialInHand
  <1>2. /\ credential' \in [Credential -> {"none", "active", "revoked"}]
        /\ \A c \in Credential : credential[c] = "revoked" => credential'[c] = "revoked"
    BY DEF IInv, CallerInv
  <1> QED
    BY <1>1, <1>2, CallerMovesHolds

\* The rule judges and goes to read the grant.
LEMMA EvaluateHolds == ASSUME IInv, NEW p \in Caller, Evaluate(p) PROVE IInv'
  <1> DEFINE new == Call("judge", IF owes THEN "suspended" ELSE "active", "none")
  <1>1. new \in CallerState /\ new.step \in Light
    BY CallTyped DEF CallerStep, GrantState, Light
  <1> HIDE DEF new
  <1>2. RestTyped'
    BY DEF Evaluate, IInv, RestTyped, tenancy, queue
  <1> QED
    BY <1>1, <1>2, LightMoves DEF Evaluate, queue, new

\* A move-out ends the lease and goes to revoke.
LEMMA MoveOutHolds == ASSUME IInv, NEW p \in Caller, MoveOut(p) PROVE IInv'
  <1>1. Call("count", "revoked", "none") \in CallerState
        /\ Call("count", "revoked", "none").step \in Light
    BY CallTyped DEF CallerStep, GrantState, Light
  <1>2. requests' \in 0..MaxRequests
    BY Requested DEF MoveOut, IInv, RestTyped
  <1>3. RestTyped'
    BY <1>2 DEF MoveOut, IInv, RestTyped, queue
  <1> QED
    BY <1>1, <1>3, LightMoves DEF MoveOut, queue

\* A tenant asks for a key.
LEMMA EnrollHolds == ASSUME IInv, NEW p \in Caller, Enroll(p) PROVE IInv'
  <1>1. Call("issue", "none", "key") \in CallerState /\ Call("issue", "none", "key").step \in Light
    BY CallTyped DEF CallerStep, GrantState, Light
  <1>2. requests' \in 0..MaxRequests
    BY Requested DEF Enroll, IInv, RestTyped
  <1>3. RestTyped'
    BY <1>2 DEF Enroll, IInv, RestTyped, queue
  <1> QED
    BY <1>1, <1>3, LightMoves DEF Enroll, queue

\* Provisioning makes the grant when there is none: nobody has read it then.
LEMMA ProvisionHolds == ASSUME IInv, NEW p \in Caller, Provision(p) PROVE IInv'
  <1> DEFINE new == Call("read", "active", "pin")
  <1>1. new \in CallerState /\ new.step = "read"
    BY CallTyped DEF CallerStep, GrantState
  <1> HIDE DEF new
  <1>2. /\ caller' = [caller EXCEPT ![p] = new] /\ version' = version /\ credential' = credential
        /\ grant' = IF grant = "none" THEN "pending" ELSE grant
    BY DEF Provision, Goto, new
  <1>3. /\ caller' \in [Caller -> CallerState] /\ caller'[p] = new
        /\ \A q \in Caller \ {p} : caller'[q] = caller[q]
    BY <1>1, <1>2 DEF IInv, CallerInv
  <1>4. \A q \in Caller \ {p} : ReadBeforeWritten(caller[q])'
    BY <1>2, <1>3 DEF IInv, CallerInv, ReadBeforeWritten, CanTransition
  <1>5. \A q \in Caller \ {p} : CredentialInHand(caller[q])'
    BY <1>2, <1>3 DEF IInv, CallerInv, CredentialInHand
  <1>6. ReadBeforeWritten(caller[p])' /\ CredentialInHand(caller[p])'
    BY <1>1, <1>3 DEF ReadBeforeWritten, CredentialInHand
  <1>7. CallerInv'
    BY <1>2, <1>3, <1>4, <1>5, <1>6 DEF IInv, CallerInv, GrantState
  <1>8. requests' \in 0..MaxRequests
    BY Requested DEF Provision, IInv, RestTyped
  <1>9. RestTyped'
    BY <1>8 DEF Provision, IInv, RestTyped, queue
  <1> QED
    BY <1>2, <1>7, <1>9, QueueRests, WithdrawnRests DEF IInv, Provision, queue

-----------------------------------------------------------------------------
(* Callers that go on *)

\* The types of the rest are kept by what leaves the rest alone.
LEMMA RestUntouched ==
  ASSUME IInv, UNCHANGED <<lease, owes, gate, requests, faults>>,
         slips' \subseteq slips \cup {"raced", "lost", "overtaken"}
  PROVE  RestTyped'
  BY DEF IInv, RestTyped

\* Who reads the grant knows its state and version.
LEMMA ReadGrantHolds == ASSUME IInv, NEW p \in Caller, ReadGrant(p) PROVE IInv'
  <1> DEFINE read == [caller[p] EXCEPT !.step = "write", !.from = grant, !.seen = version]
             mint == Call("mint", "none", caller[p].pool)
  <1>1. caller[p] \in CallerState /\ grant \in GrantState /\ version \in Nat
    BY DEF IInv, CallerInv
  <1>2. RestTyped' /\ UNCHANGED <<commands, drain, delivered, grant, version, credential>>
    BY RestUntouched DEF ReadGrant, queue, tenancy
  <1>3. CASE CanTransition(grant, caller[p].to) /\ Goto(p, read)
    <2>0. /\ read \in CallerState /\ read.step = "write" /\ read.from = grant
          /\ read.seen = version /\ read.to = caller[p].to
      BY <1>1 DEF CallerState, CallerStep
    <2> HIDE DEF read
    <2>1. PICK new \in CallerState :
              /\ new = read /\ new.step = "write" /\ new.from = grant
              /\ new.seen = version /\ new.to = caller[p].to
      BY <2>0
    <2>2. ReadBeforeWritten(new) /\ CredentialInHand(new)'
      BY <1>1, <1>3, <2>1 DEF ReadBeforeWritten, CredentialInHand
    <2> QED
      BY <1>2, <1>3, <2>1, <2>2, CallerMovesHolds DEF IInv, CallerInv
  <1>4. CASE Goto(p, Done)
    <2>1. Done \in CallerState /\ Done.step \in Light
      BY DoneTyped DEF Light
    <2> QED
      BY <1>2, <1>4, <2>1, LightMoves
  <1>5. CASE Goto(p, mint)
    <2>1. mint \in CallerState /\ mint.step \in Light
      BY <1>1, CallTyped DEF CallerState, CallerStep, GrantState, Light
    <2> HIDE DEF mint
    <2> QED
      BY <1>2, <1>5, <2>1, LightMoves
  <1> HIDE DEF read, mint
  <1>6. (Goto(p, read) /\ CanTransition(grant, caller[p].to)) \/ Goto(p, Done) \/ Goto(p, mint)
    BY DEF ReadGrant, Goto, read, mint
  <1> QED
    BY <1>3, <1>4, <1>5, <1>6

\* The write itself: whoever else has read the grant has now read an old version.
LEMMA WriteGrantHolds == ASSUME IInv, NEW p \in Caller, WriteGrant(p) PROVE IInv'
  <1>1. caller[p] \in CallerState /\ caller[p].step = "write"
    BY DEF WriteGrant, IInv, CallerInv
  <1>2. PICK new \in CallerState :
            new.step = "queue" /\ caller' = [caller EXCEPT ![p] = new]
    <2> DEFINE next == [caller[p] EXCEPT !.step = "queue"]
    <2>1. next \in CallerState /\ next.step = "queue"
      BY <1>1 DEF CallerState, CallerStep
    <2> QED
      BY <2>1 DEF WriteGrant, Goto
  <1>3. /\ caller' \in [Caller -> CallerState] /\ caller'[p] = new
        /\ \A q \in Caller \ {p} : caller'[q] = caller[q]
    BY <1>2 DEF IInv, CallerInv
  <1>4. /\ grant' \in GrantState /\ version' = version + 1 /\ version \in Nat
        /\ UNCHANGED <<lease, owes, requests, commands, drain, delivered, gate, faults, credential>>
    BY <1>1 DEF WriteGrant, IInv, CallerInv, CallerState, tenancy, queue
  <1>5. \A q \in Caller \ {p} : ReadBeforeWritten(caller[q])'
    BY <1>3, <1>4 DEF IInv, CallerInv, ReadBeforeWritten, CallerState
  <1>6. \A q \in Caller \ {p} : CredentialInHand(caller[q])'
    BY <1>3, <1>4 DEF IInv, CallerInv, CredentialInHand
  <1>7. ReadBeforeWritten(caller[p])' /\ CredentialInHand(caller[p])'
    BY <1>2, <1>3 DEF ReadBeforeWritten, CredentialInHand
  <1>8. version' \in Nat
    BY <1>4
  <1>9. CallerInv'
    BY <1>3, <1>4, <1>5, <1>6, <1>7, <1>8 DEF IInv, CallerInv
  <1>10. RestTyped'
    BY <1>4, RestUntouched DEF WriteGrant
  <1> QED
    BY <1>4, <1>9, <1>10, QueueRests, WithdrawnRests DEF IInv

\* A command that is queued takes nothing away but what is revoked.
LEMMA WithdrawnGrows ==
  ASSUME Withdrawn, Longer(commands, commands'),
         \A c \in Credential : credential[c] = "revoked" => credential'[c] = "revoked",
         \A i \in DOMAIN commands' \ DOMAIN commands :
             commands'[i].type = "revoke_credential" =>
                 /\ commands'[i].about \in Credential
                 /\ credential'[commands'[i].about] = "revoked"
  PROVE  Withdrawn'
  BY DEF Withdrawn, Longer

\* A caller queues a command and goes on to a step with nothing in hand.
LEMMA QueuesHolds ==
  ASSUME IInv, NEW p \in Caller, NEW new \in CallerState, Goto(p, new), new.step \in Light,
         NEW type \in CommandType, NEW about \in Nat \cup Credential,
         commands' = Enqueue(commands, type, about),
         type = "revoke_credential" => about \in Credential /\ credential[about] = "revoked",
         RestTyped', UNCHANGED <<drain, delivered, grant, version, credential>>
  PROVE  IInv'
  <1>1. /\ Longer(commands, commands')
        /\ \A i \in DOMAIN commands' \ DOMAIN commands : commands'[i] = Fresh(type, about)
    BY EnqueueLonger DEF IInv, QueueInv
  <1>2. QueueInv'
    BY <1>1, QueueGrows DEF IInv
  <1>3. Withdrawn'
    <2>1. \A i \in DOMAIN commands' \ DOMAIN commands :
              commands'[i].type = type /\ commands'[i].about = about
      BY <1>1, FreshTyped
    <2>2. \A c \in Credential : credential[c] = "revoked" => credential'[c] = "revoked"
      OBVIOUS
    <2> QED
      BY <1>1, <2>1, <2>2, WithdrawnGrows DEF IInv
  <1>4. ReadBeforeWritten(new) /\ CredentialInHand(new)'
    BY DEF Light, ReadBeforeWritten, CredentialInHand
  <1>5. CallerInv'
    BY <1>4, CallerMoves DEF IInv, CallerInv, Goto
  <1> QED
    BY <1>2, <1>3, <1>5 DEF IInv

\* A caller at rest has read nothing.
LEMMA DoneIsLight == Done \in CallerState /\ Done.step \in Light
  BY DoneTyped DEF Light

\* The command of a transition is queued once, under its key.
LEMMA QueueTransitionHolds == ASSUME IInv, NEW p \in Caller, QueueTransition(p) PROVE IInv'
  <1>1. caller[p] \in CallerState
    BY DEF IInv, CallerInv
  <1>2. PICK new \in CallerState : new.step \in Light /\ Goto(p, new)
    <2>1. CASE caller[p].pool = "none"
      BY <2>1, DoneIsLight DEF QueueTransition
    <2>2. CASE caller[p].pool # "none"
      <3> DEFINE mint == Call("mint", "none", caller[p].pool)
      <3>1. mint \in CallerState /\ mint.step \in Light
        BY <1>1, CallTyped DEF CallerState, CallerStep, GrantState, Light
      <3> HIDE DEF mint
      <3> QED
        BY <2>2, <3>1 DEF QueueTransition, mint
    <2> QED
      BY <2>1, <2>2
  <1>3. PICK type \in CommandType : type # "revoke_credential" /\
            type = CommandFor(caller[p].from, caller[p].to)
    BY DEF CommandFor, CommandType, GrantCommand
  <1>4. caller[p].seen \in Nat /\ commands' = Enqueue(commands, type, caller[p].seen)
    BY <1>1, <1>3 DEF QueueTransition, Queued, CallerState
  <1>5. RestTyped' /\ UNCHANGED <<drain, delivered, grant, version, credential>>
    BY RestUntouched DEF QueueTransition, tenancy
  <1> QED
    BY <1>2, <1>3, <1>4, <1>5, QueuesHolds

\* The command that carries a code is queued once.
LEMMA SendCredentialHolds == ASSUME IInv, NEW p \in Caller, SendCredential(p) PROVE IInv'
  <1>1. caller[p].cred \in Credential
    BY DEF SendCredential, IInv, CallerInv, CredentialInHand
  <1>2. RestTyped' /\ UNCHANGED <<drain, delivered, grant, version, credential>>
    BY RestUntouched DEF SendCredential, tenancy
  <1>3. "set_credential" \in CommandType
    BY DEF CommandType
  <1> QED
    BY <1>1, <1>2, <1>3, DoneIsLight, QueuesHolds DEF SendCredential

\* The command that takes a code back names a revoked credential.
LEMMA RetractHolds == ASSUME IInv, NEW p \in Caller, Retract(p) PROVE IInv'
  <1>1. caller[p].cred \in Credential /\ credential[caller[p].cred] = "revoked"
    BY DEF Retract, IInv, CallerInv, CredentialInHand
  <1>2. RestTyped' /\ UNCHANGED <<drain, delivered, grant, version, credential>>
    BY RestUntouched DEF Retract, tenancy
  <1>3. "revoke_credential" \in CommandType
    BY DEF CommandType
  <1> QED
    BY <1>1, <1>2, <1>3, DoneIsLight, QueuesHolds DEF Retract

\* Minting looks only whether a code is live already.
LEMMA MintHolds == ASSUME IInv, NEW p \in Caller, Mint(p) PROVE IInv'
  <1>1. RestTyped' /\ UNCHANGED <<commands, drain, delivered, grant, version, credential>>
    BY RestUntouched DEF Mint, tenancy, queue
  <1>2. CASE Goto(p, Done)
    BY <1>1, <1>2, DoneIsLight, LightMoves
  <1>3. CASE Goto(p, [caller[p] EXCEPT !.step = "issue"])
    <2> DEFINE new == [caller[p] EXCEPT !.step = "issue"]
    <2>1. new \in CallerState /\ new.step \in Light
      BY DEF IInv, CallerInv, CallerState, CallerStep, Light
    <2> HIDE DEF new
    <2> QED
      BY <1>1, <1>3, <2>1, LightMoves DEF new
  <1> QED
    BY <1>2, <1>3 DEF Mint, Goto

\* A new credential is live, and in hand until the queue has it.
LEMMA IssueHolds == ASSUME IInv, NEW p \in Caller, Issue(p) PROVE IInv'
  <1>1. RestTyped' /\ UNCHANGED <<commands, drain, delivered, grant, version>>
    BY RestUntouched DEF Issue, tenancy, queue
  <1>2. CASE Goto(p, Done) /\ UNCHANGED credential
    BY <1>1, <1>2, DoneIsLight, LightMoves
  <1>3. ASSUME NEW c \in Credential, credential[c] = "none",
               credential' = [credential EXCEPT ![c] = "active"],
               Goto(p, [caller[p] EXCEPT !.step = "send", !.cred = c])
        PROVE  IInv'
    <2> DEFINE sends == [caller[p] EXCEPT !.step = "send", !.cred = c]
    <2>0. sends \in CallerState /\ sends.step = "send" /\ sends.cred = c
      BY DEF IInv, CallerInv, CallerState, CallerStep
    <2>1. PICK new \in CallerState : new = sends /\ new.step = "send" /\ new.cred = c
      BY <2>0
    <2>2. ReadBeforeWritten(new) /\ CredentialInHand(new)'
      BY <2>1 DEF ReadBeforeWritten, CredentialInHand
    <2>3. /\ credential' \in [Credential -> {"none", "active", "revoked"}]
          /\ \A d \in Credential : credential[d] = "revoked" => credential'[d] = "revoked"
      BY <1>3 DEF IInv, CallerInv
    <2> QED
      BY <1>1, <1>3, <2>1, <2>2, <2>3, CallerMovesHolds
  <1>4. \A c \in Unused(Pool(caller[p].pool)) : c \in Credential /\ credential[c] = "none"
    BY DEF Unused, Pool, Credential
  <1> QED
    BY <1>2, <1>3, <1>4 DEF Issue

\* A lost phone revokes its key and goes to take it back.
LEMMA LosePhoneHolds == ASSUME IInv, NEW p \in Caller, LosePhone(p) PROVE IInv'
  <1> PICK c \in Live(Key) :
          /\ credential' = [credential EXCEPT ![c] = "revoked"]
          /\ Goto(p, [Call("retract", "none", "none") EXCEPT !.cred = c])
    BY DEF LosePhone
  <1>1. c \in Credential
    BY DEF Live, Credential
  <1>2. PICK new \in CallerState : /\ new = [Call("retract", "none", "none") EXCEPT !.cred = c]
                                   /\ new.step = "retract" /\ new.cred = c
    BY <1>1 DEF Call, CallerState, CallerStep, GrantState
  <1>3. /\ credential' \in [Credential -> {"none", "active", "revoked"}]
        /\ \A d \in Credential : credential[d] = "revoked" => credential'[d] = "revoked"
        /\ credential'[c] = "revoked"
    BY <1>1 DEF IInv, CallerInv
  <1>4. ReadBeforeWritten(new) /\ CredentialInHand(new)'
    BY <1>1, <1>2, <1>3 DEF ReadBeforeWritten, CredentialInHand
  <1>5. requests' \in 0..MaxRequests
    BY Requested DEF LosePhone, IInv, RestTyped
  <1>6. RestTyped' /\ UNCHANGED <<commands, drain, delivered, grant, version>>
    BY <1>5 DEF LosePhone, IInv, RestTyped, queue
  <1> QED
    BY <1>2, <1>3, <1>4, <1>6, CallerMovesHolds

\* A caller that dies leaves the rows as they are.
LEMMA CallerDiesHolds == ASSUME IInv, NEW p \in Caller, CallerDies(p) PROVE IInv'
  <1>1. faults' \in 0..MaxFaults
    BY BoundAssumption DEF CallerDies, IInv, RestTyped
  <1>2. RestTyped' /\ UNCHANGED <<commands, drain, delivered, grant, version, credential>>
    BY <1>1 DEF CallerDies, IInv, RestTyped, tenancy, queue
  <1> QED
    BY <1>2, DoneIsLight, LightMoves DEF CallerDies

-----------------------------------------------------------------------------
(* The gate code is replaced *)

\* The live codes are listed once each, and revoked by commands of their own.
LEMMA ListingIsOneToOne ==
  ASSUME NEW S, IsFiniteSet(S), NEW old \in [1..Cardinality(S) -> S],
         \A c \in S : \E i \in DOMAIN old : old[i] = c
  PROVE  \A i, j \in DOMAIN old : old[i] = old[j] => i = j
  <1>1. Cardinality(S) \in Nat
    BY FS_CardinalityType
  <1>2. IsFiniteSet(1..Cardinality(S)) /\ Cardinality(1..Cardinality(S)) = Cardinality(S)
    BY <1>1, FS_Interval
  <1>3. old \in Surjection(1..Cardinality(S), S)
    BY DEF Surjection
  <1>4. old \in Injection(1..Cardinality(S), S)
    BY <1>1, <1>2, <1>3, FS_SurjSameCardinalityImpliesInj
  <1> QED
    BY <1>4 DEF Injection, IsInjective

\* The queue is longer by the withdrawal of every live code and by the new one.
LEMMA ReplacementQueued ==
  ASSUME IInv, NEW p \in Caller, ReplaceCode(p)
  PROVE  \E new \in Unused(Pin) :
             /\ credential' = [c \in Credential |-> IF c \in Live(Pin) THEN "revoked"
                                                  ELSE IF c = new THEN "active" ELSE credential[c]]
             /\ Longer(commands, commands')
             /\ \A i \in DOMAIN commands' \ DOMAIN commands :
                   \/ commands'[i].type = "revoke_credential" /\ commands'[i].about \in Live(Pin)
                   \/ commands'[i].type = "set_credential" /\ commands'[i].about = new
             /\ \E i \in DOMAIN commands' :
                   commands'[i].type = "set_credential" /\ commands'[i].about = new
  <1> PICK new \in Unused(Pin), old \in [1..Cardinality(Live(Pin)) -> Live(Pin)] :
          /\ \A c \in Live(Pin) : \E i \in DOMAIN old : old[i] = c
          /\ credential' = [c \in Credential |-> IF c \in Live(Pin) THEN "revoked"
                                               ELSE IF c = new THEN "active" ELSE credential[c]]
          /\ commands' = Enqueue(commands \o [i \in DOMAIN old |->
                                                Fresh("revoke_credential", old[i])],
                                 "set_credential", new)
    BY DEF ReplaceCode
  <1> DEFINE n == Cardinality(Live(Pin))
             gone == [i \in DOMAIN old |-> Fresh("revoke_credential", old[i])]
             longer == commands \o gone
  <1>1. Live(Pin) \subseteq Credential /\ new \in Credential /\ credential[new] = "none"
        /\ \A c \in Live(Pin) : credential[c] = "active"
    BY DEF Live, Unused, Credential
  <1>2. IsFiniteSet(Live(Pin)) /\ n \in Nat
    BY CredAssumption, FS_Subset, FS_CardinalityType DEF Live
  <1>3. \A i, j \in DOMAIN old : old[i] = old[j] => i = j
    BY <1>2, ListingIsOneToOne
  <1>4. commands \in Seq(Command) /\ KeyedOnce(commands) /\ DOMAIN commands = 1..Len(commands)
        /\ Len(commands) \in Nat
    BY DEF IInv, QueueInv
  <1>5. \A i \in DOMAIN old : gone[i] = Fresh("revoke_credential", old[i])
    OBVIOUS
  <1>6. \A i \in DOMAIN old : /\ gone[i] \in Command /\ gone[i].type = "revoke_credential"
                              /\ gone[i].about = old[i] /\ old[i] \in Live(Pin)
                              /\ gone[i].status = "pending" /\ gone[i].attempts = 0
    <2> HIDE DEF gone
    <2> SUFFICES ASSUME NEW i \in DOMAIN old
                 PROVE  /\ gone[i] \in Command /\ gone[i].type = "revoke_credential"
                        /\ gone[i].about = old[i] /\ old[i] \in Live(Pin)
                        /\ gone[i].status = "pending" /\ gone[i].attempts = 0
      OBVIOUS
    <2>1. old[i] \in Live(Pin) /\ old[i] \in Credential
      BY <1>1
    <2>2. gone[i] = Fresh("revoke_credential", old[i])
      BY <1>5
    <2> HIDE DEF n
    <2>3. LET f == Fresh("revoke_credential", old[i])
          IN  /\ f \in Command /\ f.type = "revoke_credential" /\ f.about = old[i]
              /\ f.status = "pending" /\ f.attempts = 0
      BY <2>1, WithdrawalTyped
    <2> QED
      BY <2>1, <2>2, <2>3
  <1>7. DOMAIN gone = 1..n /\ DOMAIN old = 1..n /\ gone \in Seq(Command) /\ Len(gone) = n
    <2>1. DOMAIN gone = 1..n /\ gone \in [1..n -> Command]
      BY <1>6
    <2> HIDE DEF gone, n
    <2>2. gone \in Seq(Command)
      BY <1>2, <2>1
    <2> QED
      BY <1>2, <2>1, <2>2 DEF n
  <1> HIDE DEF gone, n
  <1>8. /\ longer \in Seq(Command) /\ Len(longer) = Len(commands) + n
        /\ \A i \in 1..(Len(commands) + n) :
               longer[i] = IF i <= Len(commands) THEN commands[i] ELSE gone[i - Len(commands)]
    BY <1>4, <1>7, ConcatProperties
  <1>9. DOMAIN longer = 1..(Len(commands) + n)
    BY <1>8
  <1> HIDE DEF longer
  <1>10. \A i \in DOMAIN commands : i \in DOMAIN longer /\ longer[i] = commands[i]
    BY <1>2, <1>4, <1>8, <1>9
  <1>11. \A i \in DOMAIN longer \ DOMAIN commands :
             i - Len(commands) \in DOMAIN old /\ longer[i] = gone[i - Len(commands)]
    BY <1>2, <1>4, <1>7, <1>8, <1>9
  <1>12. KeyedOnce(longer)
    <2> SUFFICES ASSUME NEW i \in DOMAIN longer, NEW j \in DOMAIN longer,
                        longer[i].type = longer[j].type, longer[i].about = longer[j].about
                 PROVE  i = j
      BY DEF KeyedOnce
    <2>1. CASE i \in DOMAIN commands /\ j \in DOMAIN commands
      BY <1>4, <1>10, <2>1 DEF KeyedOnce
    <2>2. CASE i \notin DOMAIN commands /\ j \notin DOMAIN commands
      <3>1. i - Len(commands) = j - Len(commands)
        BY <1>3, <1>6, <1>11, <2>2
      <3> QED
        BY <1>2, <1>4, <1>9, <3>1
    <2>3. \A k \in DOMAIN commands, l \in DOMAIN longer \ DOMAIN commands :
              ~(longer[k].type = longer[l].type /\ longer[k].about = longer[l].about)
      BY <1>1, <1>6, <1>10, <1>11 DEF IInv, Withdrawn
    <2> QED
      BY <2>1, <2>2, <2>3
  <1>13. "set_credential" \in CommandType
    BY DEF CommandType
  <1>14. commands' = Enqueue(longer, "set_credential", new) /\ new \in Nat \cup Credential
    BY <1>1 DEF longer, gone
  <1>15. Fresh("set_credential", new).type = "set_credential"
    BY <1>13, <1>14, FreshTyped
  <1>16. /\ Longer(longer, commands')
         /\ \A i \in DOMAIN commands' \ DOMAIN longer :
                commands'[i] = Fresh("set_credential", new)
    <2>1. LET e == Enqueue(longer, "set_credential", new)
          IN  /\ Longer(longer, e)
              /\ \A i \in DOMAIN e \ DOMAIN longer : e[i] = Fresh("set_credential", new)
      BY <1>8, <1>12, <1>13, <1>14, EnqueueLonger
    <2> QED
      BY <1>14, <2>1
  <1>17. Longer(commands, commands')
    BY <1>6, <1>10, <1>11, <1>16 DEF Longer
  <1>18. \A i \in DOMAIN commands' \ DOMAIN commands :
             \/ commands'[i].type = "revoke_credential" /\ commands'[i].about \in Live(Pin)
             \/ commands'[i].type = "set_credential" /\ commands'[i].about = new
    <2> SUFFICES ASSUME NEW i \in DOMAIN commands' \ DOMAIN commands
                 PROVE  \/ /\ commands'[i].type = "revoke_credential"
                           /\ commands'[i].about \in Live(Pin)
                        \/ commands'[i].type = "set_credential" /\ commands'[i].about = new
      OBVIOUS
    <2>1. CASE i \in DOMAIN longer
      BY <1>6, <1>11, <1>16, <2>1 DEF Longer
    <2>2. CASE i \notin DOMAIN longer
      <3>1. commands'[i] = Fresh("set_credential", new)
        BY <1>16, <2>2
      <3> QED
        BY <3>1 DEF Fresh
    <2> QED
      BY <2>1, <2>2
  <1>19. \E i \in DOMAIN commands' :
             commands'[i].type = "set_credential" /\ commands'[i].about = new
    <2>1. LET e == Enqueue(longer, "set_credential", new)
          IN  \E i \in DOMAIN e : e[i].type = "set_credential" /\ e[i].about = new
      BY <1>8, <1>13, <1>14, EnqueuePresent
    <2> QED
      BY <1>14, <2>1
  <1> QED
    BY <1>17, <1>18, <1>19

\* The codes that are replaced are revoked, and the commands that take them back name them.
LEMMA ReplaceCodeHolds == ASSUME IInv, NEW p \in Caller, ReplaceCode(p) PROVE IInv'
  <1> PICK new \in Unused(Pin) :
          /\ credential' = [c \in Credential |-> IF c \in Live(Pin) THEN "revoked"
                                               ELSE IF c = new THEN "active" ELSE credential[c]]
          /\ Longer(commands, commands')
          /\ \A i \in DOMAIN commands' \ DOMAIN commands :
                \/ commands'[i].type = "revoke_credential" /\ commands'[i].about \in Live(Pin)
                \/ commands'[i].type = "set_credential" /\ commands'[i].about = new
    BY ReplacementQueued
  <1>1. Live(Pin) \subseteq Credential /\ new \in Credential /\ credential[new] = "none"
        /\ \A c \in Live(Pin) : credential[c] = "active"
    BY DEF Live, Unused, Credential
  <1>2. /\ credential' \in [Credential -> {"none", "active", "revoked"}]
        /\ \A c \in Credential : credential[c] = "revoked" => credential'[c] = "revoked"
        /\ \A c \in Live(Pin) : credential'[c] = "revoked"
    BY <1>1 DEF IInv, CallerInv
  <1>3. UNCHANGED <<lease, owes, grant, version, gate, caller, drain, delivered, faults, slips>>
    BY DEF ReplaceCode
  <1>4. QueueInv'
    BY <1>3, QueueGrows DEF IInv
  <1>5. Withdrawn'
    <2>1. \A i \in DOMAIN commands' \ DOMAIN commands :
              commands'[i].type = "revoke_credential" =>
                  /\ commands'[i].about \in Credential
                  /\ credential'[commands'[i].about] = "revoked"
      BY <1>1, <1>2
    <2> QED
      BY <1>2, <2>1, WithdrawnGrows DEF IInv
  <1>6. CallerInv'
    BY <1>2, <1>3 DEF IInv, CallerInv, ReadBeforeWritten, CredentialInHand
  <1>7. requests' \in 0..MaxRequests
    BY Requested DEF ReplaceCode, IInv, RestTyped
  <1>8. RestTyped'
    BY <1>3, <1>7 DEF IInv, RestTyped
  <1> QED
    BY <1>4, <1>5, <1>6, <1>8 DEF IInv

-----------------------------------------------------------------------------
(* The drains *)

\* A drain moves; the commands keep their places.
LEMMA DrainMoves ==
  ASSUME IInv, NEW d \in Drain, QueueInv', RestTyped', UNCHANGED <<grant, version, credential, caller>>,
         DOMAIN commands' = DOMAIN commands,
         \A i \in DOMAIN commands : /\ commands'[i].type = commands[i].type
                                    /\ commands'[i].about = commands[i].about
  PROVE  IInv'
  <1>1. Withdrawn'
    BY DEF IInv, Withdrawn
  <1> QED
    BY <1>1, CallersRest DEF IInv

\* The drains other than d do not move, and what was taken stays taken.
LEMMA OneDrainMoves ==
  ASSUME QueueInv, NEW d \in Drain, NEW new, drain' = [drain EXCEPT ![d] = new],
         DOMAIN commands' = DOMAIN commands, delivered \subseteq delivered',
         new.step \in {"idle", "sending", "recording"},
         DOMAIN new.batch \subseteq DOMAIN commands,
         \A i \in DOMAIN new.batch : new.batch[i] \in 0..(MaxAttempts - 1),
         new.step = "recording" /\ new.ok => \A i : At(d, i)' => i \in delivered'
  PROVE  DrainsTyped' /\ TakenBeforeRecorded'
  <1>1. /\ DOMAIN drain' = Drain /\ drain'[d] = new
        /\ \A e \in Drain \ {d} : drain'[e] = drain[e]
    BY DEF QueueInv, DrainsTyped
  <1>2. DrainsTyped'
    BY <1>1 DEF QueueInv, DrainsTyped
  <1>3. TakenBeforeRecorded'
    BY <1>1 DEF QueueInv, TakenBeforeRecorded, At
  <1> QED
    BY <1>2, <1>3

\* A drain at rest has no batch.
LEMMA RestingTyped == Resting.step = "idle" /\ DOMAIN Resting.batch = {}
  BY DEF Resting

\* A drain takes commands that are still to be sent, with attempts left.
LEMMA StartDrainHolds == ASSUME IInv, NEW d \in Drain, NEW late \in SUBSET Failed,
                                StartDrain(d, late) PROVE IInv'
  <1> DEFINE batch == [i \in Batch(late) |-> commands[i].attempts]
  <1>1. /\ UNCHANGED <<grant, version, credential, commands, caller, delivered>>
        /\ RestTyped'
    BY RestUntouched DEF StartDrain, tenancy
  <1>2. Batch(late) \subseteq DOMAIN commands
        /\ \A i \in Batch(late) : commands[i].status \in {"pending", "failed"}
    BY DEF Batch, Pending, Failed
  <1>3. \A i \in Batch(late) : commands[i].attempts \in 0..(MaxAttempts - 1)
    <2> TAKE i \in Batch(late)
    <2>1. commands[i] \in Command /\ commands[i].attempts < MaxAttempts
      BY <1>2 DEF IInv, QueueInv, AttemptsLeft
    <2> QED
      BY <2>1, AttemptsAssumption DEF Command
  <1>4. PICK new : /\ new.step = "sending" /\ DOMAIN new.batch \subseteq DOMAIN commands
                   /\ \A i \in DOMAIN new.batch : new.batch[i] \in 0..(MaxAttempts - 1)
                   /\ drain' = [drain EXCEPT ![d] = new]
    <2> DEFINE new == [step |-> "sending", ok |-> FALSE, batch |-> batch]
    <2>1. new.step = "sending" /\ new.batch = batch /\ drain' = [drain EXCEPT ![d] = new]
      BY DEF StartDrain
    <2>2. DOMAIN batch = Batch(late) /\ \A i \in Batch(late) : batch[i] = commands[i].attempts
      OBVIOUS
    <2> HIDE DEF new, batch
    <2> QED
      BY <1>2, <1>3, <2>1, <2>2
  <1>5. DrainsTyped' /\ TakenBeforeRecorded'
    BY <1>1, <1>4, OneDrainMoves DEF IInv
  <1>6. QueueInv'
    BY <1>1, <1>5 DEF IInv, QueueInv, KeyedOnce, AttemptsLeft, SuccessIsReal
  <1> QED
    BY <1>1, <1>6, DrainMoves

\* A drain is at one command: the first of its batch.
LEMMA AtOne == ASSUME NEW d \in Drain, NEW i, NEW j, At(d, i), At(d, j), i \in Nat, j \in Nat
               PROVE  i = j
  BY DEF At

\* What the controller takes is known to be delivered before it is recorded.
LEMMA SendHolds == ASSUME IInv, NEW d \in Drain, NEW ok \in BOOLEAN, Send(d, ok) PROVE IInv'
  <1>1. UNCHANGED <<tenancy, grant, version, credential, commands, caller>>
    BY DEF Send
  <1> PICK i \in DOMAIN drain[d].batch :
          /\ At(d, i)
          /\ gate' = IF ok THEN Applied(i) ELSE gate
          /\ delivered' = IF ok THEN delivered \cup {i} ELSE delivered
          /\ slips' = IF /\ ok
                         /\ commands[i].type \in GrantCommand
                         /\ \E j \in delivered : j > i /\ commands[j].type \in GrantCommand
                      THEN slips \cup {"overtaken"} ELSE slips
    BY DEF Send
  <1>2. DOMAIN commands \subseteq Nat /\ DOMAIN drain[d].batch \subseteq DOMAIN commands
    BY DEF IInv, QueueInv, DrainsTyped
  <1>3. Applied(i) \in [Credential -> {"absent", "open", "shut"}]
    BY DEF Applied, IInv, RestTyped
  <1>4. faults' \in 0..MaxFaults
    BY BoundAssumption DEF Send, IInv, RestTyped
  <1>5. RestTyped'
    BY <1>1, <1>3, <1>4 DEF IInv, RestTyped, tenancy
  <1>6. delivered \subseteq delivered' /\ delivered' \subseteq DOMAIN commands
    BY <1>2 DEF IInv, QueueInv
  <1>7. PICK new : /\ new.step = "recording" /\ new.batch = drain[d].batch /\ (new.ok <=> ok)
                   /\ drain' = [drain EXCEPT ![d] = new]
    <2> DEFINE new == [drain[d] EXCEPT !.step = "recording", !.ok = ok]
    <2>1. drain' = [drain EXCEPT ![d] = new]
      BY DEF Send, IInv, QueueInv, DrainsTyped
    <2>2. new.step = "recording" /\ new.batch = drain[d].batch /\ (new.ok <=> ok)
      BY DEF IInv, QueueInv, DrainsTyped
    <2> QED
      BY <2>1, <2>2
  <1>8. drain'[d].batch = drain[d].batch
    BY <1>7 DEF IInv, QueueInv, DrainsTyped
  <1>9. ok => \A j : At(d, j)' => j \in delivered'
    <2> SUFFICES ASSUME ok, NEW j, At(d, j)' PROVE j \in delivered'
      OBVIOUS
    <2>1. At(d, j) /\ j \in DOMAIN drain[d].batch
      BY <1>8 DEF At
    <2>2. j = i
      BY <1>2, <2>1, AtOne
    <2> QED
      BY <2>2
  <1>10. DrainsTyped' /\ TakenBeforeRecorded'
    <2>1. DOMAIN commands' = DOMAIN commands
          /\ \A k \in DOMAIN new.batch : new.batch[k] \in 0..(MaxAttempts - 1)
      BY <1>1, <1>7 DEF IInv, QueueInv, DrainsTyped
    <2> QED
      BY <1>2, <1>6, <1>7, <1>9, <2>1, OneDrainMoves DEF IInv
  <1>11. QueueInv'
    BY <1>1, <1>6, <1>10 DEF IInv, QueueInv, KeyedOnce, AttemptsLeft, SuccessIsReal
  <1> QED
    BY <1>1, <1>5, <1>11, DrainMoves

\* What a drain records of a command it has sent was seen by the controller.
LEMMA RecordHolds == ASSUME IInv, NEW d \in Drain, Record(d) PROVE IInv'
  <1>1. /\ UNCHANGED <<tenancy, grant, version, credential, gate, caller, faults, delivered, slips>>
        /\ drain[d].step = "recording"
    BY DEF Record
  <1> PICK i \in DOMAIN drain[d].batch :
          LET attempts == drain[d].batch[i] + 1
              rest == DOMAIN drain[d].batch \ {i} IN
          /\ At(d, i)
          /\ commands' = [commands EXCEPT ![i] = [@ EXCEPT
                 !.attempts = attempts, !.status = Outcome(drain[d].ok, attempts)]]
          /\ drain' = [drain EXCEPT ![d] =
                 IF rest = {} THEN Resting
                 ELSE [step |-> "sending", ok |-> FALSE,
                       batch |-> [j \in rest |-> drain[d].batch[j]]]]
    BY DEF Record
  <1> DEFINE attempts == drain[d].batch[i] + 1
             after == [commands[i] EXCEPT !.attempts = attempts,
                                          !.status = Outcome(drain[d].ok, attempts)]
  <1>2. i \in DOMAIN commands /\ attempts \in 1..MaxAttempts /\ commands[i] \in Command
    BY AttemptsAssumption DEF IInv, QueueInv, DrainsTyped
  <1>3. /\ after \in Command /\ after.type = commands[i].type /\ after.about = commands[i].about
        /\ after.status = "succeeded" => drain[d].ok
        /\ after.status \in {"pending", "failed"} => after.attempts < MaxAttempts
    <2> DEFINE result == Outcome(drain[d].ok, attempts)
    <2> HIDE DEF attempts
    <2>1. /\ result \in {"pending", "failed", "succeeded", "dead_lettered"}
          /\ result = "succeeded" => drain[d].ok
          /\ result \in {"pending", "failed"} => attempts < MaxAttempts
      BY <1>2, AttemptsAssumption DEF Outcome
    <2>2. attempts \in 0..MaxAttempts
      BY <1>2, AttemptsAssumption
    <2> HIDE DEF result
    <2>3. after \in Command /\ after.type = commands[i].type /\ after.about = commands[i].about
          /\ after.status = result /\ after.attempts = attempts
      BY <1>2, <2>1, <2>2 DEF Command, result
    <2> QED
      BY <2>1, <2>3
  <1>4. commands' = [commands EXCEPT ![i] = after]
    OBVIOUS
  <1> HIDE DEF attempts, after
  <1>5. /\ commands' \in Seq(Command) /\ DOMAIN commands' = DOMAIN commands
        /\ commands'[i] = after
        /\ \A j \in DOMAIN commands \ {i} : commands'[j] = commands[j]
    BY <1>2, <1>3, <1>4 DEF IInv, QueueInv
  <1>6. \A j \in DOMAIN commands : /\ commands'[j].type = commands[j].type
                                   /\ commands'[j].about = commands[j].about
    BY <1>3, <1>5
  <1>7. KeyedOnce(commands)'
    BY <1>5, <1>6 DEF IInv, QueueInv, KeyedOnce
  <1>8. AttemptsLeft'
    BY <1>3, <1>5 DEF IInv, QueueInv, AttemptsLeft
  <1>9. SuccessIsReal'
    <2>1. drain[d].ok => i \in delivered
      BY <1>1 DEF IInv, QueueInv, TakenBeforeRecorded
    <2> QED
      BY <1>1, <1>3, <1>5, <2>1 DEF IInv, QueueInv, SuccessIsReal
  <1>10. PICK new : /\ new.step \in {"idle", "sending"} /\ DOMAIN new.batch \subseteq DOMAIN commands
                    /\ \A j \in DOMAIN new.batch : new.batch[j] \in 0..(MaxAttempts - 1)
                    /\ drain' = [drain EXCEPT ![d] = new]
    <2> DEFINE rest == DOMAIN drain[d].batch \ {i}
               next == [step |-> "sending", ok |-> FALSE,
                        batch |-> [j \in rest |-> drain[d].batch[j]]]
    <2>1. next.step = "sending" /\ DOMAIN next.batch = rest
          /\ \A j \in rest : next.batch[j] = drain[d].batch[j]
      OBVIOUS
    <2>2. CASE rest = {}
      BY <2>2, RestingTyped
    <2>3. CASE rest # {}
      <3>1. drain' = [drain EXCEPT ![d] = next]
        BY <2>3
      <3> HIDE DEF next
      <3> QED
        BY <2>1, <3>1 DEF IInv, QueueInv, DrainsTyped
    <2> QED
      BY <2>2, <2>3
  <1>11. DrainsTyped' /\ TakenBeforeRecorded'
    BY <1>1, <1>5, <1>10, OneDrainMoves DEF IInv
  <1>12. QueueInv'
    BY <1>1, <1>5, <1>7, <1>8, <1>9, <1>11 DEF IInv, QueueInv
  <1>13. RestTyped'
    BY <1>1, RestUntouched DEF tenancy
  <1> QED
    BY <1>1, <1>5, <1>6, <1>12, <1>13, DrainMoves

\* A drain that dies records nothing.
LEMMA DrainDiesHolds == ASSUME IInv, NEW d \in Drain, DrainDies(d) PROVE IInv'
  <1>1. /\ UNCHANGED <<tenancy, grant, version, credential, commands, gate, caller, delivered, slips>>
        /\ drain' = [drain EXCEPT ![d] = Resting]
    BY DEF DrainDies
  <1>2. faults' \in 0..MaxFaults
    BY BoundAssumption DEF DrainDies, IInv, RestTyped
  <1>3. RestTyped'
    BY <1>1, <1>2 DEF IInv, RestTyped, tenancy
  <1>4. DrainsTyped' /\ TakenBeforeRecorded'
    BY <1>1, RestingTyped, OneDrainMoves DEF IInv
  <1>5. QueueInv'
    BY <1>1, <1>4 DEF IInv, QueueInv, KeyedOnce, AttemptsLeft, SuccessIsReal
  <1> QED
    BY <1>1, <1>3, <1>5, DrainMoves

\* Every step of the gate's callers and drains keeps the invariant.
LEMMA NextHolds == IInv /\ [Next]_vars => IInv'
  <1> SUFFICES ASSUME IInv, [Next]_vars PROVE IInv'
    OBVIOUS
  <1>1. CASE MoveIn \/ DebtChanges
    BY <1>1, TenantHolds
  <1>2. CASE \E p \in Caller : Begin(p) \/ Evaluate(p) \/ CallerDies(p)
    BY <1>2, ProvisionHolds, MoveOutHolds, EnrollHolds, LosePhoneHolds, ReplaceCodeHolds,
       EvaluateHolds, CallerDiesHolds DEF Begin
  <1>3. CASE \E p \in Caller : Continue(p)
    BY <1>3, ReadGrantHolds, WriteGrantHolds, QueueTransitionHolds, MintHolds, IssueHolds,
       SendCredentialHolds, RetractHolds DEF Continue
  <1>4. CASE \E d \in Drain : \/ \E late \in SUBSET Failed : StartDrain(d, late)
                              \/ \E ok \in BOOLEAN : Send(d, ok)
                              \/ Record(d) \/ DrainDies(d)
    BY <1>4, StartDrainHolds, SendHolds, RecordHolds, DrainDiesHolds
  <1>5. CASE UNCHANGED vars
    <2>1. RestTyped'
      BY <1>5 DEF vars, tenancy, queue, IInv, RestTyped
    <2> QED
      BY <1>5, <2>1, QueueRests, CallersRest, WithdrawnRests DEF vars, IInv
  <1> QED
    BY <1>1, <1>2, <1>3, <1>4, <1>5 DEF Next

-----------------------------------------------------------------------------
(* What the controller is told follows the grant *)

AtQueue(p) == caller[p].step = "queue"

NoneAtQueue == \A p \in Caller : ~AtQueue(p)

\* The commands about the grant, and the latest of them.
Asked == {i \in DOMAIN commands : commands[i].type \in GrantCommand}

Latest(i) == i \in Asked /\ \A j \in Asked : j <= i

Opening(type) == type \in {"grant_access", "resume_access"}

\* The command that carries a code, and the caller that is about to queue it.
Carries(i, c) == commands[i].type = "set_credential" /\ commands[i].about = c

InHand(p, c) == caller[p].step = "send" /\ caller[p].cred = c

\* A command about the grant has an older version for its key than the grant has
\* now; so has one that is owed, and if it is owed for the last move it says
\* where the grant is.
Versioned ==
    /\ \A i \in DOMAIN commands : commands[i].type \in GrantCommand =>
          commands[i].about \in Nat /\ commands[i].about < version
    /\ \A p \in Caller : AtQueue(p) =>
          /\ caller[p].seen < version
          /\ caller[p].to \in {"active", "suspended", "revoked"}
          /\ caller[p].seen + 1 = version => grant = caller[p].to

\* Without a race no two moves of the grant started from one version: the key of
\* a command that is owed is free, and stays free for it.
AskedOnce == "raced" \notin slips => \A p \in Caller : AtQueue(p) =>
    /\ \A i \in DOMAIN commands : commands[i].type \in GrantCommand =>
          commands[i].about # caller[p].seen
    /\ \A q \in Caller \ {p} : AtQueue(q) => caller[q].seen # caller[p].seen

\* With no command owed, the latest one about the grant says where it is.
QueueFollows == slips = {} /\ NoneAtQueue =>
    \A i \in DOMAIN commands : Latest(i) => (Opening(commands[i].type) <=> OpensGate(grant))

\* The queue knows the credentials that were issued and no others.
UnusedIsUnknown == \A c \in Credential : credential[c] = "none" =>
    /\ \A i \in DOMAIN commands : ~Carries(i, c)
    /\ \A p \in Caller : ~InHand(p, c)

\* A live credential is on its way to the queue, or was queued.
LiveIsSent == "lost" \notin slips => \A c \in Credential : credential[c] = "active" =>
    \/ \E p \in Caller : InHand(p, c)
    \/ \E i \in DOMAIN commands : Carries(i, c)

\* The controller has a row for each code it has taken.
TakenIsKnown == \A i \in delivered, c \in Credential : Carries(i, c) => gate[c] # "absent"

\* Once the controller has the latest command about the grant, every live code it
\* has taken opens as the grant says.
GateFollows ==
    slips = {} /\ NoneAtQueue /\ (\A i \in DOMAIN commands : Latest(i) => i \in delivered) =>
        \A i \in delivered, c \in Credential : Carries(i, c) /\ credential[c] = "active" =>
            gate[c] = IF OpensGate(grant) THEN "open" ELSE "shut"

\* What the queue and the gate have to do with the grant and the credentials.
FollowInv == /\ Versioned /\ AskedOnce /\ QueueFollows /\ UnusedIsUnknown /\ LiveIsSent
             /\ TakenIsKnown /\ GateFollows

\* At the start there is nothing to follow.
LEMMA FollowInit == Init => FollowInv
  <1> SUFFICES ASSUME Init PROVE FollowInv
    OBVIOUS
  <1>1. DOMAIN commands = {} /\ delivered = {} /\ \A c \in Credential : credential[c] = "none"
    BY DEF Init
  <1>2. \A p \in Caller : caller[p].step = "idle"
    BY DoneTyped DEF Init
  <1> QED
    BY <1>1, <1>2 DEF FollowInv, Versioned, AskedOnce, QueueFollows, UnusedIsUnknown, LiveIsSent,
       TakenIsKnown, GateFollows, AtQueue, InHand

\* The queue keeps its commands, and those that are new are not about the grant.
GrantUnasked ==
    /\ \A i \in DOMAIN commands : /\ i \in DOMAIN commands'
                                  /\ commands'[i].type = commands[i].type
                                  /\ commands'[i].about = commands[i].about
    /\ \A i \in DOMAIN commands' \ DOMAIN commands : commands'[i].type \notin GrantCommand

\* Nobody comes to owe the queue a command about the grant, or pays one.
QueuersStay == \A p \in Caller : AtQueue(p) \/ AtQueue(p)' => caller'[p] = caller[p]

\* With the same commands about the grant, the latest of them is the same.
LEMMA SameLatest ==
  ASSUME GrantUnasked
  PROVE  /\ Asked' = Asked
         /\ \A i : Latest(i)' <=> Latest(i)
  <1>1. Asked' = Asked
    BY DEF GrantUnasked, Asked
  <1> QED
    BY <1>1 DEF Latest

\* A step beside the moves of the grant: what it does to the credentials is shown
\* by itself, the rest follows as before.
LEMMA BesideFollows ==
  ASSUME IInv, FollowInv, GrantUnasked, QueuersStay,
         UNCHANGED <<version, gate, delivered, slips>>,
         grant' = grant \/ (grant = "none" /\ grant' = "pending"),
         \A c \in Credential : credential'[c] = "active" => credential[c] \in {"active", "none"},
         UnusedIsUnknown', LiveIsSent'
  PROVE  FollowInv'
  <1>1. OpensGate(grant)' <=> OpensGate(grant)
    BY DEF OpensGate
  <1>2. NoneAtQueue' <=> NoneAtQueue
    BY DEF NoneAtQueue, QueuersStay, AtQueue
  <1>3. Versioned'
    <2>1. \A p \in Caller : AtQueue(p)' => grant # "none" \/ caller[p].seen + 1 # version
      BY DEF QueuersStay, AtQueue, FollowInv, Versioned
    <2> QED
      BY <2>1 DEF FollowInv, Versioned, GrantUnasked, QueuersStay, AtQueue
  <1>4. AskedOnce'
    BY DEF FollowInv, AskedOnce, GrantUnasked, QueuersStay, AtQueue
  <1>5. QueueFollows'
    BY <1>1, <1>2, SameLatest DEF FollowInv, QueueFollows, GrantUnasked, Latest, Asked
  <1>6. delivered \subseteq DOMAIN commands
    BY DEF IInv, QueueInv
  <1>7. \A i \in delivered, c \in Credential : Carries(i, c)' <=> Carries(i, c)
    BY <1>6 DEF Carries, GrantUnasked
  <1>8. TakenIsKnown'
    BY <1>7 DEF FollowInv, TakenIsKnown
  <1>9. GateFollows'
    <2> SUFFICES ASSUME slips' = {}, NoneAtQueue',
                        \A i \in DOMAIN commands' : Latest(i)' => i \in delivered',
                        NEW i \in delivered', NEW c \in Credential,
                        Carries(i, c)', credential'[c] = "active"
                 PROVE  (gate[c] = IF OpensGate(grant) THEN "open" ELSE "shut")'
      BY DEF GateFollows
    <2>1. i \in delivered /\ i \in DOMAIN commands /\ Carries(i, c)
      BY <1>6, <1>7
    <2>2. credential[c] = "active"
      BY <2>1 DEF FollowInv, UnusedIsUnknown
    <2>3. \A j \in DOMAIN commands : Latest(j) => j \in delivered
      BY SameLatest DEF GrantUnasked
    <2>4. gate[c] = IF OpensGate(grant) THEN "open" ELSE "shut"
      BY <1>2, <2>1, <2>2, <2>3 DEF FollowInv, GateFollows
    <2> QED
      BY <1>1, <2>4
  <1> QED
    BY <1>3, <1>4, <1>5, <1>8, <1>9 DEF FollowInv

\* A caller that goes from one step to another, neither of which owes the queue a
\* command about the grant or a new code.
Loose(step) == step \notin {"queue", "send"}

\* A step that changes neither the credentials nor what is queued, and by which
\* nobody comes to owe anything.
LEMMA StillFollows ==
  ASSUME IInv, FollowInv, UNCHANGED <<version, credential, gate, delivered, slips>>,
         grant' = grant \/ (grant = "none" /\ grant' = "pending"),
         DOMAIN commands' = DOMAIN commands,
         \A i \in DOMAIN commands : /\ commands'[i].type = commands[i].type
                                    /\ commands'[i].about = commands[i].about,
         \A p \in Caller : \/ caller'[p] = caller[p]
                           \/ Loose(caller[p].step) /\ Loose(caller'[p].step)
  PROVE  FollowInv'
  <1>1. GrantUnasked
    BY DEF GrantUnasked
  <1>2. QueuersStay
    BY DEF QueuersStay, AtQueue, Loose
  <1>3. \A p \in Caller, c \in Credential : InHand(p, c)' <=> InHand(p, c)
    BY DEF InHand, Loose
  <1>4. \A i \in DOMAIN commands, c \in Credential : Carries(i, c)' <=> Carries(i, c)
    BY DEF Carries
  <1>5. UnusedIsUnknown'
    BY <1>3, <1>4 DEF FollowInv, UnusedIsUnknown
  <1>6. LiveIsSent'
    BY <1>3, <1>4 DEF FollowInv, LiveIsSent
  <1>7. \A c \in Credential : credential'[c] = "active" => credential[c] \in {"active", "none"}
    OBVIOUS
  <1> QED
    BY <1>1, <1>2, <1>5, <1>6, <1>7, BesideFollows

\* The same for a caller that goes on.
LEMMA LooseMoves ==
  ASSUME IInv, FollowInv, NEW p \in Caller, NEW new, Goto(p, new),
         Loose(caller[p].step), Loose(new.step),
         UNCHANGED <<version, credential, commands, gate, delivered, slips>>,
         grant' = grant \/ (grant = "none" /\ grant' = "pending")
  PROVE  FollowInv'
  <1>1. \A q \in Caller : \/ caller'[q] = caller[q]
                          \/ Loose(caller[q].step) /\ Loose(caller'[q].step)
    BY DEF IInv, CallerInv, Goto
  <1> QED
    BY <1>1, StillFollows

\* What the tenant does, and what a drain reads or writes down, is nothing to the
\* gate.
LEMMA OthersFollow ==
  ASSUME IInv, FollowInv,
         UNCHANGED <<grant, version, credential, commands, gate, delivered, slips, caller>>
  PROVE  FollowInv'
  BY StillFollows

\* Callers that begin, and those that judge or mint, owe the queue nothing yet.
LEMMA LooseFollow ==
  ASSUME IInv, FollowInv, NEW p \in Caller,
         Provision(p) \/ Evaluate(p) \/ MoveOut(p) \/ Enroll(p) \/ Mint(p) \/ ReadGrant(p)
  PROVE  FollowInv'
  <1>1. UNCHANGED <<version, credential, commands, gate, delivered, slips>>
    BY DEF Provision, Evaluate, MoveOut, Enroll, Mint, ReadGrant, queue
  <1>2. grant' = grant \/ (grant = "none" /\ grant' = "pending")
    BY DEF Provision, Evaluate, MoveOut, Enroll, Mint, ReadGrant
  <1>3. caller[p].step \in {"idle", "mint", "read", "judge", "count"} /\ Loose(caller[p].step)
    BY DEF Provision, Evaluate, MoveOut, Enroll, Mint, ReadGrant, Loose
  <1>4. caller[p] \in CallerState
    BY DEF IInv, CallerInv
  <1>5. PICK new : Goto(p, new) /\ Loose(new.step)
    <2>1. \A step, to, pool : Call(step, to, pool).step = step
      BY DEF Call
    <2>2. Loose(Done.step)
      BY DoneTyped DEF Loose
    <2>3. CASE Provision(p) \/ Evaluate(p) \/ MoveOut(p) \/ Enroll(p)
      BY <2>1, <2>3 DEF Provision, Evaluate, MoveOut, Enroll, Loose
    <2>4. CASE Mint(p)
      <3> DEFINE new == [caller[p] EXCEPT !.step = "issue"]
      <3>1. Loose(new.step)
        BY <1>4 DEF CallerState, Loose
      <3> HIDE DEF new
      <3>2. Goto(p, new) \/ Goto(p, Done)
        BY <2>4 DEF Mint, new
      <3> QED
        BY <2>2, <3>1, <3>2
    <2>5. CASE ReadGrant(p)
      <3> DEFINE new == [caller[p] EXCEPT !.step = "write", !.from = grant, !.seen = version]
                 mint == Call("mint", "none", caller[p].pool)
      <3>1. Loose(new.step) /\ Loose(mint.step)
        BY <1>4, <2>1 DEF CallerState, Loose
      <3> HIDE DEF new, mint
      <3>2. Goto(p, new) \/ Goto(p, Done) \/ Goto(p, mint)
        BY <2>5 DEF ReadGrant, Goto, new, mint
      <3> QED
        BY <2>2, <3>1, <3>2
    <2> QED
      BY <2>3, <2>4, <2>5
  <1> QED
    BY <1>1, <1>2, <1>3, <1>5, LooseMoves

\* A drain writes over what became of a command and not over what it says.
LEMMA RecordFollows == ASSUME IInv, FollowInv, NEW d \in Drain, Record(d) PROVE FollowInv'
  <1>1. UNCHANGED <<grant, version, credential, gate, caller, delivered, slips>>
    BY DEF Record
  <1> PICK i \in DOMAIN drain[d].batch :
          commands' = [commands EXCEPT ![i] = [@ EXCEPT
              !.attempts = drain[d].batch[i] + 1,
              !.status = Outcome(drain[d].ok, drain[d].batch[i] + 1)]]
    BY DEF Record
  <1>2. DOMAIN commands' = DOMAIN commands
    OBVIOUS
  <1>3. \A j \in DOMAIN commands : commands[j] \in Command
    BY DEF IInv, QueueInv
  <1>4. \A j \in DOMAIN commands : /\ commands'[j].type = commands[j].type
                                   /\ commands'[j].about = commands[j].about
    BY <1>3 DEF Command
  <1> QED
    BY <1>1, <1>2, <1>4, StillFollows

\* A caller that dies owes nothing any more; if it did, a command is lost.
LEMMA CallerDiesFollows == ASSUME IInv, FollowInv, NEW p \in Caller, CallerDies(p) PROVE FollowInv'
  <1>1. /\ UNCHANGED <<grant, version, credential, commands, gate, delivered>>
        /\ Goto(p, Done) /\ Loose(Done.step)
    BY DoneTyped DEF CallerDies, queue, Loose
  <1>2. CASE ~OwesCommand(p)
    <2>1. Loose(caller[p].step) /\ slips' = slips
      BY <1>2 DEF CallerDies, OwesCommand, Loose
    <2> QED
      BY <1>1, <2>1, LooseMoves
  <1>3. CASE OwesCommand(p)
    <2>1. slips' = slips \cup {"lost"} /\ ("raced" \in slips' <=> "raced" \in slips)
      BY <1>3 DEF CallerDies
    <2>2. /\ \A q \in Caller \ {p} : caller'[q] = caller[q]
          /\ caller'[p].step = "idle"
      BY <1>1, DoneTyped DEF IInv, CallerInv, Goto
    <2>3. \A q \in Caller : AtQueue(q)' => q # p /\ caller'[q] = caller[q] /\ AtQueue(q)
      BY <2>2 DEF AtQueue
    <2>4. Versioned'
      BY <1>1, <2>3 DEF FollowInv, Versioned
    <2>5. AskedOnce'
      BY <1>1, <2>1, <2>3 DEF FollowInv, AskedOnce
    <2>6. \A q \in Caller, c \in Credential : InHand(q, c)' => InHand(q, c)
      BY <2>2 DEF InHand
    <2>7. \A i, c : Carries(i, c)' <=> Carries(i, c)
      BY <1>1 DEF Carries
    <2>8. UnusedIsUnknown' /\ TakenIsKnown'
      BY <1>1, <2>6, <2>7 DEF FollowInv, UnusedIsUnknown, TakenIsKnown
    <2>9. QueueFollows' /\ LiveIsSent' /\ GateFollows'
      BY <2>1 DEF QueueFollows, LiveIsSent, GateFollows
    <2> QED
      BY <2>4, <2>5, <2>8, <2>9 DEF FollowInv
  <1> QED
    BY <1>2, <1>3

\* Who writes the grant owes the queue the command; if nobody wrote it since it
\* was read, no command and no other caller has this version.
LEMMA WriteGrantFollows == ASSUME IInv, FollowInv, NEW p \in Caller, WriteGrant(p) PROVE FollowInv'
  <1>1. /\ version \in Nat /\ version' = version + 1 /\ grant' = caller[p].to
        /\ caller[p].step = "write" /\ caller[p] \in CallerState
        /\ UNCHANGED <<credential, commands, gate, delivered>>
        /\ slips' = IF caller[p].seen = version THEN slips ELSE slips \cup {"raced"}
    BY DEF WriteGrant, IInv, CallerInv, queue
  <1>2. /\ CanTransition(caller[p].from, caller[p].to) /\ caller[p].seen <= version
        /\ caller[p].seen \in Nat
    BY <1>1 DEF IInv, CallerInv, ReadBeforeWritten, CallerState
  <1>3. PICK new : /\ caller' = [caller EXCEPT ![p] = new]
                   /\ new.step = "queue" /\ new.to = caller[p].to /\ new.seen = caller[p].seen
    <2> DEFINE next == [caller[p] EXCEPT !.step = "queue"]
    <2>1. next.step = "queue" /\ next.to = caller[p].to /\ next.seen = caller[p].seen
      BY <1>1 DEF CallerState
    <2> QED
      BY <2>1 DEF WriteGrant, Goto
  <1>4. caller'[p] = new /\ \A q \in Caller \ {p} : caller'[q] = caller[q]
    BY <1>3 DEF IInv, CallerInv
  <1>5. AtQueue(p)' /\ ~NoneAtQueue'
    BY <1>3, <1>4 DEF AtQueue, NoneAtQueue
  <1>6. \A q \in Caller : AtQueue(q) => caller[q].seen \in Nat
    BY DEF IInv, CallerInv, CallerState
  <1>7. Versioned'
    <2>1. \A i \in DOMAIN commands' : commands'[i].type \in GrantCommand =>
              commands'[i].about \in Nat /\ commands'[i].about < version'
      BY <1>1 DEF FollowInv, Versioned
    <2>2. /\ caller'[p].seen < version' /\ caller'[p].to \in {"active", "suspended", "revoked"}
          /\ grant' = caller'[p].to
      BY <1>1, <1>2, <1>3, <1>4 DEF CanTransition
    <2>3. \A q \in Caller \ {p} : AtQueue(q)' =>
              /\ caller'[q].seen < version' /\ caller'[q].to \in {"active", "suspended", "revoked"}
              /\ caller'[q].seen + 1 # version'
      BY <1>1, <1>4, <1>6 DEF FollowInv, Versioned, AtQueue
    <2> QED
      BY <2>1, <2>2, <2>3 DEF Versioned
  <1>8. AskedOnce'
    <2> SUFFICES ASSUME "raced" \notin slips' PROVE AskedOnce'
      BY DEF AskedOnce
    <2>1. caller'[p].seen = version /\ "raced" \notin slips
      BY <1>1, <1>3, <1>4
    <2>2. \A i \in DOMAIN commands : commands[i].type \in GrantCommand => commands[i].about # version
      BY <1>1 DEF FollowInv, Versioned
    <2>3. \A q \in Caller \ {p} : AtQueue(q) => caller[q].seen # version
      BY <1>1, <1>6 DEF FollowInv, Versioned
    <2>4. \A q \in Caller \ {p} : AtQueue(q)' =>
              /\ caller'[q].seen # version
              /\ \A i \in DOMAIN commands : commands[i].type \in GrantCommand =>
                    commands[i].about # caller'[q].seen
              /\ \A r \in Caller \ {p, q} : AtQueue(r)' => caller'[r].seen # caller'[q].seen
      BY <1>4, <2>1, <2>3 DEF FollowInv, AskedOnce, AtQueue
    <2> QED
      BY <1>1, <2>1, <2>2, <2>4 DEF AskedOnce
  <1>9. QueueFollows' /\ GateFollows'
    BY <1>5 DEF QueueFollows, GateFollows
  <1>10. \A q \in Caller, c \in Credential : InHand(q, c)' <=> InHand(q, c)
    BY <1>1, <1>3, <1>4 DEF InHand
  <1>11. \A i, c : Carries(i, c)' <=> Carries(i, c)
    BY <1>1 DEF Carries
  <1>12. UnusedIsUnknown' /\ TakenIsKnown' /\ LiveIsSent'
    BY <1>1, <1>10, <1>11 DEF FollowInv, UnusedIsUnknown, TakenIsKnown, LiveIsSent
  <1> QED
    BY <1>7, <1>8, <1>9, <1>12 DEF FollowInv

\* A command that is queued for a move of the grant is the latest of its kind, and
\* if nobody else has moved the grant since, it says where the grant is.
LEMMA QueueTransitionFollows ==
  ASSUME IInv, FollowInv, NEW p \in Caller, QueueTransition(p) PROVE FollowInv'
  <1> DEFINE seen == caller[p].seen
             type == CommandFor(caller[p].from, caller[p].to)
             last == Len(commands) + 1
  <1>1. /\ AtQueue(p) /\ caller[p] \in CallerState /\ seen \in Nat /\ version \in Nat
        /\ commands' = Enqueue(commands, type, seen)
        /\ slips' = IF seen + 1 = version THEN slips ELSE slips \cup {"raced"}
        /\ UNCHANGED <<grant, version, credential, gate, delivered>>
    BY DEF QueueTransition, Queued, AtQueue, IInv, CallerInv, CallerState
  <1>2. /\ type \in GrantCommand /\ type \in CommandType
        /\ caller[p].to \in {"active", "suspended", "revoked"}
        /\ Opening(type) <=> OpensGate(caller[p].to)
        /\ seen < version /\ (seen + 1 = version => grant = caller[p].to)
    BY <1>1 DEF FollowInv, Versioned, CommandFor, GrantCommand, CommandType, Opening, OpensGate
  <1>3. PICK asked, key : asked = type /\ key = seen
    OBVIOUS
  <1>4. /\ commands \in Seq(Command) /\ KeyedOnce(commands) /\ delivered \subseteq DOMAIN commands
        /\ DOMAIN commands = 1..Len(commands) /\ Len(commands) \in Nat
    BY DEF IInv, QueueInv
  <1> HIDE DEF type, seen
  <1>5. /\ \A i \in DOMAIN commands : i \in DOMAIN commands' /\ commands'[i] = commands[i]
        /\ \A i \in DOMAIN commands' \ DOMAIN commands :
              commands'[i].type = asked /\ commands'[i].about = key
    <2>1. seen \in Nat \cup Credential
      BY <1>1
    <2>2. /\ Longer(commands, commands')
          /\ \A i \in DOMAIN commands' \ DOMAIN commands : commands'[i] = Fresh(type, seen)
      BY <1>1, <1>2, <1>4, <2>1, EnqueueLonger
    <2>3. Fresh(type, seen).type = asked /\ Fresh(type, seen).about = key
      BY <1>3 DEF Fresh
    <2> QED
      BY <2>2, <2>3 DEF Longer
  <1>6. /\ \A q \in Caller \ {p} : caller'[q] = caller[q]
        /\ caller'[p].step \in {"idle", "mint"}
    BY <1>1, DoneTyped DEF QueueTransition, Goto, Call, IInv, CallerInv
  <1>7. \A q \in Caller : AtQueue(q)' => q # p /\ caller'[q] = caller[q] /\ AtQueue(q)
    BY <1>6 DEF AtQueue
  <1>8. Versioned'
    <2>1. \A i \in DOMAIN commands' : commands'[i].type \in GrantCommand =>
              commands'[i].about \in Nat /\ commands'[i].about < version'
      BY <1>1, <1>2, <1>3, <1>5 DEF FollowInv, Versioned
    <2> QED
      BY <1>1, <1>7, <2>1 DEF FollowInv, Versioned
  <1>9. AskedOnce'
    <2> SUFFICES ASSUME "raced" \notin slips', NEW q \in Caller, AtQueue(q)'
                 PROVE  /\ \A i \in DOMAIN commands' : commands'[i].type \in GrantCommand =>
                              commands'[i].about # caller'[q].seen
                        /\ \A r \in Caller \ {q} : AtQueue(r)' => caller'[r].seen # caller'[q].seen
      BY DEF AskedOnce
    <2>1. "raced" \notin slips /\ AtQueue(q) /\ q # p /\ caller'[q] = caller[q]
      BY <1>1, <1>7
    <2>2. caller[q].seen # key
      BY <1>1, <1>3, <2>1 DEF FollowInv, AskedOnce, seen
    <2> QED
      BY <1>5, <1>7, <2>1, <2>2 DEF FollowInv, AskedOnce
  <1>10. ASSUME slips' = {}
         PROVE  /\ grant' = caller[p].to /\ commands'[last].type = asked
                /\ \A i \in DOMAIN commands' : Latest(i)' <=> i = last
                /\ last \in DOMAIN commands' /\ last \notin delivered'
    <2>1. slips = {} /\ seen + 1 = version
      BY <1>1, <1>10
    <2>2. \A i \in DOMAIN commands : commands[i].type = type => commands[i].about # seen
      BY <1>1, <1>2, <2>1 DEF FollowInv, AskedOnce, seen
    <2>3. DOMAIN commands' = 1..last /\ commands'[last] = Fresh(type, seen)
      BY <1>1, <1>2, <1>4, <2>2, EnqueueAppends
    <2>4. commands'[last].type = asked /\ asked \in GrantCommand
      BY <1>2, <1>3, <2>3 DEF Fresh
    <2>5. last \in Asked' /\ \A i \in Asked' : i \in 1..last
      BY <1>4, <2>3, <2>4 DEF Asked
    <2>6. \A i \in DOMAIN commands' : Latest(i)' <=> i = last
      BY <1>4, <2>3, <2>5 DEF Latest
    <2> QED
      BY <1>1, <1>2, <1>4, <2>1, <2>3, <2>4, <2>6
  <1>11. QueueFollows'
    <2> SUFFICES ASSUME slips' = {}, NEW i \in DOMAIN commands', Latest(i)'
                 PROVE  Opening(commands'[i].type) <=> OpensGate(grant')
      BY DEF QueueFollows, Opening, OpensGate
    <2>1. i = last
      BY <1>10
    <2>2. commands'[i].type = type /\ grant' = caller[p].to
      BY <1>3, <1>10, <2>1
    <2> QED
      BY <1>2, <2>2
  <1>12. GateFollows'
    <2>1. slips' = {} => \E i \in DOMAIN commands' : Latest(i)' /\ i \notin delivered'
      BY <1>10
    <2> QED
      BY <2>1 DEF GateFollows
  <1>13. \A c \in Credential :
             /\ \A i \in DOMAIN commands : Carries(i, c)' <=> Carries(i, c)
             /\ \A i \in DOMAIN commands' \ DOMAIN commands : ~Carries(i, c)'
             /\ \A q \in Caller : InHand(q, c)' <=> InHand(q, c)
    <2>1. asked # "set_credential"
      BY <1>2, <1>3 DEF GrantCommand
    <2> QED
      BY <1>1, <1>5, <1>6, <2>1 DEF Carries, InHand, AtQueue
  <1>14. UnusedIsUnknown'
    BY <1>1, <1>13 DEF FollowInv, UnusedIsUnknown
  <1>15. LiveIsSent'
    <2>1. "lost" \notin slips' => "lost" \notin slips
      BY <1>1
    <2> QED
      BY <1>1, <1>5, <1>13, <2>1 DEF FollowInv, LiveIsSent
  <1>16. TakenIsKnown'
    BY <1>1, <1>4, <1>13 DEF FollowInv, TakenIsKnown
  <1> QED
    BY <1>8, <1>9, <1>11, <1>12, <1>14, <1>15, <1>16 DEF FollowInv

-----------------------------------------------------------------------------
(* What the queue and the controller know of the credentials *)

\* A new credential is in the hand of the caller that issued it.
LEMMA IssueFollows == ASSUME IInv, FollowInv, NEW p \in Caller, Issue(p) PROVE FollowInv'
  <1>1. /\ UNCHANGED <<grant, version, commands, gate, delivered, slips>>
        /\ Loose(caller[p].step) /\ caller[p] \in CallerState
    BY DEF Issue, queue, Loose, IInv, CallerInv
  <1>2. CASE Goto(p, Done) /\ UNCHANGED credential
    <2>1. Loose(Done.step)
      BY DoneTyped DEF Loose
    <2> QED
      BY <1>1, <1>2, <2>1, LooseMoves
  <1>3. ASSUME NEW c \in Credential, credential[c] = "none",
               credential' = [credential EXCEPT ![c] = "active"],
               Goto(p, [caller[p] EXCEPT !.step = "send", !.cred = c])
        PROVE  FollowInv'
    <2>1. /\ \A q \in Caller \ {p} : caller'[q] = caller[q]
          /\ caller'[p].step = "send" /\ caller'[p].cred = c
      BY <1>1, <1>3 DEF Goto, IInv, CallerInv, CallerState
    <2>2. /\ credential'[c] = "active"
          /\ \A b \in Credential \ {c} : credential'[b] = credential[b]
      BY <1>3 DEF IInv, CallerInv
    <2>3. QueuersStay /\ GrantUnasked
      BY <1>1, <2>1 DEF QueuersStay, AtQueue, Loose, GrantUnasked
    <2>4. \A i, b : Carries(i, b)' <=> Carries(i, b)
      BY <1>1 DEF Carries
    <2>5. InHand(p, c)' /\ \A q \in Caller, b \in Credential \ {c} : InHand(q, b)' <=> InHand(q, b)
      BY <1>1, <2>1 DEF InHand, Loose
    <2>6. UnusedIsUnknown'
      BY <1>1, <2>2, <2>4, <2>5 DEF FollowInv, UnusedIsUnknown
    <2>7. LiveIsSent'
      BY <1>1, <2>2, <2>4, <2>5 DEF FollowInv, LiveIsSent
    <2>8. \A b \in Credential : credential'[b] = "active" => credential[b] \in {"active", "none"}
      BY <1>3, <2>2
    <2> QED
      BY <1>1, <2>3, <2>6, <2>7, <2>8, BesideFollows
  <1>4. \A c \in Unused(Pool(caller[p].pool)) : c \in Credential /\ credential[c] = "none"
    BY DEF Unused, Pool, Credential
  <1> QED
    BY <1>2, <1>3, <1>4 DEF Issue

\* What is queued for a credential is not about the grant.
LEMMA CredentialQueued ==
  ASSUME IInv, NEW type \in {"set_credential", "revoke_credential"}, NEW about \in Credential,
         commands' = Enqueue(commands, type, about)
  PROVE  /\ GrantUnasked
         /\ \A i \in DOMAIN commands' \ DOMAIN commands :
               commands'[i].type = type /\ commands'[i].about = about
         /\ \E i \in DOMAIN commands' : commands'[i].type = type /\ commands'[i].about = about
  <1>1. /\ commands \in Seq(Command) /\ KeyedOnce(commands) /\ type \in CommandType
        /\ about \in Nat \cup Credential /\ type \notin GrantCommand
    BY DEF IInv, QueueInv, CommandType, GrantCommand
  <1>2. /\ Longer(commands, commands')
        /\ \A i \in DOMAIN commands' \ DOMAIN commands : commands'[i] = Fresh(type, about)
    BY <1>1, EnqueueLonger
  <1>3. Fresh(type, about).type = type /\ Fresh(type, about).about = about
    BY DEF Fresh
  <1>4. GrantUnasked
    BY <1>1, <1>2, <1>3 DEF GrantUnasked, Longer
  <1>5. \E i \in DOMAIN commands' : commands'[i].type = type /\ commands'[i].about = about
    <2>1. LET new == Enqueue(commands, type, about) IN
          \E i \in DOMAIN new : new[i].type = type /\ new[i].about = about
      BY <1>1, EnqueuePresent
    <2> QED
      BY <2>1
  <1> QED
    BY <1>2, <1>3, <1>4, <1>5

\* The queue has the code that was in the caller's hand.
LEMMA SendCredentialFollows ==
  ASSUME IInv, FollowInv, NEW p \in Caller, SendCredential(p) PROVE FollowInv'
  <1> DEFINE mine == caller[p].cred
  <1>1. /\ UNCHANGED <<grant, version, credential, gate, delivered, slips>>
        /\ mine \in Credential /\ InHand(p, mine)
        /\ commands' = Enqueue(commands, "set_credential", mine)
    BY DEF SendCredential, InHand, IInv, CallerInv, CredentialInHand
  <1>2. PICK c \in Credential : c = mine
    BY <1>1
  <1>3. /\ \A q \in Caller \ {p} : caller'[q] = caller[q]
        /\ caller'[p].step = "idle" /\ caller[p].step = "send"
    BY DoneTyped DEF SendCredential, Goto, IInv, CallerInv
  <1> HIDE DEF mine
  <1>4. commands' = Enqueue(commands, "set_credential", c)
    BY <1>1, <1>2
  <1>5. /\ GrantUnasked
        /\ \A i \in DOMAIN commands' \ DOMAIN commands : commands'[i].about = c
        /\ \E i \in DOMAIN commands' : Carries(i, c)'
    BY <1>4, CredentialQueued DEF Carries
  <1>6. QueuersStay
    BY <1>3 DEF QueuersStay, AtQueue
  <1>7. credential[c] # "none" /\ InHand(p, c)
    BY <1>1, <1>2 DEF FollowInv, UnusedIsUnknown
  <1>8. \A i \in DOMAIN commands, b \in Credential : Carries(i, b)' <=> Carries(i, b)
    BY <1>5 DEF Carries, GrantUnasked
  <1>9. \A q \in Caller, b \in Credential \ {c} : InHand(q, b)' <=> InHand(q, b)
    BY <1>1, <1>2, <1>3 DEF InHand, mine
  <1>10. UnusedIsUnknown'
    <2> SUFFICES ASSUME NEW b \in Credential, credential'[b] = "none"
                 PROVE  /\ \A i \in DOMAIN commands' : ~Carries(i, b)'
                        /\ \A q \in Caller : ~InHand(q, b)'
      BY DEF UnusedIsUnknown
    <2>1. b # c /\ credential[b] = "none"
      BY <1>1, <1>7
    <2>2. \A i \in DOMAIN commands' \ DOMAIN commands : ~Carries(i, b)'
      BY <1>5, <2>1 DEF Carries
    <2> QED
      BY <1>8, <1>9, <2>1, <2>2 DEF FollowInv, UnusedIsUnknown
  <1>11. LiveIsSent'
    BY <1>1, <1>5, <1>8, <1>9 DEF FollowInv, LiveIsSent, GrantUnasked
  <1>12. \A b \in Credential : credential'[b] = "active" => credential[b] \in {"active", "none"}
    BY <1>1
  <1> QED
    BY <1>1, <1>5, <1>6, <1>10, <1>11, <1>12, BesideFollows

\* Taking a credential back sends no code.
LEMMA RetractFollows == ASSUME IInv, FollowInv, NEW p \in Caller, Retract(p) PROVE FollowInv'
  <1>1. /\ UNCHANGED <<grant, version, credential, gate, delivered, slips>>
        /\ caller[p].cred \in Credential /\ caller[p].step = "retract"
        /\ commands' = Enqueue(commands, "revoke_credential", caller[p].cred)
    BY DEF Retract, IInv, CallerInv, CredentialInHand
  <1>2. /\ \A q \in Caller \ {p} : caller'[q] = caller[q]
        /\ caller'[p].step = "idle"
    BY DoneTyped DEF Retract, Goto, IInv, CallerInv
  <1>3. PICK c \in Credential : commands' = Enqueue(commands, "revoke_credential", c)
    BY <1>1
  <1>4. /\ GrantUnasked
        /\ \A i \in DOMAIN commands' \ DOMAIN commands : commands'[i].type = "revoke_credential"
    BY <1>3, CredentialQueued
  <1>5. QueuersStay
    BY <1>1, <1>2 DEF QueuersStay, AtQueue
  <1>6. \A b \in Credential : /\ \A i \in DOMAIN commands : Carries(i, b)' <=> Carries(i, b)
                              /\ \A i \in DOMAIN commands' \ DOMAIN commands : ~Carries(i, b)'
                              /\ \A q \in Caller : InHand(q, b)' <=> InHand(q, b)
    BY <1>1, <1>2, <1>4 DEF Carries, InHand, GrantUnasked
  <1>7. UnusedIsUnknown'
    BY <1>1, <1>6 DEF FollowInv, UnusedIsUnknown
  <1>8. LiveIsSent'
    BY <1>1, <1>4, <1>6 DEF FollowInv, LiveIsSent, GrantUnasked
  <1>9. \A b \in Credential : credential'[b] = "active" => credential[b] \in {"active", "none"}
    BY <1>1
  <1> QED
    BY <1>1, <1>4, <1>5, <1>7, <1>8, <1>9, BesideFollows

\* A lost phone's key is no longer live.
LEMMA LosePhoneFollows == ASSUME IInv, FollowInv, NEW p \in Caller, LosePhone(p) PROVE FollowInv'
  <1>1. /\ UNCHANGED <<grant, version, commands, gate, delivered, slips>>
        /\ caller[p].step = "idle"
    BY DEF LosePhone, queue
  <1> PICK c \in Live(Key) :
          /\ credential' = [credential EXCEPT ![c] = "revoked"]
          /\ Goto(p, [Call("retract", "none", "none") EXCEPT !.cred = c])
    BY DEF LosePhone
  <1>2. /\ c \in Credential /\ credential'[c] = "revoked"
        /\ \A b \in Credential \ {c} : credential'[b] = credential[b]
    BY DEF Live, Credential, IInv, CallerInv
  <1>3. /\ \A q \in Caller \ {p} : caller'[q] = caller[q]
        /\ caller'[p].step = "retract"
    BY DEF Goto, Call, IInv, CallerInv
  <1>4. QueuersStay /\ GrantUnasked
    BY <1>1, <1>3 DEF QueuersStay, AtQueue, GrantUnasked
  <1>5. \A b \in Credential : /\ \A i : Carries(i, b)' <=> Carries(i, b)
                              /\ \A q \in Caller : InHand(q, b)' <=> InHand(q, b)
    BY <1>1, <1>3 DEF Carries, InHand
  <1>6. UnusedIsUnknown' /\ LiveIsSent'
    BY <1>1, <1>2, <1>5 DEF FollowInv, UnusedIsUnknown, LiveIsSent
  <1>7. \A b \in Credential : credential'[b] = "active" => credential[b] \in {"active", "none"}
    BY <1>2
  <1> QED
    BY <1>1, <1>4, <1>6, <1>7, BesideFollows

\* The codes that are replaced are no longer live, and the new one is queued.
LEMMA ReplaceCodeFollows ==
  ASSUME IInv, FollowInv, NEW p \in Caller, ReplaceCode(p) PROVE FollowInv'
  <1> PICK new \in Unused(Pin) :
          /\ credential' = [c \in Credential |-> IF c \in Live(Pin) THEN "revoked"
                                               ELSE IF c = new THEN "active" ELSE credential[c]]
          /\ Longer(commands, commands')
          /\ \A i \in DOMAIN commands' \ DOMAIN commands :
                \/ commands'[i].type = "revoke_credential" /\ commands'[i].about \in Live(Pin)
                \/ commands'[i].type = "set_credential" /\ commands'[i].about = new
          /\ \E i \in DOMAIN commands' :
                commands'[i].type = "set_credential" /\ commands'[i].about = new
    BY ReplacementQueued
  <1>1. UNCHANGED <<grant, version, gate, caller, delivered, slips>>
    BY DEF ReplaceCode
  <1>2. /\ new \in Credential /\ credential[new] = "none" /\ credential'[new] = "active"
        /\ \A c \in Credential \ {new} :
              \/ credential'[c] = credential[c]
              \/ credential[c] = "active" /\ credential'[c] = "revoked"
    BY DEF Live, Unused, Credential
  <1>3. GrantUnasked /\ QueuersStay
    BY <1>1 DEF GrantUnasked, Longer, GrantCommand, QueuersStay
  <1>4. \A c \in Credential : /\ \A i \in DOMAIN commands : Carries(i, c)' <=> Carries(i, c)
                              /\ \A q \in Caller : InHand(q, c)' <=> InHand(q, c)
    BY <1>1, <1>3 DEF Carries, InHand, GrantUnasked
  <1>5. \A c \in Credential \ {new} :
            \A i \in DOMAIN commands' \ DOMAIN commands : ~Carries(i, c)'
    BY DEF Carries
  <1>6. \E i \in DOMAIN commands' : Carries(i, new)'
    BY DEF Carries
  <1>7. UnusedIsUnknown'
    BY <1>2, <1>4, <1>5 DEF FollowInv, UnusedIsUnknown
  <1>8. LiveIsSent'
    BY <1>1, <1>2, <1>3, <1>4, <1>6 DEF FollowInv, LiveIsSent, GrantUnasked
  <1>9. \A c \in Credential : credential'[c] = "active" => credential[c] \in {"active", "none"}
    BY <1>2
  <1> QED
    BY <1>1, <1>3, <1>7, <1>8, <1>9, BesideFollows

-----------------------------------------------------------------------------
(* What the controller takes *)

\* Of the commands about the grant, if there are any, one is the latest.
LEMMA LatestExists ==
  ASSUME IInv, Asked # {}
  PROVE  \E i \in DOMAIN commands : Latest(i)
  <1> DEFINE n == Len(commands)
             After == {m \in 0..n : \E i \in Asked : i + m = n}
  <1>1. n \in Nat /\ Asked \subseteq 1..n /\ Asked \subseteq DOMAIN commands
    BY DEF IInv, QueueInv, Asked
  <1>2. \A i \in Asked : n - i \in 0..n /\ i + (n - i) = n
    BY <1>1
  <1>3. After \in SUBSET Nat /\ After # {} /\ \A i \in Asked : n - i \in After
    <2>1. \A i \in Asked : n - i \in 0..n /\ \E j \in Asked : j + (n - i) = n
      BY <1>2
    <2>2. \A i \in Asked : n - i \in After
      BY <2>1
    <2>3. 0..n \subseteq Nat
      BY <1>1
    <2> QED
      BY <2>2, <2>3
  <1>4. PICK m \in After : \A k \in After : ~(<<k, m>> \in OpToRel(<, Nat))
    BY <1>3, NatLessThanWellFounded, WFMin
  <1>5. PICK i \in Asked : i + m = n
    OBVIOUS
  <1>6. \A j \in Asked : n - j \in Nat /\ m \in Nat /\ ~(n - j < m)
    BY <1>2, <1>3, <1>4 DEF OpToRel
  <1>7. \A j \in Asked : j <= i
    BY <1>1, <1>5, <1>6
  <1> QED
    BY <1>1, <1>7 DEF Latest

\* A code that is taken opens as the grant says; the latest command about the
\* grant sets every code to where the grant is, and an earlier one that comes
\* after it has overtaken it.
LEMMA SendFollows ==
  ASSUME IInv, FollowInv, NEW d \in Drain, NEW ok \in BOOLEAN, Send(d, ok) PROVE FollowInv'
  <1>1. UNCHANGED <<grant, version, credential, commands, caller>>
    BY DEF Send
  <1> PICK i \in DOMAIN drain[d].batch :
          /\ gate' = IF ok THEN Applied(i) ELSE gate
          /\ delivered' = IF ok THEN delivered \cup {i} ELSE delivered
          /\ slips' = IF /\ ok
                         /\ commands[i].type \in GrantCommand
                         /\ \E j \in delivered : j > i /\ commands[j].type \in GrantCommand
                      THEN slips \cup {"overtaken"} ELSE slips
    BY DEF Send
  <1>2. CASE ~ok
    BY <1>1, <1>2, OthersFollow
  <1>3. CASE ok
    <2> DEFINE expected == IF OpensGate(grant) THEN "open" ELSE "shut"
    <2>1. /\ gate' = Applied(i) /\ delivered' = delivered \cup {i}
          /\ slips \subseteq slips' /\ ("raced" \in slips' <=> "raced" \in slips)
          /\ ("lost" \in slips' <=> "lost" \in slips)
      BY <1>3
    <2>2. /\ i \in DOMAIN commands /\ delivered \subseteq DOMAIN commands
          /\ DOMAIN commands \subseteq Nat /\ commands[i] \in Command
      BY DEF IInv, QueueInv, DrainsTyped
    <2>3. gate \in [Credential -> {"absent", "open", "shut"}]
      BY DEF IInv, RestTyped
    <2>4. \A j, c : Carries(j, c)' <=> Carries(j, c)
      BY <1>1 DEF Carries
    <2>5. (NoneAtQueue' <=> NoneAtQueue) /\ \A j : Latest(j)' <=> Latest(j)
      BY <1>1 DEF NoneAtQueue, AtQueue, Latest, Asked
    <2>6. Versioned' /\ AskedOnce' /\ UnusedIsUnknown' /\ LiveIsSent'
      BY <1>1, <2>1 DEF FollowInv, Versioned, AskedOnce, UnusedIsUnknown, LiveIsSent, AtQueue,
         InHand, Carries
    <2>7. QueueFollows'
      BY <1>1, <2>1, <2>5 DEF FollowInv, QueueFollows, Opening, OpensGate
    <2>8. \A c \in Credential : Carries(i, c) => gate'[c] = expected
      BY <2>1 DEF Applied, Carries
    <2>9. \A c \in Credential : gate[c] # "absent" => gate'[c] # "absent"
      BY <2>1 DEF Applied
    <2>10. TakenIsKnown'
      BY <2>1, <2>4, <2>8, <2>9 DEF FollowInv, TakenIsKnown
    <2>11. GateFollows'
      <3> SUFFICES ASSUME slips' = {}, NoneAtQueue,
                          \A j \in DOMAIN commands : Latest(j) => j \in delivered',
                          NEW j \in delivered', NEW c \in Credential,
                          Carries(j, c), credential[c] = "active"
                   PROVE  gate'[c] = expected
        BY <1>1, <2>4, <2>5 DEF GateFollows, OpensGate
      <3>1. slips = {} /\ (j = i \/ j \in delivered)
        BY <2>1
      <3>2. CASE j = i
        BY <2>8, <3>2
      <3>3. CASE j \in delivered /\ commands[i].type = "set_credential"
        <4>1. i \notin Asked
          BY <3>3 DEF Asked, GrantCommand
        <4>2. \A k \in DOMAIN commands : Latest(k) => k \in delivered
          BY <2>1, <4>1 DEF Latest
        <4>3. gate[c] = expected
          BY <3>1, <3>3, <4>2 DEF FollowInv, GateFollows
        <4>4. commands[i].about # c => gate'[c] = gate[c]
          BY <2>1, <3>3 DEF Applied
        <4> QED
          BY <2>8, <3>3, <4>3, <4>4 DEF Carries
      <3>4. CASE j \in delivered /\ commands[i].type = "revoke_credential"
        <4>1. i \notin Asked
          BY <3>4 DEF Asked, GrantCommand
        <4>2. \A k \in DOMAIN commands : Latest(k) => k \in delivered
          BY <2>1, <4>1 DEF Latest
        <4>3. gate[c] = expected
          BY <3>1, <3>4, <4>2 DEF FollowInv, GateFollows
        <4>4. commands[i].about # c
          BY <2>2, <3>4 DEF IInv, Withdrawn
        <4>5. gate'[c] = gate[c]
          BY <2>1, <3>4, <4>4 DEF Applied
        <4> QED
          BY <4>3, <4>5
      <3>5. CASE j \in delivered /\ commands[i].type \in GrantCommand
        <4>1. gate[c] # "absent"
          BY <3>5 DEF FollowInv, TakenIsKnown
        <4>2. gate'[c] = IF Opening(commands[i].type) THEN "open" ELSE "shut"
          BY <2>1, <3>5, <4>1 DEF Applied, Opening, GrantCommand
        <4>3. Latest(i)
          <5>1. i \in Asked /\ \A k \in delivered : k > i => k \notin Asked
            <6>1. "overtaken" \notin slips'
              OBVIOUS
            <6>2. ~\E k \in delivered : k > i /\ commands[k].type \in GrantCommand
              BY <1>3, <3>5, <6>1
            <6> QED
              BY <2>2, <3>5, <6>2 DEF Asked
          <5>2. PICK k \in DOMAIN commands : Latest(k)
            BY <5>1, LatestExists
          <5>3. k = i \/ k \in delivered
            BY <2>1, <5>2
          <5>4. k \in Asked /\ i <= k /\ i \in Nat /\ k \in Nat
            BY <2>2, <5>1, <5>2 DEF Latest
          <5> QED
            BY <5>1, <5>2, <5>3, <5>4
        <4>4. Opening(commands[i].type) <=> OpensGate(grant)
          BY <2>2, <3>1, <4>3 DEF FollowInv, QueueFollows
        <4> QED
          BY <4>2, <4>4
      <3>6. commands[i].type \in GrantCommand \cup {"set_credential", "revoke_credential"}
        BY <2>2 DEF Command, CommandType
      <3> QED
        BY <3>1, <3>2, <3>3, <3>4, <3>5, <3>6
    <2> QED
      BY <2>6, <2>7, <2>10, <2>11 DEF FollowInv
  <1> QED
    BY <1>2, <1>3

-----------------------------------------------------------------------------
\* Every step keeps both invariants.
LEMMA FollowHolds == IInv /\ FollowInv /\ [Next]_vars => FollowInv'
  <1> SUFFICES ASSUME IInv, FollowInv, [Next]_vars PROVE FollowInv'
    OBVIOUS
  <1>1. CASE MoveIn \/ DebtChanges \/ UNCHANGED vars
    BY <1>1, OthersFollow DEF MoveIn, DebtChanges, queue, vars
  <1>2. CASE \E p \in Caller : Begin(p) \/ Evaluate(p) \/ CallerDies(p)
    BY <1>2, LooseFollow, LosePhoneFollows, ReplaceCodeFollows, CallerDiesFollows DEF Begin
  <1>3. CASE \E p \in Caller : Continue(p)
    BY <1>3, LooseFollow, WriteGrantFollows, QueueTransitionFollows, IssueFollows,
       SendCredentialFollows, RetractFollows DEF Continue
  <1>4. ASSUME NEW d \in Drain,
               \/ \E late \in SUBSET Failed : StartDrain(d, late)
               \/ \E ok \in BOOLEAN : Send(d, ok)
               \/ Record(d) \/ DrainDies(d)
        PROVE  FollowInv'
    <2>1. CASE (\E late \in SUBSET Failed : StartDrain(d, late)) \/ DrainDies(d)
      BY <2>1, OthersFollow DEF StartDrain, DrainDies
    <2>2. CASE (\E ok \in BOOLEAN : Send(d, ok)) \/ Record(d)
      BY <2>2, SendFollows, RecordFollows
    <2> QED
      BY <1>4, <2>1, <2>2
  <1> QED
    BY <1>1, <1>2, <1>3, <1>4 DEF Next

\* When all is quiet and nothing has gone wrong, every live code was taken, and so
\* was the latest command about the grant.
LEMMA QuietFollows == IInv /\ FollowInv => DriftHasACause
  <1> SUFFICES ASSUME IInv, FollowInv, Calm, AllTaken, slips = {},
                      NEW c \in Credential, credential[c] = "active"
               PROVE  gate[c] = (IF OpensGate(grant) THEN "open" ELSE "shut")
    BY DEF DriftHasACause
  <1>1. \A p \in Caller : caller[p].step = "idle"
    BY DEF Calm
  <1>2. NoneAtQueue /\ \A p \in Caller : ~InHand(p, c)
    BY <1>1 DEF NoneAtQueue, AtQueue, InHand
  <1>3. PICK i \in DOMAIN commands : Carries(i, c)
    BY <1>2 DEF FollowInv, LiveIsSent
  <1>4. \A j \in DOMAIN commands : j \in delivered
    BY DEF AllTaken, IInv, QueueInv, SuccessIsReal
  <1> QED
    BY <1>2, <1>3, <1>4 DEF FollowInv, GateFollows

-----------------------------------------------------------------------------
\* The invariant holds in every state, whatever callers and drains there are.
THEOREM InvariantHolds == Spec => []IInv
  <1> QED
    BY InitHolds, NextHolds, PTL DEF Spec

\* The variables have their types; no two commands share an idempotency key, and
\* none has been tried more often than MAX_ATTEMPTS.
THEOREM AccessTyped == Spec => []TypeOK
  <1> QED
    BY InvariantHolds, Typed, PTL

\* A command that reads as succeeded was taken by the controller, however many
\* drains have the same command in hand.
THEOREM AccessSuccessIsReal == Spec => []SuccessIsReal
  <1>1. IInv => SuccessIsReal
    BY DEF IInv, QueueInv
  <1> QED
    BY InvariantHolds, <1>1, PTL

\* When nothing is on its way, every live code opens the gate exactly if the grant
\* is active, unless a command was given up, lost or overtaken, or two moves of the
\* grant raced: the two invariants together.
THEOREM AccessDrift == Spec => []DriftHasACause
  <1>1. Spec => []FollowInv
    BY InvariantHolds, FollowInit, FollowHolds, PTL DEF Spec
  <1> QED
    BY InvariantHolds, <1>1, QuietFollows, PTL

\* A revoked grant comes back only over a race: the state machine refuses every
\* caller that reads it after it was revoked.
THEOREM AccessRevival == Spec => RevivalNeedsARace
  <1>1. IInv /\ [Next]_vars => [grant = "revoked" => grant' = "revoked" \/ "raced" \in slips']_vars
    <2> SUFFICES ASSUME IInv, Next, grant = "revoked"
                 PROVE  grant' = "revoked" \/ "raced" \in slips'
      BY DEF vars
    <2>1. ASSUME NEW p \in Caller, WriteGrant(p)
          PROVE  grant' = "revoked" \/ "raced" \in slips'
      <3>1. caller[p].seen = version => CanTransition("revoked", caller[p].to)
        BY <2>1 DEF WriteGrant, IInv, CallerInv, ReadBeforeWritten
      <3>2. caller[p].seen # version
        BY <3>1 DEF CanTransition
      <3> QED
        BY <2>1, <3>2 DEF WriteGrant
    <2>2. (\A p \in Caller : ~WriteGrant(p)) => grant' = grant
      BY DEF Next, MoveIn, DebtChanges, Begin, Provision, MoveOut, Enroll, LosePhone, ReplaceCode,
         Evaluate, Continue, ReadGrant, QueueTransition, Mint, Issue, SendCredential, Retract,
         CallerDies, StartDrain, Send, Record, DrainDies
    <2> QED
      BY <2>1, <2>2
  <1> QED
    BY InvariantHolds, <1>1, PTL DEF Spec, RevivalNeedsARace
=============================================================================
